------------------------ MODULE DbOperations_proofs ------------------------
(***************************************************************************)
(* Proofs about the failure switch alone (FailureSwitch), then about the   *)
(* operations that run beside it (DbOperations): for any number of workers *)
(* and toggling threads, any set of modes and of query errors.             *)
(***************************************************************************)
EXTENDS DbOperations, TLAPS

(******************************** The switch *******************************)

(***************************************************************************)
(* The inductive invariant.  While a group of toggles overlaps, each       *)
(* conjunct of SettlesOnAsked holds or some toggle of the group has still  *)
(* to make the write that establishes it.                                  *)
(***************************************************************************)
\* A toggle being served belongs to the current group and has a valid mode.
ActiveAsked ==
  \A t \in Togglers : tpc[t] \in Active =>
    req[t] \in asked /\ req[t].mode # BadMode

EnabledAsked ==
  \/ switch.enabled \in AskedEnables
  \/ \E t \in Togglers : tpc[t] = "enabled"

\* Whoever has written the flag finds a value of the group in it.
WrittenAsked ==
  \A t \in Togglers :
    tpc[t] \in Active \ {"enabled"} => switch.enabled \in AskedEnables

GaugeAsked ==
  \/ \E on \in AskedEnables : gauge = GaugeValue(on)
  \/ \E t \in Togglers : tpc[t] \in {"enabled", "mode", "gauge"}

ModeAsked == switch.mode \in AskedModes \/ ModeUnwritten

\* Whoever named a mode and has written it finds a mode of the group.
ModeWritten ==
  \A t \in Togglers :
    tpc[t] \in {"gauge", "readEnabled", "readMode"} /\ req[t].mode # NoMode =>
      switch.mode \in AskedModes

\* The flag read for the response is one of the group.
EnabledEchoed ==
  \A t \in Togglers :
    tpc[t] = "readMode" => reply[t].enabled \in AskedEnables

SwitchIInv ==
  /\ SwitchTypeOK
  /\ ActiveAsked
  /\ EnabledAsked
  /\ WrittenAsked
  /\ GaugeAsked
  /\ ModeAsked
  /\ ModeWritten
  /\ EnabledEchoed

(* The start: the settings count as a group of one request. *)
LEMMA SwitchInitInv == SwitchInit => SwitchIInv
<1>1. SUFFICES ASSUME SwitchInit PROVE SwitchIInv
  OBVIOUS
<1>2. PICK on \in BOOLEAN, m \in Modes :
        /\ switch = [enabled |-> on, mode |-> m]
        /\ gauge = GaugeValue(on)
        /\ asked = {[enable |-> on, mode |-> m]}
  BY <1>1 DEF SwitchInit
<1>3. SwitchTypeOK
  BY <1>1, <1>2 DEF SwitchInit, SwitchTypeOK, Requests, Replies, NoReply,
                    Reply, GaugeValue, Active
<1>4. on \in AskedEnables /\ switch.enabled = on
  BY <1>2 DEF AskedEnables
<1>5. switch.mode \in AskedModes
  BY <1>2, SwitchAssumption DEF AskedModes
<1>6. \A t \in Togglers : tpc[t] = "idle"
  BY <1>1 DEF SwitchInit
<1> QED
  BY <1>2, <1>3, <1>4, <1>5, <1>6
     DEF SwitchIInv, ActiveAsked, EnabledAsked, WrittenAsked, GaugeAsked,
         ModeAsked, ModeWritten, EnabledEchoed, Active

(* A rejected request touches nothing a toggle being served relies on. *)
LEMMA RejectInv ==
  ASSUME SwitchIInv, NEW t \in Togglers, Reject(t) PROVE SwitchIInv'
<1>1. PICK r \in Requests :
        /\ req' = [req EXCEPT ![t] = r]
        /\ reply' = [reply EXCEPT ![t] = Reply(IF Controls THEN 400 ELSE 403)]
  BY DEF Reject
<1>2. UNCHANGED <<switch, gauge, tpc, asked>> /\ tpc[t] = "idle"
  BY DEF Reject
<1>3. SwitchTypeOK'
  <2>1. Reply(IF Controls THEN 400 ELSE 403) \in Replies
    BY SwitchAssumption DEF Reply, Replies
  <2> QED
    BY <1>1, <1>2, <2>1 DEF SwitchIInv, SwitchTypeOK
<1>4. AskedEnables' = AskedEnables /\ AskedModes' = AskedModes
  BY <1>2 DEF AskedEnables, AskedModes
<1>5. \A s \in Togglers : tpc[s] \in Active => req'[s] = req[s] /\ reply'[s] = reply[s]
  BY <1>1, <1>2 DEF SwitchIInv, SwitchTypeOK, Active
<1> QED
  BY <1>2, <1>3, <1>4, <1>5
     DEF SwitchIInv, ActiveAsked, EnabledAsked, WrittenAsked, GaugeAsked,
         ModeAsked, ModeUnwritten, ModeWritten, EnabledEchoed, Active

(* An accepted request opens a group or joins the one that is there. *)
LEMMA AcceptInv ==
  ASSUME SwitchIInv, NEW t \in Togglers, Accept(t) PROVE SwitchIInv'
<1>1. PICK r \in Requests :
        /\ r.mode # BadMode
        /\ req' = [req EXCEPT ![t] = r]
        /\ asked' = IF Settled THEN {r} ELSE asked \cup {r}
  BY DEF Accept
<1>2. /\ UNCHANGED <<switch, gauge>>
      /\ tpc' = [tpc EXCEPT ![t] = "enabled"]
      /\ reply' = [reply EXCEPT ![t] = NoReply]
      /\ tpc[t] = "idle"
  BY DEF Accept
<1>3. SwitchTypeOK'
  <2>1. NoReply \in Replies
    BY DEF NoReply, Reply, Replies
  <2> QED
    BY <1>1, <1>2, <2>1 DEF SwitchIInv, SwitchTypeOK, Active
<1>4. tpc'[t] = "enabled" /\ req'[t] = r /\ r \in asked'
  BY <1>1, <1>2 DEF SwitchIInv, SwitchTypeOK
<1>5. \A s \in Togglers : s # t =>
        tpc'[s] = tpc[s] /\ req'[s] = req[s] /\ reply'[s] = reply[s]
  BY <1>1, <1>2 DEF SwitchIInv, SwitchTypeOK
<1>6. \A s \in Togglers : s # t /\ tpc[s] \in Active => asked' = asked \cup {r}
  BY <1>1 DEF Settled
<1>7. asked' = asked \cup {r} => AskedEnables \subseteq AskedEnables'
  BY DEF AskedEnables
<1>8. ActiveAsked'
  BY <1>1, <1>4, <1>5, <1>6 DEF SwitchIInv, ActiveAsked
<1>9. EnabledAsked' /\ GaugeAsked'
  BY <1>4 DEF EnabledAsked, GaugeAsked
<1>10. WrittenAsked' /\ EnabledEchoed'
  BY <1>2, <1>4, <1>5, <1>6, <1>7
     DEF SwitchIInv, WrittenAsked, EnabledEchoed, Active
<1>11. ModeWritten'
  <2>1. SUFFICES ASSUME NEW s \in Togglers, req'[s].mode # NoMode,
                        tpc'[s] \in {"gauge", "readEnabled", "readMode"}
                 PROVE  switch'.mode \in AskedModes'
    BY DEF ModeWritten
  <2>2. s # t /\ asked' = asked \cup {r}
    BY <2>1, <1>4, <1>5, <1>6 DEF Active
  <2>3. switch.mode \in AskedModes
    BY <2>1, <2>2, <1>5 DEF SwitchIInv, ModeWritten
  <2> QED
    BY <2>2, <2>3, <1>2 DEF AskedModes
<1>12. ModeAsked'
  <2>1. CASE asked' = {r}
    BY <2>1, <1>4 DEF ModeAsked, ModeUnwritten
  <2>2. CASE asked' = asked \cup {r}
    <3>1. AskedModes \subseteq AskedModes'
      BY <2>2 DEF AskedModes
    <3>2. \A s \in Togglers : tpc[s] \in {"enabled", "mode"} =>
            tpc'[s] = tpc[s] /\ req'[s] = req[s]
      BY <1>2, <1>5
    <3>3. ModeUnwritten => ModeUnwritten'
      BY <2>2, <3>2, <1>4 DEF ModeUnwritten
    <3> QED
      BY <3>1, <3>3, <1>2 DEF SwitchIInv, ModeAsked
  <2> QED
    BY <1>1, <2>1, <2>2
<1> QED
  BY <1>3, <1>8, <1>9, <1>10, <1>11, <1>12 DEF SwitchIInv

(* A step of a toggle being served moves that thread alone, and the group  *)
(* stays as it is.                                                         *)
LEMMA ToggleStepFrame ==
  ASSUME SwitchIInv, NEW t \in Togglers, ToggleStep(t)
  PROVE  /\ tpc[t] \in Active
         /\ tpc' \in [Togglers -> Active \cup {"idle"}]
         /\ \A s \in Togglers : s # t => tpc'[s] = tpc[s]
         /\ req' = req /\ asked' = asked
         /\ AskedEnables' = AskedEnables /\ AskedModes' = AskedModes
         /\ req[t] \in asked
         /\ req[t].enable \in AskedEnables /\ req[t].enable \in BOOLEAN
         /\ req[t].mode # NoMode =>
              req[t].mode \in AskedModes /\ req[t].mode \in Modes
         /\ ActiveAsked'
<1>1. tpc[t] \in Active /\ req' = req /\ asked' = asked
  BY DEF ToggleStep, WriteEnabled, WriteMode, SetGauge, ReadEnabled, ReadMode,
         Active
<1>2. \E place \in Active \cup {"idle"} : tpc' = [tpc EXCEPT ![t] = place]
  BY DEF ToggleStep, WriteEnabled, WriteMode, SetGauge, ReadEnabled, ReadMode,
         Active
<1>3. req[t] \in Requests /\ req[t] \in asked /\ req[t].mode # BadMode
  BY <1>1 DEF SwitchIInv, SwitchTypeOK, ActiveAsked
<1>4. AskedEnables' = AskedEnables /\ AskedModes' = AskedModes
  BY <1>1 DEF AskedEnables, AskedModes
<1>5. req[t].enable \in AskedEnables /\ req[t].enable \in BOOLEAN
  BY <1>3 DEF AskedEnables, Requests
<1>6. req[t].mode # NoMode => req[t].mode \in AskedModes /\ req[t].mode \in Modes
  BY <1>3 DEF AskedModes, Requests
<1>7. /\ tpc' \in [Togglers -> Active \cup {"idle"}]
      /\ \A s \in Togglers : s # t => tpc'[s] = tpc[s]
  BY <1>2 DEF SwitchIInv, SwitchTypeOK
<1>8. ActiveAsked'
  BY <1>1, <1>7 DEF SwitchIInv, ActiveAsked
<1> QED
  BY <1>1, <1>3, <1>4, <1>5, <1>6, <1>7, <1>8

(* Each write establishes its conjunct of SettlesOnAsked.                  *)
LEMMA WriteEnabledInv ==
  ASSUME SwitchIInv, NEW t \in Togglers, WriteEnabled(t) PROVE SwitchIInv'
<1> USE ToggleStepFrame DEF ToggleStep
<1>1. /\ tpc[t] = "enabled" /\ tpc'[t] = "mode"
      /\ switch'.enabled = req[t].enable /\ switch'.mode = switch.mode
      /\ switch' \in [enabled : BOOLEAN, mode : Modes]
      /\ UNCHANGED <<gauge, reply>>
  BY DEF WriteEnabled, SwitchIInv, SwitchTypeOK
<1>2. SwitchTypeOK'
  BY <1>1 DEF SwitchIInv, SwitchTypeOK
<1>3. switch'.enabled \in AskedEnables'
  BY <1>1
<1>4. EnabledAsked' /\ WrittenAsked'
  BY <1>3 DEF EnabledAsked, WrittenAsked
<1>5. GaugeAsked'
  BY <1>1 DEF GaugeAsked
<1>6. ModeAsked' /\ ModeWritten'
  BY <1>1 DEF SwitchIInv, ModeAsked, ModeUnwritten, ModeWritten
<1>7. EnabledEchoed'
  BY <1>1 DEF SwitchIInv, EnabledEchoed
<1> QED
  BY <1>2, <1>4, <1>5, <1>6, <1>7 DEF SwitchIInv

LEMMA WriteModeInv ==
  ASSUME SwitchIInv, NEW t \in Togglers, WriteMode(t) PROVE SwitchIInv'
<1> USE ToggleStepFrame DEF ToggleStep
<1>1. /\ tpc[t] = "mode" /\ tpc'[t] = "gauge"
      /\ switch' = IF req[t].mode = NoMode THEN switch
                   ELSE [switch EXCEPT !.mode = req[t].mode]
      /\ UNCHANGED <<gauge, reply>>
  BY DEF WriteMode, SwitchIInv, SwitchTypeOK
<1>2. /\ switch'.enabled = switch.enabled
      /\ req[t].mode # NoMode => switch'.mode = req[t].mode
      /\ req[t].mode = NoMode => switch'.mode = switch.mode
      /\ switch' \in [enabled : BOOLEAN, mode : Modes]
  BY <1>1 DEF SwitchIInv, SwitchTypeOK
<1>3. SwitchTypeOK'
  BY <1>1, <1>2 DEF SwitchIInv, SwitchTypeOK
<1>4. EnabledAsked' /\ WrittenAsked'
  BY <1>1, <1>2 DEF SwitchIInv, EnabledAsked, WrittenAsked, Active
<1>5. GaugeAsked'
  BY <1>1 DEF GaugeAsked
<1>6. ModeAsked' /\ ModeWritten'
  <2>1. CASE req[t].mode = NoMode
    BY <1>1, <1>2, <2>1
       DEF SwitchIInv, ModeAsked, ModeUnwritten, ModeWritten
  <2>2. CASE req[t].mode # NoMode
    BY <1>2, <2>2 DEF ModeAsked, ModeWritten
  <2> QED
    BY <2>1, <2>2
<1>7. EnabledEchoed'
  BY <1>1 DEF SwitchIInv, EnabledEchoed
<1> QED
  BY <1>3, <1>4, <1>5, <1>6, <1>7 DEF SwitchIInv

LEMMA SetGaugeInv ==
  ASSUME SwitchIInv, NEW t \in Togglers, SetGauge(t) PROVE SwitchIInv'
<1> USE ToggleStepFrame DEF ToggleStep
<1>1. /\ tpc[t] = "gauge" /\ tpc'[t] = "readEnabled"
      /\ gauge' = GaugeValue(req[t].enable)
      /\ UNCHANGED <<switch, reply>>
  BY DEF SetGauge, SwitchIInv, SwitchTypeOK
<1>2. SwitchTypeOK'
  BY <1>1 DEF SwitchIInv, SwitchTypeOK, GaugeValue
<1>3. GaugeAsked'
  BY <1>1 DEF GaugeAsked
<1>4. EnabledAsked' /\ WrittenAsked' /\ ModeAsked' /\ EnabledEchoed'
  BY <1>1 DEF SwitchIInv, EnabledAsked, WrittenAsked, ModeAsked, ModeUnwritten,
              EnabledEchoed, Active
<1>5. ModeWritten'
  BY <1>1 DEF SwitchIInv, ModeWritten
<1> QED
  BY <1>2, <1>3, <1>4, <1>5, ToggleStepFrame DEF SwitchIInv

(* The two reads change nothing but the response.                          *)
LEMMA ReadsInv ==
  ASSUME SwitchIInv, NEW t \in Togglers, ReadEnabled(t) \/ ReadMode(t)
  PROVE  SwitchIInv'
<1> USE ToggleStepFrame DEF ToggleStep
<1>1. /\ tpc[t] \in {"readEnabled", "readMode"}
      /\ tpc'[t] \in {"readMode", "idle"}
      /\ UNCHANGED <<switch, gauge>>
      /\ reply' \in [Togglers -> Replies]
      /\ \A s \in Togglers : s # t => reply'[s] = reply[s]
      /\ tpc'[t] = "readMode" => reply'[t].enabled = switch.enabled
  BY DEF ReadEnabled, ReadMode, SwitchIInv, SwitchTypeOK, Replies
<1>2. SwitchTypeOK'
  BY <1>1 DEF SwitchIInv, SwitchTypeOK
<1>3. EnabledAsked' /\ WrittenAsked' /\ GaugeAsked' /\ ModeAsked'
  BY <1>1 DEF SwitchIInv, EnabledAsked, WrittenAsked, GaugeAsked, ModeAsked,
              ModeUnwritten, Active
<1>4. switch.enabled \in AskedEnables
  BY <1>1 DEF SwitchIInv, WrittenAsked, Active
<1>5. EnabledEchoed'
  BY <1>1, <1>4 DEF SwitchIInv, EnabledEchoed
<1>6. ModeWritten'
  BY <1>1 DEF SwitchIInv, ModeWritten
<1> QED
  BY <1>2, <1>3, <1>5, <1>6, ToggleStepFrame DEF SwitchIInv

LEMMA SwitchNextInv == SwitchIInv /\ [SwitchNext]_switchVars => SwitchIInv'
<1>1. CASE UNCHANGED switchVars
  BY <1>1 DEF switchVars, SwitchIInv, SwitchTypeOK, ActiveAsked, EnabledAsked,
              WrittenAsked, GaugeAsked, ModeAsked, ModeUnwritten, ModeWritten,
              EnabledEchoed, AskedEnables, AskedModes
<1>2. CASE SwitchNext
  BY <1>2, RejectInv, AcceptInv, WriteEnabledInv, WriteModeInv, SetGaugeInv,
     ReadsInv DEF SwitchNext, ToggleStep
<1> QED
  BY <1>1, <1>2

LEMMA SwitchIInvSettles == SwitchIInv => SettlesOnAsked
BY DEF SwitchIInv, SettlesOnAsked, Settled, EnabledAsked, GaugeAsked, ModeAsked,
       ModeUnwritten, AskedModes, Active

(***************************************************************************)
(* Type correctness of the switch, for any number of threads and modes:    *)
(* in particular _failure_state.mode is always a valid mode, so the lookup *)
(* of its message in _maybe_fail cannot fail.                              *)
(***************************************************************************)
THEOREM SwitchTypeCorrect == SwitchSpec => []SwitchTypeOK
<1>1. SwitchSpec => []SwitchIInv
  BY SwitchInitInv, SwitchNextInv, PTL DEF SwitchSpec
<1>2. SwitchIInv => SwitchTypeOK
  BY DEF SwitchIInv
<1> QED
  BY <1>1, <1>2, PTL

(***************************************************************************)
(* Whatever the interleaving of any number of unlocked toggles, the switch *)
(* and its gauge settle on what some toggle of the last overlapping group  *)
(* asked for.                                                              *)
(***************************************************************************)
THEOREM SwitchSettles == SwitchSpec => []SettlesOnAsked
<1>1. SwitchSpec => []SwitchIInv
  BY SwitchInitInv, SwitchNextInv, PTL DEF SwitchSpec
<1>2. SwitchIInv => SettlesOnAsked
  BY SwitchIInvSettles
<1> QED
  BY <1>1, <1>2, PTL

(***************************************************************************)
(* Where GaugeShowsSwitch does hold, although nothing locks the three      *)
(* writes: when the toggles that overlapped agreed on `enable`.            *)
(***************************************************************************)
Unanimous == \A r, s \in asked : r.enable = s.enable

THEOREM UnanimousGaugeShows == SwitchSpec => [](Unanimous => GaugeShowsSwitch)
<1>1. SettlesOnAsked => (Unanimous => GaugeShowsSwitch)
  BY DEF SettlesOnAsked, AskedEnables, Unanimous, GaugeShowsSwitch
<1> QED
  BY <1>1, SwitchSettles, PTL

(***************************************************************************)
(* A toggle that no other overlapped is applied to the letter: the record, *)
(* the gauge and, where it named one, the mode.  (toggle_db_failure.)      *)
(***************************************************************************)
Applied(r) ==
  /\ switch.enabled = r.enable
  /\ gauge = GaugeValue(r.enable)
  /\ r.mode # NoMode => switch.mode = r.mode

THEOREM LoneToggleApplies ==
  SwitchSpec => [](\A r \in asked : Settled /\ asked = {r} => Applied(r))
<1>1. SettlesOnAsked => \A r \in asked : Settled /\ asked = {r} => Applied(r)
  <2>1. SUFFICES ASSUME SettlesOnAsked, NEW r \in asked, Settled, asked = {r}
                 PROVE  Applied(r)
    OBVIOUS
  <2>2. AskedEnables = {r.enable}
    BY <2>1 DEF AskedEnables
  <2>3. AskedModes = {r.mode} \ {NoMode}
    BY <2>1 DEF AskedModes
  <2> QED
    BY <2>1, <2>2, <2>3 DEF SettlesOnAsked, Applied
<1> QED
  BY <1>1, SwitchSettles, PTL

(***************************************************************************)
(* The response of a toggle reads the record again with no lock.  The flag *)
(* it reports was asked for in its overlapping group, and the mode too     *)
(* unless it named none and no toggle has yet written the mode it names.   *)
(***************************************************************************)
THEOREM ResponsesEcho == SwitchSpec => EchoesAsked
<1>1. SwitchSpec => []SwitchIInv
  BY SwitchInitInv, SwitchNextInv, PTL DEF SwitchSpec
<1> DEFINE Echoed ==
      \A t \in Togglers :
        reply[t].status # 200 /\ reply'[t].status = 200 =>
          /\ reply'[t].enabled \in AskedEnables
          /\ req[t].mode # NoMode => reply'[t].mode \in AskedModes
          /\ reply'[t].mode \in AskedModes \/ ModeUnwritten
<1>2. SwitchIInv /\ [SwitchNext]_switchVars => [Echoed]_switchVars
  <2>1. SUFFICES ASSUME SwitchIInv, SwitchNext, NEW t \in Togglers,
                        reply[t].status # 200, reply'[t].status = 200
                 PROVE  /\ reply'[t].enabled \in AskedEnables
                        /\ req[t].mode # NoMode => reply'[t].mode \in AskedModes
                        /\ reply'[t].mode \in AskedModes \/ ModeUnwritten
    OBVIOUS
  <2>2. PICK s \in Togglers : Reject(s) \/ Accept(s) \/ ToggleStep(s)
    BY <2>1 DEF SwitchNext
  <2>3. reply \in [Togglers -> Replies]
    BY <2>1 DEF SwitchIInv, SwitchTypeOK
  <2>4. ~Reject(s)
    BY <2>1, <2>3 DEF Reject, Reply
  <2>5. ~Accept(s)
    BY <2>1, <2>3 DEF Accept, NoReply, Reply
  <2>6. ReadMode(s)
    BY <2>1, <2>2, <2>3, <2>4, <2>5
       DEF ToggleStep, WriteEnabled, WriteMode, SetGauge, ReadEnabled, Replies
  <2>7. /\ s = t /\ tpc[t] = "readMode"
        /\ reply'[t].mode = switch.mode /\ reply'[t].enabled = reply[t].enabled
    BY <2>1, <2>3, <2>6 DEF ReadMode, Replies
  <2> QED
    BY <2>1, <2>7 DEF SwitchIInv, EnabledEchoed, ModeWritten, ModeAsked
<1> QED
  BY <1>1, <1>2, PTL DEF SwitchSpec, EchoesAsked
-----------------------------------------------------------------------------
(****************************** The operations *****************************)

(***************************************************************************)
(* What the switch promised an operation is what it finds, as long as the  *)
(* promise stands.                                                         *)
(***************************************************************************)
Promised == IF switch.enabled THEN switch.mode ELSE Pass

PromiseKept(w) ==
  /\ wpc[w] \in {"check", "armed"} => Settled /\ expect[w] = Promised
  /\ wpc[w] = "armed" => expect[w] # Pass
  /\ wpc[w] \in {"delay", "raise"} => expect[w] # Pass /\ err[w] = expect[w]
  /\ wpc[w] \in {"query", "returned", "observed"} => expect[w] = Pass
  /\ wpc[w] \in {"failed", "counted", "classified", "done"} =>
       /\ simulated[w] <=> expect[w] # Pass
       /\ simulated[w] => err[w] = expect[w]

\* An exception of _maybe_fail is marked as such from its raise on.
Marked(w) ==
  /\ wpc[w] \in {"check", "armed", "query", "returned", "observed"} =>
       ~simulated[w]
  /\ wpc[w] \in {"delay", "raise"} => simulated[w]

OpIInv ==
  /\ OpTypeOK
  /\ \A w \in Workers : Marked(w)
  /\ \A w \in Workers : expect[w] # Unknown => PromiseKept(w)

IInv == SwitchIInv /\ OpIInv

LEMMA ModeFacts ==
  /\ Modes \subseteq ErrorTypes
  /\ Pass \notin Modes /\ Unknown \notin Modes /\ Pass # Unknown
  /\ QueryTypes \subseteq ErrorTypes
BY OperationsAssumption
   DEF SimulatedModes, ErrorTypes, RealErrorTypes, Pass, Unknown

(* Every step of the composition is a step of the switch, or leaves it.    *)
LEMMA SwitchStep == [Next]_vars => [SwitchNext]_switchVars
<1>1. ASSUME NEW w \in Workers, Begin(w) \/ OperationStep(w)
      PROVE  UNCHANGED switchVars
  BY <1>1 DEF OperationStep, Begin, CheckEnabled, PickMode, Delay,
     RaiseSimulated, QuerySucceeds, QueryFails, CountFailed, CountError,
     FinishFailed, CountReturned, FinishReturned
<1>2. ASSUME NEW t \in Togglers, AcceptToggle(t) \/ OtherToggle(t)
      PROVE  SwitchNext
  BY <1>2 DEF AcceptToggle, OtherToggle, SwitchNext
<1>3. DatabaseChanges => UNCHANGED switchVars
  BY DEF DatabaseChanges
<1>4. UNCHANGED vars => UNCHANGED switchVars
  BY DEF vars
<1> QED
  BY <1>1, <1>2, <1>3, <1>4 DEF Next

LEMMA InitInv == Init => IInv
<1>1. SUFFICES ASSUME Init PROVE SwitchIInv /\ OpIInv
  BY DEF IInv
<1>2. SwitchIInv
  BY <1>1, SwitchInitInv DEF Init
<1>3. OpTypeOK
  BY <1>1 DEF Init, OpTypeOK, WorkerPcs, NoError, Unknown
<1>4. \A w \in Workers : Marked(w) /\ expect[w] = Unknown
  BY <1>1 DEF Init, Marked
<1> QED
  BY <1>2, <1>3, <1>4 DEF OpIInv

(* A new operation is promised what the settled switch says.               *)
LEMMA BeginInv == ASSUME IInv, NEW w \in Workers, Begin(w) PROVE OpIInv'
<1>1. /\ UNCHANGED <<switch, tpc>>
      /\ Settled' = Settled /\ Promised' = Promised
  BY DEF Begin, switchVars, Settled, Promised
<1>2. /\ wpc'[w] = "check" /\ err'[w] = NoError /\ simulated'[w] = FALSE
      /\ expect'[w] # Unknown => Settled /\ expect'[w] = Promised
  BY DEF Begin, IInv, OpIInv, OpTypeOK, Promised
<1>3. \A v \in Workers : v # w =>
        /\ wpc'[v] = wpc[v] /\ err'[v] = err[v]
        /\ simulated'[v] = simulated[v] /\ expect'[v] = expect[v]
  BY DEF Begin, IInv, OpIInv, OpTypeOK
<1>4. OpTypeOK'
  <2>1. switch.mode \in Modes
    BY DEF IInv, SwitchIInv, SwitchTypeOK
  <2> QED
    BY <2>1 DEF Begin, IInv, OpIInv, OpTypeOK, WorkerPcs, NoError
<1>5. \A v \in Workers : Marked(v)'
  BY <1>2, <1>3 DEF IInv, OpIInv, Marked
<1>6. \A v \in Workers : expect'[v] # Unknown => PromiseKept(v)'
  BY <1>1, <1>2, <1>3 DEF IInv, OpIInv, PromiseKept
<1> QED
  BY <1>4, <1>5, <1>6 DEF OpIInv

(* A step inside an operation keeps its promise; the others do not notice. *)
LEMMA OperationStepInv ==
  ASSUME IInv, NEW w \in Workers, OperationStep(w) PROVE OpIInv'
<1>1. /\ UNCHANGED <<switch, tpc, expect>>
      /\ Settled' = Settled /\ Promised' = Promised
  BY DEF OperationStep, CheckEnabled, PickMode, Delay, RaiseSimulated,
     QuerySucceeds, QueryFails, CountFailed, CountError, FinishFailed,
     CountReturned, FinishReturned, switchVars, Settled, Promised
<1>2. switch.mode \in Modes /\ switch.enabled \in BOOLEAN
  BY DEF IInv, SwitchIInv, SwitchTypeOK
<1>3. OpTypeOK'
  BY <1>2, ModeFacts DEF IInv, OpIInv, OpTypeOK, OperationStep, CheckEnabled,
     PickMode, Delay, RaiseSimulated, QuerySucceeds, QueryFails, CountFailed,
     CountError, FinishFailed, CountReturned, FinishReturned, WorkerPcs
<1>4. \A v \in Workers : v # w =>
        wpc'[v] = wpc[v] /\ err'[v] = err[v] /\ simulated'[v] = simulated[v]
  BY DEF IInv, OpIInv, OpTypeOK, OperationStep, CheckEnabled, PickMode, Delay,
     RaiseSimulated, QuerySucceeds, QueryFails, CountFailed, CountError,
     FinishFailed, CountReturned, FinishReturned
<1>5. Marked(w)'
  BY DEF IInv, OpIInv, OpTypeOK, Marked, OperationStep, CheckEnabled, PickMode,
     Delay, RaiseSimulated, QuerySucceeds, QueryFails, CountFailed, CountError,
     FinishFailed, CountReturned, FinishReturned
<1>6. ASSUME expect[w] # Unknown PROVE PromiseKept(w)'
  <2>1. PromiseKept(w) /\ Marked(w)
    BY <1>6 DEF IInv, OpIInv
  <2>2. CASE CheckEnabled(w)
    BY <1>1, <1>2, <2>1, <2>2, ModeFacts
       DEF CheckEnabled, PromiseKept, Promised, IInv, OpIInv, OpTypeOK
  <2>3. CASE PickMode(w)
    BY <1>1, <1>2, <2>1, <2>3, ModeFacts
       DEF PickMode, PromiseKept, Promised, IInv, OpIInv, OpTypeOK
  <2>4. CASE Delay(w) \/ RaiseSimulated(w)
    BY <1>1, <2>1, <2>4
       DEF Delay, RaiseSimulated, PromiseKept, Marked, IInv, OpIInv, OpTypeOK
  <2>5. CASE QuerySucceeds(w) \/ QueryFails(w)
    BY <1>1, <2>1, <2>5
       DEF QuerySucceeds, QueryFails, PromiseKept, Marked, IInv, OpIInv,
           OpTypeOK
  <2>6. CASE CountFailed(w) \/ CountError(w) \/ FinishFailed(w)
    BY <1>1, <2>1, <2>6
       DEF CountFailed, CountError, FinishFailed, PromiseKept, IInv, OpIInv,
           OpTypeOK
  <2>7. CASE CountReturned(w) \/ FinishReturned(w)
    BY <1>1, <2>1, <2>7
       DEF CountReturned, FinishReturned, PromiseKept, Marked, IInv, OpIInv,
           OpTypeOK
  <2> QED
    BY <2>2, <2>3, <2>4, <2>5, <2>6, <2>7 DEF OperationStep
<1>7. \A v \in Workers : v # w /\ expect[v] # Unknown => PromiseKept(v)'
  BY <1>1, <1>4 DEF IInv, OpIInv, PromiseKept
<1>8. \A v \in Workers : v # w => Marked(v)'
  BY <1>4 DEF IInv, OpIInv, Marked
<1> QED
  BY <1>1, <1>3, <1>5, <1>6, <1>7, <1>8 DEF OpIInv

(* A toggle releases the promises to operations at their check; once it is *)
(* under way there are none left to break.                                 *)
LEMMA ToggleInv ==
  ASSUME IInv, NEW t \in Togglers, AcceptToggle(t) \/ OtherToggle(t)
  PROVE  OpIInv'
<1>1. UNCHANGED <<dbUp, healthy, wpc, err, simulated>>
  BY DEF AcceptToggle, OtherToggle, opVars
<1>2. \A w \in Workers : Marked(w)'
  BY <1>1 DEF IInv, OpIInv, Marked
<1>3. CASE AcceptToggle(t)
  <2>1. /\ expect' \in [Workers -> Modes \cup {Pass, Unknown}]
        /\ \A w \in Workers : expect'[w] # Unknown =>
             expect'[w] = expect[w] /\ wpc[w] \notin {"check", "armed"}
    BY <1>3 DEF AcceptToggle, IInv, OpIInv, OpTypeOK
  <2>2. OpTypeOK'
    BY <1>1, <2>1 DEF IInv, OpIInv, OpTypeOK
  <2>3. \A w \in Workers : expect'[w] # Unknown => PromiseKept(w)'
    BY <1>1, <2>1 DEF IInv, OpIInv, PromiseKept
  <2> QED
    BY <1>2, <2>2, <2>3 DEF OpIInv
<1>4. CASE OtherToggle(t)
  <2>1. UNCHANGED expect
    BY <1>4 DEF OtherToggle, opVars
  <2>2. OpTypeOK'
    BY <1>1, <2>1 DEF IInv, OpIInv, OpTypeOK
  <2>3. CASE Reject(t)
    <3>1. UNCHANGED <<switch, tpc>> /\ Settled' = Settled /\ Promised' = Promised
      BY <2>3 DEF Reject, Settled, Promised
    <3>2. \A w \in Workers : expect'[w] # Unknown => PromiseKept(w)'
      BY <1>1, <2>1, <3>1 DEF IInv, OpIInv, PromiseKept
    <3> QED
      BY <1>2, <2>2, <3>2 DEF OpIInv
  <2>4. CASE ToggleStep(t)
    <3>1. ~Settled
      BY <2>4, ToggleStepFrame DEF IInv, Settled
    <3>2. \A w \in Workers : expect'[w] # Unknown => PromiseKept(w)'
      BY <1>1, <2>1, <3>1 DEF IInv, OpIInv, PromiseKept
    <3> QED
      BY <1>2, <2>2, <3>2 DEF OpIInv
  <2> QED
    BY <1>4, <2>3, <2>4 DEF OtherToggle
<1> QED
  BY <1>3, <1>4

LEMMA NextInv == IInv /\ [Next]_vars => IInv'
<1>1. SUFFICES ASSUME IInv, [Next]_vars PROVE OpIInv'
  BY SwitchStep, SwitchNextInv DEF IInv
<1>2. CASE UNCHANGED vars
  <2>1. UNCHANGED <<switch, tpc, dbUp, healthy, wpc, err, simulated, expect>>
    BY <1>2 DEF vars, switchVars, opVars
  <2> QED
    BY <1>1, <2>1 DEF IInv, OpIInv, OpTypeOK, Marked, PromiseKept, Promised,
                      Settled
<1>3. CASE DatabaseChanges
  <2>1. UNCHANGED <<switch, tpc, dbUp, wpc, err, simulated, expect>>
    BY <1>3 DEF DatabaseChanges, switchVars
  <2>2. OpTypeOK'
    BY <1>1, <1>3, <2>1 DEF DatabaseChanges, IInv, OpIInv, OpTypeOK
  <2> QED
    BY <1>1, <2>1, <2>2 DEF IInv, OpIInv, Marked, PromiseKept, Promised, Settled
<1> QED
  BY <1>1, <1>2, <1>3, BeginInv, OperationStepInv, ToggleInv DEF Next

(***************************************************************************)
(* The composed system is type correct: every gauge has a legal value and  *)
(* every error type is one of the bounded label set of classify_db_error.  *)
(***************************************************************************)
THEOREM TypeCorrect == Spec => []TypeOK
<1>1. Spec => []IInv
  BY InitInv, NextInv, PTL DEF Spec
<1>2. IInv => TypeOK
  BY DEF IInv, SwitchIInv, OpIInv, TypeOK
<1> QED
  BY <1>1, <1>2, PTL

(***************************************************************************)
(* The operations leave the switch to its endpoint: seen from the switch,  *)
(* the composed system behaves as FailureSwitch alone, so what is proved   *)
(* of that module holds here too.                                          *)
(***************************************************************************)
THEOREM SwitchRefined == Spec => SwitchSpec
<1>1. Init => SwitchInit
  BY DEF Init
<1> QED
  BY <1>1, SwitchStep, PTL DEF Spec, SwitchSpec

(***************************************************************************)
(* For any number of workers and toggling threads: an operation whose      *)
(* check no toggle overlapped fails exactly as the switch was set when it  *)
(* began.                                                                  *)
(***************************************************************************)
THEOREM SwitchDecides == Spec => []SwitchIsDecisive
<1>1. Spec => []IInv
  BY InitInv, NextInv, PTL DEF Spec
<1>2. IInv => SwitchIsDecisive
  BY DEF IInv, OpIInv, PromiseKept, SwitchIsDecisive
<1> QED
  BY <1>1, <1>2, PTL

(***************************************************************************)
(* With the switch armed the endpoints answer 503: an operation whose      *)
(* check no toggle overlapped ends in an exception that db_http_exception  *)
(* turns into 503, whichever mode was armed and however the delay and the  *)
(* other threads fall.  (docs/failure-scenarios.md, scenario 1.)           *)
(***************************************************************************)
ArmedAnswers503 ==
  \A w \in Workers :
    wpc[w] = "done" /\ expect[w] \in Modes => HttpStatus(err[w]) = 503

THEOREM ArmedIsAnswered503 == Spec => []ArmedAnswers503
<1>1. SwitchIsDecisive => ArmedAnswers503
  <2>1. SUFFICES ASSUME SwitchIsDecisive, NEW w \in Workers,
                        wpc[w] = "done", expect[w] \in Modes
                 PROVE  HttpStatus(err[w]) = 503
    BY DEF ArmedAnswers503
  <2>2. expect[w] # Unknown /\ expect[w] # Pass
    BY <2>1, ModeFacts
  <2>3. err[w] = expect[w]
    BY <2>1, <2>2 DEF SwitchIsDecisive
  <2>4. err[w] \in SimulatedModes
    BY <2>1, <2>3, OperationsAssumption
  <2> QED
    BY <2>4 DEF HttpStatus, UnavailableTypes, SimulatedModes
<1> QED
  BY <1>1, SwitchDecides, PTL

(***************************************************************************)
(* The gauge: DbHealth is implemented, for any number of threads.  First   *)
(* the steps of an operation, which leave the settled switch alone.        *)
(***************************************************************************)
LEMMA WorkerFrame ==
  ASSUME IInv, NEW w \in Workers, Begin(w) \/ OperationStep(w)
  PROVE  /\ UNCHANGED <<switch, tpc, healthy>>
         /\ Settled' = Settled
         /\ \A v \in Workers : v # w => wpc'[v] = wpc[v]
<1> USE DEF OperationStep, Begin, CheckEnabled, PickMode, Delay, RaiseSimulated,
        QuerySucceeds, QueryFails, CountFailed, CountError, FinishFailed,
        CountReturned, FinishReturned
<1>1. UNCHANGED <<switch, tpc, healthy>>
  BY DEF switchVars
<1>2. \A v \in Workers : v # w => wpc'[v] = wpc[v]
  BY DEF IInv, OpIInv, OpTypeOK
<1> QED
  BY <1>1, <1>2 DEF Settled

(* In a blackout an operation stays clear of the query and its success.    *)
LEMMA BlackoutStep ==
  ASSUME IInv, NEW w \in Workers, Begin(w) \/ OperationStep(w), Blackout
  PROVE  Blackout' /\ dbUp' \in {0, dbUp}
<1> USE DEF OperationStep, Begin, CheckEnabled, PickMode, Delay, RaiseSimulated,
        QuerySucceeds, QueryFails, CountFailed, CountError, FinishFailed,
        CountReturned, FinishReturned
<1>1. wpc'[w] \notin {"query", "returned", "observed"}
  BY DEF Blackout, IInv, OpIInv, OpTypeOK
<1>2. dbUp' \in {0, dbUp}
  BY DEF Blackout
<1> QED
  BY <1>1, <1>2, WorkerFrame DEF Blackout

(* In the clear an operation stays clear of every failure.                 *)
LEMMA ClearStep ==
  ASSUME IInv, NEW w \in Workers, Begin(w) \/ OperationStep(w), AllClear
  PROVE  AllClear' /\ dbUp' \in {1, dbUp}
<1> USE DEF OperationStep, Begin, CheckEnabled, PickMode, Delay, RaiseSimulated,
        QuerySucceeds, QueryFails, CountFailed, CountError, FinishFailed,
        CountReturned, FinishReturned
<1>1. wpc'[w] \notin {"armed", "delay", "raise", "failed", "counted",
                      "classified"}
  BY DEF AllClear, IInv, OpIInv, OpTypeOK
<1>2. dbUp' \in {1, dbUp}
  BY DEF AllClear
<1> QED
  BY <1>1, <1>2, WorkerFrame DEF AllClear

(* Both phases end with the acceptance of a toggle, and only a clear one   *)
(* with the database.                                                      *)
LEMMA ToggleEndsPhase ==
  ASSUME IInv, Settled, NEW t \in Togglers, AcceptToggle(t) \/ OtherToggle(t)
  PROVE  /\ dbUp' = dbUp
         /\ ~Settled' \/ (Blackout' = Blackout /\ AllClear' = AllClear)
<1>1. CASE AcceptToggle(t)
  <2>1. tpc'[t] = "enabled"
    BY <1>1 DEF AcceptToggle, Accept, IInv, SwitchIInv, SwitchTypeOK
  <2> QED
    BY <1>1, <2>1 DEF AcceptToggle, Settled, Active
<1>2. CASE OtherToggle(t)
  <2>1. Reject(t)
    BY <1>2, ToggleStepFrame DEF OtherToggle, IInv, Settled
  <2> QED
    BY <1>2, <2>1 DEF OtherToggle, opVars, Reject, Blackout, AllClear, Settled
<1> QED
  BY <1>1, <1>2

THEOREM HealthImplemented == Spec => HealthRefined
<1>1. Spec => []IInv
  BY InitInv, NextInv, PTL DEF Spec
<1>2. Init => Health!HealthInit
  BY DEF Init, Health!HealthInit, Health!Phases, Phase
<1>3. IInv /\ IInv' /\ [Next]_vars => [Health!HealthNext]_<<Phase, dbUp>>
  <2>1. SUFFICES ASSUME IInv, IInv', [Next]_vars
                 PROVE  [Health!HealthNext]_<<Phase, dbUp>>
    OBVIOUS
  <2> USE DEF Health!HealthNext, Health!Blur, Health!Fall, Health!Rise,
          Health!Mixed, Health!Phases
  <2>2. /\ Blackout => ~AllClear
        /\ Blackout' => ~AllClear'
        /\ ~Settled' => ~Blackout' /\ ~AllClear'
    BY DEF Blackout, AllClear
  <2>3. dbUp \in {0, 1} /\ dbUp' \in {0, 1}
    BY <2>1 DEF IInv, OpIInv, OpTypeOK
  <2>4. CASE UNCHANGED vars
    BY <2>4 DEF vars, switchVars, opVars, Phase, Blackout, AllClear, Settled
  <2>5. CASE ~Blackout /\ ~AllClear
    BY <2>3, <2>5 DEF Phase
  <2>6. ASSUME NEW w \in Workers, Begin(w) \/ OperationStep(w)
        PROVE  [Health!HealthNext]_<<Phase, dbUp>>
    BY <2>1, <2>2, <2>3, <2>5, <2>6, BlackoutStep, ClearStep DEF Phase
  <2>7. ASSUME NEW t \in Togglers, AcceptToggle(t) \/ OtherToggle(t)
        PROVE  [Health!HealthNext]_<<Phase, dbUp>>
    <3>1. CASE Settled
      BY <2>1, <2>2, <2>3, <2>5, <2>7, <3>1, ToggleEndsPhase DEF Phase
    <3>2. CASE ~Settled
      BY <2>5, <3>2 DEF Blackout, AllClear
    <3> QED
      BY <3>1, <3>2
  <2>8. CASE DatabaseChanges
    <3>1. /\ dbUp' = dbUp /\ Blackout' = Blackout
          /\ AllClear => ~AllClear'
      BY <2>1, <2>8
         DEF DatabaseChanges, switchVars, Blackout, AllClear, Settled
    <3> QED
      BY <2>2, <2>3, <2>5, <3>1 DEF Phase
  <2> QED
    BY <2>1, <2>4, <2>6, <2>7, <2>8 DEF Next
<1> QED
  BY <1>1, <1>2, <1>3, PTL DEF Spec, HealthRefined, Health!HealthSpec
=============================================================================
