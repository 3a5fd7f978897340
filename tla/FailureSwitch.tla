--------------------------- MODULE FailureSwitch ---------------------------
(***************************************************************************)
(* The runtime database-failure switch of app/database.py and the endpoint *)
(* POST /api/test/db-failure that writes it.                               *)
(*                                                                         *)
(* toggle_db_failure is a plain `def`, so every request runs it in its own *)
(* thread of the server's pool.  set_db_failure writes the shared record   *)
(* field by field and then the Prometheus gauge, with no lock: each write  *)
(* is one step here, and so is each read of the shared record that builds  *)
(* the response.                                                           *)
(***************************************************************************)
EXTENDS Naturals

CONSTANTS
  Togglers,   \* threads that serve POST /api/test/db-failure
  Modes,      \* the valid failure modes
  NoMode,     \* the query parameter `mode` left out (None)
  BadMode,    \* any string that is not a valid mode
  Controls    \* settings.enable_test_controls

ASSUME SwitchAssumption ==
  /\ Modes # {}
  /\ NoMode \notin Modes
  /\ BadMode \notin Modes
  /\ NoMode # BadMode
  /\ Controls \in BOOLEAN

VARIABLES
  switch,     \* _failure_state, the one record all threads share
  gauge,      \* app_db_failure_simulation_active
  tpc,        \* where each toggling thread is
  req,        \* the query parameters of its request
  reply,      \* the response it builds
  asked       \* history: the accepted requests of the current overlapping group

switchVars == <<switch, gauge, tpc, req, reply, asked>>

Requests == [enable : BOOLEAN, mode : Modes \cup {NoMode, BadMode}]
Replies == [status : {0, 200, 400, 403}, enabled : BOOLEAN,
            mode : Modes \cup {NoMode}]

Reply(code) == [status |-> code, enabled |-> FALSE, mode |-> NoMode]
NoReply == Reply(0)

GaugeValue(on) == IF on THEN 1 ELSE 0

\* The places between the accesses of the handler to shared state.
Active == {"enabled", "mode", "gauge", "readEnabled", "readMode"}

\* No toggle is being served.
Settled == \A t \in Togglers : tpc[t] \notin Active

SwitchTypeOK ==
  /\ switch \in [enabled : BOOLEAN, mode : Modes]
  /\ gauge \in {0, 1}
  /\ tpc \in [Togglers -> Active \cup {"idle"}]
  /\ req \in [Togglers -> Requests]
  /\ reply \in [Togglers -> Replies]
  /\ asked \subseteq Requests

-----------------------------------------------------------------------------
\* init_failure_state: the settings decide, whatever they are.
SwitchInit ==
  /\ \E on \in BOOLEAN, m \in Modes :
       /\ switch = [enabled |-> on, mode |-> m]
       /\ gauge = GaugeValue(on)
       /\ asked = {[enable |-> on, mode |-> m]}
  /\ tpc = [t \in Togglers |-> "idle"]
  /\ req = [t \in Togglers |-> [enable |-> FALSE, mode |-> NoMode]]
  /\ reply = [t \in Togglers |-> NoReply]

\* The 403 and 400 early returns of toggle_db_failure: no shared access.
Reject(t) ==
  /\ tpc[t] = "idle"
  /\ \E r \in Requests :
       /\ ~Controls \/ r.mode = BadMode
       /\ req' = [req EXCEPT ![t] = r]
       /\ reply' = [reply EXCEPT ![t] = Reply(IF Controls THEN 400 ELSE 403)]
  /\ UNCHANGED <<switch, gauge, tpc, asked>>

\* A request that passes both checks enters set_db_failure.
Accept(t) ==
  /\ tpc[t] = "idle"
  /\ Controls
  /\ \E r \in Requests :
       /\ r.mode # BadMode
       /\ req' = [req EXCEPT ![t] = r]
       /\ asked' = IF Settled THEN {r} ELSE asked \cup {r}
  /\ reply' = [reply EXCEPT ![t] = NoReply]
  /\ tpc' = [tpc EXCEPT ![t] = "enabled"]
  /\ UNCHANGED <<switch, gauge>>

\* _failure_state.enabled = enabled
WriteEnabled(t) ==
  /\ tpc[t] = "enabled"
  /\ switch' = [switch EXCEPT !.enabled = req[t].enable]
  /\ tpc' = [tpc EXCEPT ![t] = "mode"]
  /\ UNCHANGED <<gauge, req, reply, asked>>

\* if mode: _failure_state.mode = mode
BugWriteMode(t) ==   \* mutant: the test of `mode` is dropped
  /\ tpc[t] = "mode"
  /\ switch' = [switch EXCEPT !.mode = req[t].mode]
  /\ tpc' = [tpc EXCEPT ![t] = "gauge"]
  /\ UNCHANGED <<gauge, req, reply, asked>>

BugWriteModeArmed(t) ==   \* mutant: the mode is stored only when arming
  /\ tpc[t] = "mode"
  /\ switch' = IF req[t].mode = NoMode \/ ~req[t].enable THEN switch
               ELSE [switch EXCEPT !.mode = req[t].mode]
  /\ tpc' = [tpc EXCEPT ![t] = "gauge"]
  /\ UNCHANGED <<gauge, req, reply, asked>>

WriteMode(t) ==
  /\ tpc[t] = "mode"
  /\ switch' = IF req[t].mode = NoMode THEN switch
               ELSE [switch EXCEPT !.mode = req[t].mode]
  /\ tpc' = [tpc EXCEPT ![t] = "gauge"]
  /\ UNCHANGED <<gauge, req, reply, asked>>

\* app_db_failure_simulation_active.set(1 if enabled else 0): the parameter,
\* not the record, which another thread may have written meanwhile.
BugSetGauge(t) ==    \* mutant: the gauge is only ever raised
  /\ tpc[t] = "gauge"
  /\ gauge' = IF req[t].enable THEN 1 ELSE gauge
  /\ tpc' = [tpc EXCEPT ![t] = "readEnabled"]
  /\ UNCHANGED <<switch, req, reply, asked>>

SetGauge(t) ==
  /\ tpc[t] = "gauge"
  /\ gauge' = GaugeValue(req[t].enable)
  /\ tpc' = [tpc EXCEPT ![t] = "readEnabled"]
  /\ UNCHANGED <<switch, req, reply, asked>>

\* "enabled": state.enabled, in the response
ReadEnabled(t) ==
  /\ tpc[t] = "readEnabled"
  /\ reply' = [reply EXCEPT ![t].enabled = switch.enabled]
  /\ tpc' = [tpc EXCEPT ![t] = "readMode"]
  /\ UNCHANGED <<switch, gauge, req, asked>>

\* "mode": state.mode, and the response is returned
ReadMode(t) ==
  /\ tpc[t] = "readMode"
  /\ reply' = [reply EXCEPT ![t].mode = switch.mode, ![t].status = 200]
  /\ tpc' = [tpc EXCEPT ![t] = "idle"]
  /\ UNCHANGED <<switch, gauge, req, asked>>

\* What one toggling thread may do once its request is accepted.
ToggleStep(t) ==
  \/ WriteEnabled(t)
  \/ WriteMode(t)
  \/ SetGauge(t)
  \/ ReadEnabled(t)
  \/ ReadMode(t)

SwitchNext == \E t \in Togglers : Reject(t) \/ Accept(t) \/ ToggleStep(t)

SwitchSpec == SwitchInit /\ [][SwitchNext]_switchVars

-----------------------------------------------------------------------------
AskedEnables == {r.enable : r \in asked}
AskedModes == {r.mode : r \in asked} \ {NoMode}

(***************************************************************************)
(* However the writes of overlapping toggles interleave, the switch and    *)
(* the gauge settle each on something that a toggle of that group asked    *)
(* for: no earlier state comes back, and toggles that all ask the same     *)
(* leave the gauge equal to the switch.  Nothing more is promised: flag,   *)
(* mode and gauge may come from three different toggles, and all that one  *)
(* of them wrote may be overwritten.  (set_db_failure, three unlocked      *)
(* writes.)                                                                *)
(***************************************************************************)
SettlesOnAsked ==
  Settled =>
    /\ switch.enabled \in AskedEnables
    /\ \E on \in AskedEnables : gauge = GaugeValue(on)
    /\ AskedModes # {} => switch.mode \in AskedModes

\* No toggle of the group that names a mode has come to its write of it.
ModeUnwritten ==
  \A r \in asked : r.mode # NoMode =>
    \E t \in Togglers : req[t] = r /\ tpc[t] \in {"enabled", "mode"}

(***************************************************************************)
(* The response re-reads the shared record after the writes, field by      *)
(* field, so it can report another caller's toggle.  When it is returned,  *)
(* the flag in it was asked for by some toggle of the overlapping group,   *)
(* and so was the mode if this request named one; a toggle that named none *)
(* reports the mode of before the group only while every toggle that does  *)
(* name one has still to write it.  That flag and mode belong together is  *)
(* not promised.  (toggle_db_failure, the reads that build the response.)  *)
(***************************************************************************)
EchoesAsked ==
  [][\A t \in Togglers :
       reply[t].status # 200 /\ reply'[t].status = 200 =>
         /\ reply'[t].enabled \in AskedEnables
         /\ req[t].mode # NoMode => reply'[t].mode \in AskedModes
         /\ reply'[t].mode \in AskedModes \/ ModeUnwritten
    ]_switchVars

(***************************************************************************)
(* What app/metrics.py says of app_db_failure_simulation_active: "Whether  *)
(* database-failure simulation is currently enabled (1 = enabled)."  It is *)
(* required here only while no toggle is being served.                     *)
(***************************************************************************)
GaugeShowsSwitch == Settled => gauge = GaugeValue(switch.enabled)
=============================================================================
