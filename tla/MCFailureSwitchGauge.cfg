SPECIFICATION SwitchSpec
CONSTANTS
  Togglers = {t1, t2}
  Modes <- MCModes
  NoMode = NoMode
  BadMode = BadMode
  Controls = TRUE
SYMMETRY TogglerSymmetry
INVARIANTS
  GaugeShowsSwitch
