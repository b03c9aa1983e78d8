SPECIFICATION Spec
CONSTANTS
  i0 = i0
  s1 = s1
  s2 = s2
  Sessions = {s1, s2}
  Images = {i0}
  Factory = i0
  PartOrder <- PartsKernelRootfs
  EnvFails = {"active_bank", "update_chk"}
INVARIANT TypeOK
INVARIANT OneBankBootable
INVARIANT SessionsSpareRunningBank
PROPERTY RunningBankUntouched
PROPERTY ImplementsSlots
PROPERTY SwitchOnlyToWritten
PROPERTY KernelSizeBeforeSwitch
