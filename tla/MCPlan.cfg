CONSTANTS
  Orders = {0, 1, 2, 55}
  Roles = {{}, {"proxmox", "kubelet"}, {"proxmox", "ceph-osd", "kubelet"}}
  GroupSets = {"none", "partial", "two", "overlap"}
  Hosts <- MCHosts
  GuestIds = {"a", "b", "c", "off"}
SPECIFICATION Spec
INVARIANTS
  EveryRunningGuestStopsOnce
  DependenciesStopInOrder
  WavesAreBounded
  CutThenHaltEndsThePlan
  HoldsWaitForEarlierGroups
  PlansHaveTheirShape
  WorstCaseIsTheSlowestPath
CHECK_DEADLOCK FALSE
