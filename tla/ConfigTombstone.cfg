CONSTANTS
  Machine = {"maps"}
  p1 = p1
  c1 = c1
  Pod = {p1, p2}
  Node = {n1, n2}
  Claim = {c1}
  PodClaims <- MCPodClaims
  AffinityPods <- MCAffinityPods
  Pods <- MCPods
  Quantity = {1, 3}
  Absent = Absent
  MaxResizes = 2
  None = None
  Bad = Bad
  Replica = {a, b}
  conflictAttempts = 5
  Lifetime = 6
  Stagger = 3
  Cutoff = 2
  RenewLead = 1
  MaxMonth = 7
  MaxFaults = 1
  Unseen = Unseen
  g = g
  h = h
  Content <- MCContent
  Group = {g, h}
  DefaultPolicyGroup = g
  YamlKey <- MCYamlKey
  MaxMapChanges = 2
  u = u
  d = d
  k = k
  User = {u, d, k}
  Controller = k
  AmConf <- MCAmConf
  NsFlags <- MCNsFlags
  Class = {FALSE, None}
  Submission <- MCSubmission
  MaxWorldChanges = 1
  MaxReplicaSets = 2
SPECIFICATION MCSpec
PROPERTY DeletionRefreshes
