SPECIFICATION Spec
CONSTANTS
  Radix = 16
  MaxPayload = 2
  ProtoHead <- MCHead
  Channel = {0}
  Lbl = {l1}
  Sdi = {0, 1}
  MaxLabels = 1
  Peer = {p1, p2}
  RxSize = 16
  Items <- MCItems
  Datagrams <- MCDatagrams
  MaxUnread = 5
INVARIANTS TypeOK TablesAgree AnswerTellsTruth
PROPERTIES CutsDoNotMatter DatagramsOnlyLatch
SYMMETRY PeerSymmetry
