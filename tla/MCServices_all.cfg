SPECIFICATION Spec
CONSTANTS
  Hooks = {h1, h2}
  StartType <- OneRegistered
  Types = {"PAYMENT", "REFUND_OUT"}
  Edits = {e1, e2}
  Batches = {b1, b2}
  Event <- PaymentEvents
  Drainers = {d1}
  BatchMax = 1
  MaxListErrors = 1
  MaxDrainDeaths = 1
  NoHookId = NoHookId
  Users = {u1, u2}
  Founders = {u1}
  Calls = {c1, c2, c3, c4}
  Invitations = {i1}
  NoUser = NoUser
  NoInvitation = NoInvitation
  SessionCalls = {s1, s2, s3}
  ResetTokens = {r1}
  MaxSecond = 2
  MaxCuts = 1
  NoReset = NoReset
  ApiKeyIds = {k1, k2, k3, k4}
  StartKeys = {k1}
  KeyCalls = {q1, q2, q3}
  KeyMax = 2
  MaxKeyCuts = 1
  NoKey = NoKey
  Clients = {l1, l2}
  Currencies = {"BRL", "USD"}
  MaxBroken = 1
  NoClient = NoClient
  Posts = {p1, p2}
  ExternalIds = {x1}
  Emails = {m1}
  Offers <- FourOffers
  MaxIntakeCuts = 1
  NoExternal = NoExternal
  Disputes = {f1}
  Notices = {n1, n2, n3}
  PaymentOf <- OnePayment
  Words = {"AWAITING_CUSTOMER_RESPONSE", "CLOSED", "CANCELLED", "NEW"}
  Batchers = {w1, w2}
  Receivers = {v1, v2, v3}
  Registered <- BankAccount
  Forms <- ThreeForms
  ReceiverDeeds = {t1, t2, t3}
  Payouts = {y1, y2}
  PayoutIds = {z1}
  PayoutTypes = {"PIX", "CRIPTO_WALLET"}
  CashOut <- CashOutOnly
  NoReceiver = NoReceiver
  NoForm = NoForm
  NoPayoutId = NoPayoutId
  Uploads = {a1, a2}
  MaxMishaps = 2
  NoUpload = NoUpload
INVARIANTS
  TypeOK ChecksHoldUnlessRaced LostOnlyByOverwriting OwnerRemains UsedByWhomItWasGiven
  SessionsEnd ChargesAreKnown AcknowledgedIsQueued ReserveIsHeld PaidToAccepted
PROPERTIES
  DisputesEnd
CHECK_DEADLOCK FALSE
