--------------------------- MODULE WorkspaceProofs ---------------------------
(***************************************************************************)
(* What holds of one workspace for any set of requests, users, replicas,   *)
(* and any bounds: its usage mails, its subscription, its seats and        *)
(* admins, and the rate limit of its ingest.                               *)
(***************************************************************************)
EXTENDS QuotaMail, Subscription, Members, IngestGate, FiniteSetTheorems, TLAPS

-----------------------------------------------------------------------------
(* The usage mails. As long as runs did not overlap and no stamp was lost, *)
(* the run under way has read the stamps as they are, a mail that went out *)
(* is stamped or about to be, and the notice is stamped with the warning.  *)
Ticks == [pc : {"idle", "decide"} \cup Kind, used : Nat, stamp : SUBSET Kind]

MailType ==
    /\ used \in Nat /\ stamp \subseteq Kind
    /\ tick \in [BillingRun -> Ticks]
    /\ mails \in [Kind -> Nat]

MailInv ==
    /\ MailType
    /\ ~unsafe =>
         /\ \A q, r \in BillingRun : tick[q].pc # "idle" /\ tick[r].pc # "idle" => q = r
         /\ \A r \in BillingRun : tick[r].pc # "idle" => tick[r].stamp = stamp
         /\ \A k \in Kind :
              /\ mails[k] <= 1
              /\ mails[k] = 1 => k \in stamp \/ \E r \in BillingRun : tick[r].pc = k
         /\ "blocked" \in stamp => "warning" \in stamp
         /\ ~late

LEMMA MailInvInit == MailInit => MailInv
  BY DEF MailInit, MailInv, MailType, Ticks, NoTick, Kind

LEMMA MailInvNext == MailInv /\ [MailNext]_mailVars => MailInv'
<1> SUFFICES ASSUME MailInv, [MailNext]_mailVars PROVE MailInv'
    OBVIOUS
<1> USE QuotaMailAssumption DEF MailInv, MailType, Ticks, NoTick, Kind
<1>1. CASE Use
  BY <1>1 DEF Use
<1>2. ASSUME NEW r \in BillingRun, BeginTick(r) PROVE MailInv'
  BY <1>2 DEF BeginTick
<1>3. ASSUME NEW r \in BillingRun, NoMail(r) PROVE MailInv'
  BY <1>3 DEF NoMail
<1>4. ASSUME NEW r \in BillingRun, NEW kind \in Kind, Mail(r, kind) PROVE MailInv'
  <2>1. kind \notin tick[r].stamp
    BY <1>4 DEF Mail, Decision
  <2>2. CASE unsafe
    BY <1>4, <2>2 DEF Mail
  <2>3. CASE ~unsafe
    <3>1. kind \notin stamp /\ mails[kind] = 0
      <4>1. tick[r].pc = "decide" /\ tick[r].stamp = stamp
        BY <1>4, <2>3 DEF Mail
      <4>2. \A q \in BillingRun : tick[q].pc # kind
        BY <2>3, <4>1
      <4>3. mails[kind] \in Nat /\ mails[kind] <= 1 /\ mails[kind] # 1
        BY <2>1, <2>3, <4>1, <4>2
      <4> QED  BY <2>1, <4>1, <4>3
    <3>2. ~late'
      <4>1. ~(late \/ (kind = "warning" /\ "blocked" \in stamp))
        BY <2>3, <3>1
      <4>2. late' = (late \/ (kind = "warning" /\ "blocked" \in stamp))
        BY <1>4 DEF Mail
      <4> QED  BY <4>1, <4>2, Zenon
    <3>3. /\ MailType' /\ UNCHANGED <<stamp, unsafe>> /\ tick[r].pc = "decide"
          /\ mails' = [mails EXCEPT ![kind] = 1]
          /\ tick'[r].pc = kind /\ tick'[r].stamp = tick[r].stamp
          /\ \A q \in BillingRun \ {r} : tick'[q] = tick[q]
      BY <1>4, <3>1 DEF Mail
    <3> QED  BY <2>3, <3>1, <3>2, <3>3
  <2> QED  BY <2>2, <2>3
<1>5. ASSUME NEW r \in BillingRun, Stamp(r) PROVE MailInv'
  BY <1>5 DEF Stamp, StampsOf
<1>6. ASSUME NEW r \in BillingRun, StampLost(r) PROVE MailInv'
  BY <1>6 DEF StampLost
<1>7. CASE UNCHANGED mailVars
  BY <1>7 DEF mailVars
<1> QED  BY <1>1, <1>2, <1>3, <1>4, <1>5, <1>6, <1>7 DEF MailNext

(* Each usage mail goes out at most once, and no warning after a notice,   *)
(* for any cap and any runs, unless runs overlap or a stamp is lost.       *)
THEOREM MailedOnce == MailSpec => []MailsOnce
<1>1. MailInv => MailsOnce
  BY DEF MailInv, MailsOnce
<1> QED  BY <1>1, MailInvInit, MailInvNext, PTL DEF MailSpec

-----------------------------------------------------------------------------
(* The rate limit. What the windows that replicas opened may still let     *)
(* through is the room in them; the requests that passed in a window of    *)
(* Redis and the room there is are covered by its counter and the limit    *)
(* once for each window of a replica.                                      *)
Used(s, t) == count[s][<<t, Ws>>]

Opened(t) == {r \in Replica : Used(r, t) > 0}

Room(t) ==
    {p \in Replica \X (1 .. Limit) : 0 < Used(p[1], t) /\ Used(p[1], t) < p[2]}

GateType ==
    /\ tier \in Tier /\ redisUp \in BOOLEAN
    /\ count \in [Store -> [Key -> 0 .. Limit]]
    /\ call \in [Call -> [pc : {"idle", "limit"}, at : Store, apiKey : ApiKey \cup {Ws},
                          tier : Tier \cup {Redis}]]
    /\ \A c \in Call : call[c].pc = "limit" => call[c].at \in Replica /\ call[c].tier \in Tier
    /\ passed \in [Tier -> Nat] /\ extra \in [Tier -> Nat]

Covered(t) == passed[t] + Cardinality(Room(t)) <= Used(Redis, t) + Limit * extra[t]

GateInv == GateType /\ \A t \in Tier : Covered(t)

LEMMA KeyOfTier == \A t \in Tier : <<t, Ws>> \in Key
  BY DEF Key

LEMMA UsedType ==
    ASSUME GateType, NEW t \in Tier
    PROVE  Used(Redis, t) \in 0 .. Limit /\ \A r \in Replica : Used(r, t) \in 0 .. Limit
  BY KeyOfTier DEF GateType, Used, Store

LEMMA Times == ASSUME NEW n \in Nat PROVE Limit * (n + 1) = Limit * n + Limit /\ Limit * n \in Nat
  BY GateAssumption

LEMMA RoomFinite ==
    ASSUME NEW t
    PROVE  IsFiniteSet(Room(t)) /\ Cardinality(Room(t)) \in Nat
<1>1. IsFiniteSet(1 .. Limit)
  BY GateAssumption, FS_Interval
<1>2. IsFiniteSet(Replica \X (1 .. Limit))
  BY <1>1, GateAssumption, FS_Product
<1>3. Room(t) \in SUBSET (Replica \X (1 .. Limit))
  BY DEF Room
<1>4. IsFiniteSet(Room(t))
  BY <1>2, <1>3, FS_Subset
<1> QED  BY <1>4, FS_CardinalityType

(* In each open window there is room for less than the limit. *)
LEMMA RoomBound ==
    ASSUME NEW t, NEW R, Opened(t) \subseteq R, R \subseteq Replica
    PROVE  Cardinality(R) \in Nat /\ Cardinality(Room(t)) <= Limit * Cardinality(R)
<1>1. IsFiniteSet(1 .. Limit) /\ Cardinality(1 .. Limit) = Limit
  BY GateAssumption, FS_Interval
<1>2. IsFiniteSet(R) /\ Cardinality(R) \in Nat
  BY GateAssumption, FS_Subset, FS_CardinalityType
<1>3. /\ IsFiniteSet(R \X (1 .. Limit))
      /\ Cardinality(R \X (1 .. Limit)) = Cardinality(R) * Limit
  BY <1>1, <1>2, FS_Product
<1>4. Room(t) \in SUBSET (R \X (1 .. Limit))
  BY DEF Room, Opened
<1>5. Cardinality(Room(t)) <= Cardinality(R) * Limit
  BY <1>3, <1>4, FS_Subset
<1> QED  BY <1>2, <1>5, GateAssumption

LEMMA GateInvInit == GateInit => GateInv
<1> SUFFICES ASSUME GateInit PROVE GateInv
    OBVIOUS
<1>1. GateType
  BY GateAssumption DEF GateInit, GateType, NoCall, Store
<1>2. ASSUME NEW t \in Tier PROVE Covered(t)
  <2>1. Used(Redis, t) = 0 /\ \A r \in Replica : Used(r, t) = 0
    BY KeyOfTier DEF GateInit, Used, Store
  <2>2. Room(t) = {}
    BY <2>1 DEF Room
  <2>3. passed[t] = 0 /\ extra[t] = 0
    BY DEF GateInit
  <2> QED  BY <2>1, <2>2, <2>3, FS_EmptySet, GateAssumption DEF Covered
<1> QED  BY <1>1, <1>2 DEF GateInv

(* A tier whose counters stay is covered as before. *)
LEMMA CoveredKept ==
    ASSUME NEW t \in Tier, Covered(t), passed'[t] = passed[t], extra'[t] = extra[t],
           Used(Redis, t)' = Used(Redis, t), \A r \in Replica : Used(r, t)' = Used(r, t)
    PROVE  Covered(t)'
<1>1. Room(t)' = Room(t)
  BY DEF Room
<1> QED  BY <1>1 DEF Covered

LEMMA PassType ==
    ASSUME GateType, NEW c \in Call, Pass(c)
    PROVE  GateType'
<1> DEFINE q == call[c]
           s == StoreOf(q)
           k == <<q.tier, Ws>>
<1>1. q.tier \in Tier /\ q.at \in Replica /\ k \in Key /\ s \in Store
  BY KeyOfTier DEF Pass, GateType, StoreOf, Store
<1>2. count[s][k] + 1 \in 0 .. Limit
  BY <1>1, GateAssumption DEF Pass, Hits, KeyIngest, GateType
<1>3. count' = [count EXCEPT ![s][k] = @ + 1]
  BY DEF Pass, KeyIngest
<1>4. count' \in [Store -> [Key -> 0 .. Limit]]
  <2> HIDE DEF s, k
  <2> QED  BY <1>1, <1>2, <1>3 DEF GateType
<1>5. passed' \in [Tier -> Nat] /\ extra' \in [Tier -> Nat]
  <2>1. /\ passed' = [passed EXCEPT ![q.tier] = @ + 1]
        /\ extra' = extra \/ extra' = [extra EXCEPT ![q.tier] = @ + 1]
    BY DEF Pass, GateType
  <2> HIDE DEF q
  <2> QED  BY <1>1, <2>1 DEF GateType
<1>6. UNCHANGED <<tier, redisUp>> /\ call' = [call EXCEPT ![c] = NoCall]
  BY DEF Pass, Answered
<1> QED  BY <1>4, <1>5, <1>6 DEF GateType, NoCall, Store

(* A request that passes takes room, or opens a window and adds to extra. *)
LEMMA PassCovered ==
    ASSUME GateInv, NEW c \in Call, Pass(c), NEW t \in Tier
    PROVE  Covered(t)'
<1> PICK q : q = call[c]
  OBVIOUS
<1> PICK s : s = StoreOf(q)
  OBVIOUS
<1> PICK n : n = Used(s, q.tier)
  OBVIOUS
<1> DEFINE k == <<q.tier, Ws>>
<1>1. q.tier \in Tier /\ q.at \in Replica /\ k \in Key /\ s \in Store
  BY KeyOfTier DEF Pass, GateInv, GateType, StoreOf, Store
<1>2. count' = [count EXCEPT ![s][k] = @ + 1]
  BY DEF Pass, KeyIngest
<1>3. \A u \in Store, v \in Tier :
        Used(u, v)' = IF u = s /\ v = q.tier THEN n + 1 ELSE Used(u, v)
  <2>1. \A v \in Tier : <<v, Ws>> = k <=> v = q.tier
    OBVIOUS
  <2> HIDE DEF k
  <2>2. \A u \in Store : \A l \in Key :
          count'[u][l] = IF u = s /\ l = k THEN count[s][k] + 1 ELSE count[u][l]
    BY <1>1, <1>2 DEF GateInv, GateType
  <2>3. n = count[s][k]
    BY DEF Used, k
  <2> QED  BY <2>1, <2>2, <2>3, KeyOfTier DEF Used
<1>4. n \in Nat /\ n < Limit
  <2>1. n = Hits(q)
    BY DEF Hits, KeyIngest, Used
  <2>2. Hits(q) < Limit
    BY DEF Pass
  <2>3. n \in 0 .. Limit
    BY <1>1, UsedType DEF GateInv, Store
  <2> QED  BY <2>1, <2>2, <2>3, GateAssumption
<1>5. /\ passed' = [passed EXCEPT ![q.tier] = @ + 1]
      /\ extra' = [extra EXCEPT ![q.tier] = IF s # Redis /\ n = 0 THEN @ + 1 ELSE @]
  BY DEF Pass, Hits, KeyIngest, Used
<1>6. passed[t] \in Nat /\ extra[t] \in Nat /\ Used(Redis, t) \in Nat /\ Covered(t)
  BY UsedType, GateAssumption DEF GateInv, GateType
<1>7. Redis \in Store /\ Redis \notin Replica /\ Replica \subseteq Store /\ Limit \in Nat \ {0}
  BY GateAssumption DEF Store
<1>8. Limit * (extra[t] + 1) = Limit * extra[t] + Limit /\ Limit * extra[t] \in Nat
  BY <1>6, Times
<1>9. IsFiniteSet(Room(t)) /\ Cardinality(Room(t)) \in Nat
  BY RoomFinite
<1>10. q.tier \in Tier /\ passed \in [Tier -> Nat] /\ extra \in [Tier -> Nat]
  BY <1>1 DEF GateInv, GateType
<1> HIDE DEF k
<1>11. CASE t # q.tier
  <2>1. passed'[t] = passed[t] /\ extra'[t] = extra[t]
    BY <1>5, <1>10, <1>11
  <2>2. Used(Redis, t)' = Used(Redis, t) /\ \A r \in Replica : Used(r, t)' = Used(r, t)
    BY <1>3, <1>7, <1>11
  <2> QED  BY <1>6, <2>1, <2>2, CoveredKept
<1>12. CASE t = q.tier /\ s = Redis
  <2>1. passed'[t] = passed[t] + 1 /\ extra'[t] = extra[t]
    BY <1>5, <1>10, <1>12
  <2>2. /\ Used(Redis, t)' = Used(Redis, t) + 1
        /\ \A r \in Replica : Used(r, t)' = Used(r, t)
    BY <1>3, <1>7, <1>12 
  <2>3. Room(t)' = Room(t)
    BY <2>2 DEF Room
  <2> QED  BY <1>6, <1>8, <1>9, <2>1, <2>2, <2>3 DEF Covered
<1>13. CASE t = q.tier /\ s # Redis /\ n > 0
  <2>1. passed'[t] = passed[t] + 1 /\ extra'[t] = extra[t]
    BY <1>4, <1>5, <1>10, <1>13
  <2>2. /\ Used(Redis, t)' = Used(Redis, t) /\ s \in Replica
        /\ Used(s, t) = n /\ Used(s, t)' = n + 1
        /\ \A r \in Replica \ {s} : Used(r, t)' = Used(r, t)
    BY <1>1, <1>3, <1>7, <1>13 DEF Store
  <2>3. <<s, n + 1>> \in Room(t)
    BY <1>4, <1>7, <1>13, <2>2 DEF Room
  <2>4. Room(t)' = Room(t) \ {<<s, n + 1>>}
    <3>1. ASSUME NEW p \in Replica \X (1 .. Limit)
          PROVE  p \in Room(t)' <=> p \in Room(t) /\ p # <<s, n + 1>>
      <4>1. CASE p[1] # s
        BY <2>2, <4>1 DEF Room
      <4>2. CASE p[1] = s
        <5>1. p[2] \in Nat /\ (p = <<s, n + 1>> <=> p[2] = n + 1)
          BY <1>7, <4>2
        <5>2. p \in Room(t) <=> 0 < n /\ n < p[2]
          BY <2>2, <4>2 DEF Room
        <5>3. p \in Room(t)' <=> 0 < n + 1 /\ n + 1 < p[2]
          BY <2>2, <4>2 DEF Room
        <5> QED  BY <1>4, <1>13, <5>1, <5>2, <5>3
      <4> QED  BY <4>1, <4>2
    <3> QED  BY <3>1 DEF Room
  <2>5. Cardinality(Room(t)') = Cardinality(Room(t)) - 1
    <3>1. Cardinality(Room(t) \ {<<s, n + 1>>}) = Cardinality(Room(t)) - 1
      BY <1>9, <2>3, FS_RemoveElement
    <3> QED  BY <2>4, <3>1
  <2> QED  BY <1>6, <1>8, <1>9, <2>1, <2>2, <2>5 DEF Covered
<1>14. CASE t = q.tier /\ s # Redis /\ n = 0
  <2>1. passed'[t] = passed[t] + 1 /\ extra'[t] = extra[t] + 1
    BY <1>5, <1>10, <1>14
  <2>2. /\ Used(Redis, t)' = Used(Redis, t) /\ s \in Replica
        /\ Used(s, t) = 0 /\ Used(s, t)' = 1
        /\ \A r \in Replica \ {s} : Used(r, t)' = Used(r, t)
    BY <1>1, <1>3, <1>4, <1>7, <1>14 DEF Store
  <2> DEFINE new == {s} \X (2 .. Limit)
  <2>3. IsFiniteSet(new) /\ Cardinality(new) = Limit - 1
    <3>1. IsFiniteSet(2 .. Limit) /\ Cardinality(2 .. Limit) = Limit - 1
      BY <1>7, FS_Interval
    <3>2. IsFiniteSet({s}) /\ Cardinality({s}) = 1
      BY FS_Singleton
    <3>3. /\ IsFiniteSet({s} \X (2 .. Limit))
          /\ Cardinality({s} \X (2 .. Limit)) = Cardinality({s}) * Cardinality(2 .. Limit)
      <4> HIDE DEF new
      <4> QED  BY <3>1, <3>2, FS_Product
    <3> QED  BY <1>7, <3>1, <3>2, <3>3
  <2>4. Room(t)' = Room(t) \cup new
    <3>1. ASSUME NEW p \in Replica \X (1 .. Limit)
          PROVE  p \in Room(t)' <=> p \in Room(t) \/ p \in new
      <4>1. CASE p[1] # s
        BY <2>2, <4>1 DEF Room
      <4>2. CASE p[1] = s
        <5>1. p[2] \in 1 .. Limit /\ (p \in new <=> p[2] \in 2 .. Limit)
          BY <4>2
        <5>2. p \notin Room(t)
          BY <2>2, <4>2 DEF Room
        <5>3. p \in Room(t)' <=> 0 < 1 /\ 1 < p[2]
          BY <2>2, <4>2 DEF Room
        <5> QED  BY <1>7, <5>1, <5>2, <5>3
      <4> QED  BY <4>1, <4>2
    <3>2. new \subseteq Replica \X (1 .. Limit)
      BY <1>7, <2>2
    <3> QED  BY <3>1, <3>2 DEF Room
  <2>5. Cardinality(Room(t) \cap new) \in Nat
    BY <2>3, FS_Intersection, FS_CardinalityType
  <2>6. Cardinality(Room(t)') <= Cardinality(Room(t)) + Limit - 1
    <3> HIDE DEF new
    <3>1. Cardinality(Room(t) \cup new)
             = Cardinality(Room(t)) + Cardinality(new) - Cardinality(Room(t) \cap new)
      BY <1>9, <2>3, FS_Union
    <3>2. Cardinality(Room(t)')
             = Cardinality(Room(t)) + (Limit - 1) - Cardinality(Room(t) \cap new)
      BY <2>3, <2>4, <3>1
    <3> QED  BY <1>7, <1>9, <2>5, <3>2
  <2>7. Cardinality(Room(t)') \in Nat
    <3> HIDE DEF new
    <3>1. IsFiniteSet(Room(t)')
      BY <1>9, <2>3, <2>4, FS_Union
    <3> QED  BY <3>1, FS_CardinalityType
  <2> QED  BY <1>6, <1>7, <1>8, <1>9, <2>1, <2>2, <2>6, <2>7 DEF Covered
<1> QED  BY <1>4, <1>11, <1>12, <1>13, <1>14

LEMMA WindowType ==
    ASSUME GateType, NEW s \in Store, NEW t \in Tier, WindowEnds(s, t)
    PROVE  GateType'
<1>1. count' \in [Store -> [Key -> 0 .. Limit]]
  BY GateAssumption DEF WindowEnds, GateType
<1>2. passed' \in [Tier -> Nat] /\ extra' \in [Tier -> Nat]
  <2>1. CASE s = Redis
    <3> DEFINE open == {r \in Replica : \E k \in Key : k[1] = t /\ count[r][k] > 0}
    <3>1. Cardinality(open) \in Nat
      BY GateAssumption, FS_Subset, FS_CardinalityType
    <3>2. passed' = [passed EXCEPT ![t] = 0] /\ extra' = [extra EXCEPT ![t] = Cardinality(open)]
      BY <2>1 DEF WindowEnds
    <3> HIDE DEF open
    <3> QED  BY <3>1, <3>2 DEF GateType
  <2>2. CASE s # Redis
    BY <2>2 DEF WindowEnds, GateType
  <2> QED  BY <2>1, <2>2
<1> QED  BY <1>1, <1>2 DEF GateType, WindowEnds

(* A window that ends takes its room along. *)
LEMMA WindowCovered ==
    ASSUME GateInv, NEW s \in Store, NEW u \in Tier, WindowEnds(s, u), NEW t \in Tier
    PROVE  Covered(t)'
<1>1. \A v \in Tier, x \in Store :
        Used(x, v)' = IF x = s /\ v = u THEN 0 ELSE Used(x, v)
  <2>1. ASSUME NEW v \in Tier, NEW x \in Store
        PROVE  count'[x][<<v, Ws>>] = IF x = s /\ v = u THEN 0 ELSE count[x][<<v, Ws>>]
    <3>1. <<v, Ws>> \in Key
      BY KeyOfTier
    <3>2. <<v, Ws>>[1] = v
      OBVIOUS
    <3> QED  BY <3>1, <3>2 DEF WindowEnds, GateInv, GateType
  <2> QED  BY <2>1 DEF Used
<1>2. passed[t] \in Nat /\ extra[t] \in Nat /\ Used(Redis, t) \in Nat /\ Covered(t)
  BY UsedType, GateAssumption DEF GateInv, GateType
<1>3. /\ Redis \in Store /\ Redis \notin Replica /\ Replica \subseteq Store /\ Limit \in Nat \ {0}
      /\ passed \in [Tier -> Nat] /\ extra \in [Tier -> Nat]
  BY GateAssumption DEF Store, GateInv, GateType
<1>4. CASE t # u
  <2>1. passed'[t] = passed[t] /\ extra'[t] = extra[t]
    BY <1>3, <1>4 DEF WindowEnds
  <2>2. Used(Redis, t)' = Used(Redis, t) /\ \A r \in Replica : Used(r, t)' = Used(r, t)
    BY <1>1, <1>3, <1>4
  <2> QED  BY <1>2, <2>1, <2>2, CoveredKept
<1>5. CASE t = u /\ s # Redis
  <2>1. passed'[t] = passed[t] /\ extra'[t] = extra[t]
    BY <1>5 DEF WindowEnds
  <2>2. /\ Used(Redis, t)' = Used(Redis, t) /\ Used(s, t)' = 0
        /\ \A r \in Replica \ {s} : Used(r, t)' = Used(r, t)
    BY <1>1, <1>3, <1>5
  <2>3. Room(t)' \subseteq Room(t)
    BY <2>2 DEF Room
  <2>4. Cardinality(Room(t)') <= Cardinality(Room(t)) /\ Cardinality(Room(t)') \in Nat
    BY <2>3, RoomFinite, FS_Subset, FS_CardinalityType
  <2>5. Cardinality(Room(t)) \in Nat /\ Limit * extra[t] \in Nat
    BY <1>2, RoomFinite, Times
  <2> QED  BY <1>2, <2>1, <2>2, <2>4, <2>5 DEF Covered
<1>6. CASE t = u /\ s = Redis
  <2> DEFINE open == {r \in Replica : \E k \in Key : k[1] = t /\ count[r][k] > 0}
  <2>1. passed'[t] = 0 /\ extra'[t] = Cardinality(open)
    BY <1>3, <1>6 DEF WindowEnds
  <2>2. Used(Redis, t)' = 0 /\ \A r \in Replica : Used(r, t)' = Used(r, t)
    BY <1>1, <1>3, <1>6
  <2>3. Room(t)' = Room(t)
    BY <2>2 DEF Room
  <2>4. Opened(t) \subseteq open /\ open \subseteq Replica
    <3>1. ASSUME NEW r \in Opened(t) PROVE r \in open
      <4>1. <<t, Ws>> \in Key /\ <<t, Ws>>[1] = t /\ count[r][<<t, Ws>>] > 0 /\ r \in Replica
        BY KeyOfTier DEF Opened, Used
      <4> QED  BY <4>1
    <3> QED  BY <3>1
  <2> HIDE DEF open
  <2>5. Cardinality(open) \in Nat /\ Cardinality(Room(t)) <= Limit * Cardinality(open)
    BY <2>4, RoomBound
  <2>6. Cardinality(Room(t)) \in Nat /\ Limit * Cardinality(open) \in Nat
    BY <2>5, RoomFinite, Times
  <2> QED  BY <2>1, <2>2, <2>3, <2>5, <2>6 DEF Covered
<1> QED  BY <1>4, <1>5, <1>6

LEMMA GateInvNext == GateInv /\ [GateNext]_gateVars => GateInv'
<1> SUFFICES ASSUME GateInv, [GateNext]_gateVars PROVE GateInv'
    OBVIOUS
(* Steps that pass nobody and end no window leave the counters alone. *)
<1>0. ASSUME UNCHANGED <<count, passed, extra>>
      PROVE  \A t \in Tier : Covered(t)'
  BY <1>0 DEF GateInv, Covered, Room, Used
<1>1. ASSUME NEW c \in Call, NEW r \in Replica, NEW k \in ApiKey, Authenticate(c, r, k)
      PROVE  GateInv'
  BY <1>0, <1>1 DEF Authenticate, GateInv, GateType, Store
<1>2. ASSUME NEW c \in Call, Pass(c) PROVE GateInv'
  BY <1>2, PassType, PassCovered DEF GateInv
<1>3. ASSUME NEW c \in Call, Throttled(c) PROVE GateInv'
  BY <1>0, <1>3 DEF Throttled, Answered, NoCall, GateInv, GateType, Store
<1>4. ASSUME NEW s \in Store, NEW t \in Tier, WindowEnds(s, t) PROVE GateInv'
  BY <1>4, WindowType, WindowCovered DEF GateInv
<1>5. CASE RedisFails \/ RedisRecovers
  BY <1>0, <1>5 DEF RedisFails, RedisRecovers, GateInv, GateType
<1>6. CASE PlanChanges
  BY <1>0, <1>6 DEF PlanChanges, GateInv, GateType
<1>7. CASE UNCHANGED gateVars
  BY <1>0, <1>7 DEF gateVars, GateInv, GateType
<1> QED  BY <1>1, <1>2, <1>3, <1>4, <1>5, <1>6, <1>7 DEF GateNext

(* In one window no more requests pass than the limit, once more for each  *)
(* window of a replica, for any replicas, keys, tiers and limit.           *)
THEOREM LimitHolds == GateSpec => []PassedWithinLimit
<1>1. GateInv => PassedWithinLimit
  <2> SUFFICES ASSUME GateInv, NEW t \in Tier
               PROVE  passed[t] <= Limit * (1 + extra[t])
    BY DEF PassedWithinLimit
  <2>1. /\ Cardinality(Room(t)) \in Nat /\ passed[t] \in Nat /\ extra[t] \in Nat
        /\ Used(Redis, t) \in 0 .. Limit
        /\ passed[t] + Cardinality(Room(t)) <= Used(Redis, t) + Limit * extra[t]
    BY RoomFinite, UsedType DEF GateInv, GateType, Covered
  <2>2. Limit * (extra[t] + 1) = Limit * extra[t] + Limit /\ Limit * extra[t] \in Nat
    BY <2>1, Times
  <2>3. 1 + extra[t] = extra[t] + 1
    BY <2>1
  <2> QED  BY <2>1, <2>2, <2>3, GateAssumption
<1> QED  BY <1>1, GateInvInit, GateInvNext, PTL DEF GateSpec

-----------------------------------------------------------------------------
(* The subscription. What Stripe holds only changes by Put, which emits an *)
(* event; a subscription that exists never disappears, and one that ended  *)
(* is never active again.                                                  *)
Subs == 1 .. MaxSubs

SubRecord == [active : BOOLEAN, plan : Plan, meters : BOOLEAN, cancel : BOOLEAN,
              next : Plan, nextMeters : BOOLEAN, held : BOOLEAN]

Steps == {"retrieve", "uncancel", "release", "cancel", "upgrade", "schedule", "phases", "row"}

ChangeRecord == [pc : Steps \cup {"idle", "answer"}, plan : Plan, from : Plan,
                 sub : 0 .. MaxSubs, held : BOOLEAN, meters : BOOLEAN, event : Nat]

SubType ==
    /\ sub \in [Subs -> SubRecord]
    /\ events \subseteq [n : Nat, kind : {"updated", "deleted"}, sub : Subs, plan : Plan]
    /\ emitted \in Nat /\ seen \in Nat
    /\ dbPlan \in Plan /\ dbSub \in 0 .. MaxSubs
    /\ change \in [Change -> ChangeRecord]
    /\ disorder \in BOOLEAN /\ unclear \in BOOLEAN /\ doubled \in BOOLEAN

(* Whatever names a subscription names one that exists. *)
Exists(i) == i \in Subs /\ sub[i] # NoSub

Named ==
    /\ \A e \in events : Exists(e.sub)
    /\ dbSub = 0 \/ Exists(dbSub)
    /\ \A c \in Change : change[c].pc \in Steps => Exists(change[c].sub)

SubBase == SubType /\ Named

LEMMA NoSubType == NoSub \in SubRecord /\ NoChange \in ChangeRecord
  BY SubscriptionAssumption DEF NoSub, SubRecord, NoChange, ChangeRecord, Plan

LEMMA SubBaseInit == SubInit => SubBase
<1> SUFFICES ASSUME SubInit PROVE SubBase
    OBVIOUS
<1>1. SubType
  <2>1. sub \in [Subs -> SubRecord] /\ change \in [Change -> ChangeRecord]
    BY NoSubType DEF SubInit, Subs
  <2>2. dbPlan \in Plan /\ dbSub \in 0 .. MaxSubs /\ emitted \in Nat /\ seen \in Nat
    BY SubscriptionAssumption DEF SubInit, Plan
  <2>3. events = {} /\ disorder \in BOOLEAN /\ unclear \in BOOLEAN /\ doubled \in BOOLEAN
    BY DEF SubInit
  <2> QED  BY <2>1, <2>2, <2>3 DEF SubType
<1>2. Named
  BY DEF SubInit, Named, NoChange, Steps
<1> QED  BY <1>1, <1>2 DEF SubBase

(* The state of a subscription and of a request after each of their steps. *)
LEMMA PutEffect ==
    ASSUME SubType, NEW i \in Subs, NEW s \in SubRecord, Put(i, s)
    PROVE  /\ sub'[i] = s /\ \A j \in Subs \ {i} : sub'[j] = sub[j]
           /\ sub' \in [Subs -> SubRecord]
           /\ emitted' = emitted + 1 /\ emitted' \in Nat
           /\ events' = events \cup {[n |-> emitted + 1, sub |-> i, plan |-> s.plan,
                                      kind |-> IF s.active THEN "updated" ELSE "deleted"]}
           /\ events' \subseteq [n : Nat, kind : {"updated", "deleted"}, sub : Subs, plan : Plan]
<1>1. /\ sub' = [sub EXCEPT ![i] = s] /\ emitted' = emitted + 1
      /\ events' = events \cup {[n |-> emitted + 1, sub |-> i, plan |-> s.plan,
                                 kind |-> IF s.active THEN "updated" ELSE "deleted"]}
  BY DEF Put, Emit
<1>2. /\ sub'[i] = s /\ \A j \in Subs \ {i} : sub'[j] = sub[j]
      /\ sub' \in [Subs -> SubRecord]
  BY <1>1 DEF SubType
<1>3. [n |-> emitted + 1, sub |-> i, plan |-> s.plan,
       kind |-> IF s.active THEN "updated" ELSE "deleted"]
        \in [n : Nat, kind : {"updated", "deleted"}, sub : Subs, plan : Plan]
  BY DEF SubType, SubRecord
<1> QED  BY <1>1, <1>2, <1>3 DEF SubType

(* What a subscription becomes at the end of its period. *)
LEMMA RenewedType ==
    ASSUME NEW s \in SubRecord, s.active
    PROVE  /\ Renewed(s) \in SubRecord /\ Renewed(s) # NoSub
           /\ s.cancel => ~Renewed(s).active
           /\ ~s.cancel => /\ Renewed(s).active /\ ~Renewed(s).cancel /\ ~Renewed(s).held
                           /\ Renewed(s).meters = IF s.held THEN s.nextMeters ELSE s.meters
<1>0. 0 \in Plan /\ s.plan \in Plan /\ s.next \in Plan /\ NoSub \in SubRecord
  BY NoSubType DEF SubRecord, Plan
<1>1. CASE s.cancel
  <2>1. PICK r : r = [NoSub EXCEPT !.plan = s.plan, !.cancel = TRUE]
    OBVIOUS
  <2>2. r \in SubRecord /\ r.cancel /\ ~r.active
    BY <1>0, <2>1 DEF SubRecord, NoSub
  <2>3. r # NoSub
    BY <2>2 DEF NoSub
  <2>4. Renewed(s) = r
    BY <1>1, <2>1 DEF Renewed
  <2> QED  BY <1>1, <2>2, <2>3, <2>4
<1>2. CASE ~s.cancel /\ s.held
  <2>1. PICK r : r = [s EXCEPT !.plan = s.next, !.meters = s.nextMeters,
                               !.held = FALSE, !.next = 0, !.nextMeters = FALSE]
    OBVIOUS
  <2>2. /\ r \in SubRecord /\ r.active = TRUE /\ r.cancel = s.cancel /\ r.held = FALSE
        /\ r.meters = s.nextMeters
    BY <1>0, <2>1, s.active = TRUE DEF SubRecord
  <2>3. r # NoSub
    BY <2>2 DEF NoSub
  <2>4. Renewed(s) = r
    BY <1>2, <2>1 DEF Renewed
  <2> QED  BY <1>2, <2>2, <2>3, <2>4
<1>3. CASE ~s.cancel /\ ~s.held
  BY <1>3 DEF Renewed, NoSub
<1> QED  BY <1>1, <1>2, <1>3

(* What a request remembers when it goes on. *)
LEMMA GoType ==
    ASSUME SubType, NEW c \in Change, NEW pc \in Steps \cup {"answer"}, Go(c, pc)
    PROVE  /\ change' \in [Change -> ChangeRecord]
           /\ \A d \in Change \ {c} : change'[d] = change[d]
           /\ change'[c].pc = pc /\ change'[c].plan = change[c].plan
           /\ pc # "answer" => change'[c] = [change[c] EXCEPT !.pc = pc]
<1>1. change[c] \in ChangeRecord
  BY DEF SubType
<1>2. PICK r : r = IF pc = "answer" THEN [NoChange EXCEPT !.pc = pc, !.plan = change[c].plan]
                                    ELSE [change[c] EXCEPT !.pc = pc]
  OBVIOUS
<1>3. change' = [change EXCEPT ![c] = r]
  BY <1>2 DEF Go, SubType
<1>4. r \in ChangeRecord /\ r.pc = pc /\ r.plan = change[c].plan
  BY <1>1, <1>2, NoSubType DEF ChangeRecord, NoChange
<1> QED  BY <1>2, <1>3, <1>4 DEF SubType

(* Steps of the row and of requests, and steps of Stripe, keep the base.   *)
LEMMA BaseKept ==
    ASSUME SubBase, UNCHANGED <<sub, emitted, doubled>>, events' \subseteq events,
           change' \in [Change -> ChangeRecord],
           \A c \in Change : change'[c].pc \in Steps => Exists(change'[c].sub),
           dbPlan' \in Plan, seen' \in Nat, dbSub' = 0 \/ Exists(dbSub'),
           disorder' \in BOOLEAN, unclear' \in BOOLEAN
    PROVE  SubBase'
<1>1. SubType'
  BY SubscriptionAssumption DEF SubBase, SubType, Exists, Subs
<1>2. Named'
  BY DEF SubBase, Named, Exists
<1> QED  BY <1>1, <1>2 DEF SubBase

LEMMA BasePut ==
    ASSUME SubBase, NEW i \in Subs, NEW s \in SubRecord, s # NoSub, Put(i, s),
           change' \in [Change -> ChangeRecord],
           \A c \in Change : change'[c].pc \in Steps =>
               change[c].pc \in Steps /\ change'[c].sub = change[c].sub,
           UNCHANGED <<dbPlan, dbSub, seen, disorder>>,
           unclear' \in BOOLEAN, doubled' \in BOOLEAN
    PROVE  SubBase'
<1>1. SubType'
  BY PutEffect DEF SubBase, SubType
<1>2. \A j : Exists(j) => Exists(j)'
  BY PutEffect DEF SubBase, Exists
<1>3. \A e \in events' : Exists(e.sub)'
  <2> SUFFICES ASSUME NEW e \in events' PROVE Exists(e.sub)'
      OBVIOUS
  <2>1. e \in events \/ e.sub = i
    BY PutEffect DEF SubBase
  <2>2. Exists(i)'
    BY PutEffect DEF SubBase, Exists
  <2> QED  BY <1>2, <2>1, <2>2 DEF SubBase, Named
<1>4. Named'
  BY <1>2, <1>3 DEF SubBase, Named
<1> QED  BY <1>1, <1>4 DEF SubBase

(* Each call that a request makes: the subscription it is about, what the  *)
(* subscription becomes, and where the request goes on.                    *)
LEMMA CallEffect ==
    ASSUME SubBase, NEW c \in Change, NEW s \in SubRecord, NEW pc \in Steps \cup {"answer"},
           s.active = TRUE, change[c].pc \in Steps, StripeCall(c, s, pc)
    PROVE  /\ SubBase'
           /\ change[c].sub \in Subs /\ sub[change[c].sub].active
           /\ sub'[change[c].sub] = s
           /\ \A j \in Subs \ {change[c].sub} : sub'[j] = sub[j]
           /\ \A d \in Change \ {c} : change'[d] = change[d]
           /\ change'[c].pc = pc /\ change'[c].plan = change[c].plan
           /\ pc # "answer" => /\ change'[c].sub = change[c].sub
                               /\ change'[c].held = change[c].held
                               /\ change'[c].meters = change[c].meters
           /\ emitted' = emitted + 1
           /\ UNCHANGED <<dbPlan, dbSub, seen, disorder, unclear, wish, doubled>>
<1>1. change[c].sub \in Subs
  BY DEF SubBase, Named, Exists
<1>2. Put(change[c].sub, s) /\ sub[change[c].sub].active /\ Go(c, pc)
  BY DEF StripeCall
<1>3. UNCHANGED <<dbPlan, dbSub, seen, disorder, unclear, wish, doubled>>
  BY DEF StripeCall, wsRow
<1>4. s # NoSub
  BY DEF NoSub
<1>5. \A d \in Change : change'[d].pc \in Steps =>
          change[d].pc \in Steps /\ change'[d].sub = change[d].sub
  <2> SUFFICES ASSUME NEW d \in Change, change'[d].pc \in Steps
               PROVE  change[d].pc \in Steps /\ change'[d].sub = change[d].sub
      OBVIOUS
  <2>1. CASE d # c
    BY <1>2, <2>1, GoType DEF SubBase
  <2>2. CASE d = c
    <3>1. pc # "answer" /\ change'[c] = [change[c] EXCEPT !.pc = pc]
      BY <1>2, <2>2, GoType DEF SubBase, Steps
    <3>2. change[c] \in ChangeRecord
      BY DEF SubBase, SubType
    <3> QED  BY <2>2, <3>1, <3>2 DEF ChangeRecord
  <2> QED  BY <2>1, <2>2
<1>6. SubBase'
  BY <1>1, <1>2, <1>3, <1>4, <1>5, GoType, BasePut DEF SubBase, SubType
<1>7. pc # "answer" => /\ change'[c].sub = change[c].sub
                       /\ change'[c].held = change[c].held
                       /\ change'[c].meters = change[c].meters
  <2>1. change[c] \in ChangeRecord
    BY DEF SubBase, SubType
  <2> SUFFICES ASSUME pc # "answer" PROVE change'[c] = [change[c] EXCEPT !.pc = pc]
      BY <2>1 DEF ChangeRecord
  <2> QED  BY <1>2, GoType DEF SubBase
<1> QED  BY <1>1, <1>2, <1>3, <1>6, <1>7, GoType, PutEffect DEF SubBase

LEMMA ThenStep ==
    ASSUME SubType, NEW c \in Change
    PROVE  /\ Then(c) \in {"cancel", "upgrade", "schedule"}
           /\ Then(c) = "cancel" <=> change[c].plan = 0
  BY DEF Then, SubType, ChangeRecord, Plan

(* The five calls through StripeCall, each with the record it writes.      *)
Written(c, s, pc) ==
    /\ s \in SubRecord /\ s.active = TRUE /\ s.plan = sub[change[c].sub].plan
    /\ s.meters = sub[change[c].sub].meters
    /\ pc \in Steps \cup {"answer"} /\ StripeCall(c, s, pc)

LEMMA Caller ==
    ASSUME SubBase, NEW c \in Change, change[c].pc \in Steps, sub[change[c].sub].active
    PROVE  /\ change[c].sub \in Subs /\ sub[change[c].sub] \in SubRecord
           /\ sub[change[c].sub].active = TRUE
           /\ change[c] \in ChangeRecord
  BY DEF SubBase, SubType, Named, Exists, SubRecord

LEMMA UncancelCall ==
    ASSUME SubBase, NEW c \in Change, Uncancel(c)
    PROVE  \E s : \E pc \in Steps :
               /\ Written(c, s, pc) /\ pc = AfterUncancel(c, change[c])
               /\ s.cancel = FALSE /\ s.held = sub[change[c].sub].held
               /\ s.nextMeters = sub[change[c].sub].nextMeters
<1>1. PICK s : s = [sub[change[c].sub] EXCEPT !.cancel = FALSE]
  OBVIOUS
<1>2. PICK pc : pc = AfterUncancel(c, change[c]) /\ pc \in Steps
  BY ThenStep DEF AfterUncancel, SubBase, Steps
<1>3. change[c].pc \in Steps /\ StripeCall(c, s, pc)
  BY <1>1, <1>2 DEF Uncancel, ChangeAt, Steps
<1>4. sub[change[c].sub] \in SubRecord /\ sub[change[c].sub].active = TRUE
  BY <1>3, Caller DEF StripeCall
<1>5. /\ s \in SubRecord /\ s.active = TRUE /\ s.plan = sub[change[c].sub].plan
      /\ s.meters = sub[change[c].sub].meters
      /\ s.cancel = FALSE /\ s.held = sub[change[c].sub].held
      /\ s.nextMeters = sub[change[c].sub].nextMeters
  BY <1>1, <1>4 DEF SubRecord, ChangeRecord, Plan
<1>6. Written(c, s, pc)
  BY <1>2, <1>3, <1>5 DEF Written, Steps
<1> QED  BY <1>2, <1>5, <1>6

LEMMA ReleaseCall ==
    ASSUME SubBase, NEW c \in Change, ReleaseSchedule(c)
    PROVE  \E s : \E pc \in Steps :
               /\ Written(c, s, pc) /\ pc = Then(c)
               /\ s.cancel = sub[change[c].sub].cancel /\ s.held = FALSE
<1>1. PICK s : s = [sub[change[c].sub] EXCEPT !.held = FALSE, !.next = 0, !.nextMeters = FALSE]
  OBVIOUS
<1>2. PICK pc : pc = Then(c) /\ pc \in Steps
  BY ThenStep DEF SubBase, Steps
<1>3. change[c].pc \in Steps /\ StripeCall(c, s, pc)
  BY <1>1, <1>2 DEF ReleaseSchedule, ChangeAt, Steps
<1>4. sub[change[c].sub] \in SubRecord /\ sub[change[c].sub].active = TRUE
  BY <1>3, Caller DEF StripeCall
<1>a. 0 \in Plan
  BY DEF Plan
<1>5. /\ s \in SubRecord /\ s.active = TRUE /\ s.plan = sub[change[c].sub].plan
      /\ s.meters = sub[change[c].sub].meters
      /\ s.cancel = sub[change[c].sub].cancel /\ s.held = FALSE
  BY <1>a, <1>1, <1>4 DEF SubRecord
<1>6. Written(c, s, pc)
  BY <1>2, <1>3, <1>5 DEF Written, Steps
<1> QED  BY <1>2, <1>5, <1>6

LEMMA CancelCall ==
    ASSUME SubBase, NEW c \in Change, Cancel(c)
    PROVE  \E s : Written(c, s, "answer") /\ s.cancel = TRUE /\ s.held = FALSE
<1>1. PICK s : s = [sub[change[c].sub] EXCEPT !.cancel = TRUE]
  OBVIOUS
<1>2. change[c].pc \in Steps /\ StripeCall(c, s, "answer") /\ ~sub[change[c].sub].held
  BY <1>1 DEF Cancel, ChangeAt, Steps
<1>3. /\ sub[change[c].sub] \in SubRecord /\ sub[change[c].sub].active = TRUE
      /\ sub[change[c].sub].held = FALSE
  BY <1>2, Caller DEF StripeCall, SubRecord
<1>5. /\ s \in SubRecord /\ s.active = TRUE /\ s.plan = sub[change[c].sub].plan
      /\ s.meters = sub[change[c].sub].meters
      /\ s.cancel = TRUE /\ s.held = FALSE
  BY <1>1, <1>3 DEF SubRecord, ChangeRecord, Plan
<1>6. Written(c, s, "answer")
  BY <1>2, <1>5 DEF Written, Steps
<1> QED  BY <1>5, <1>6

LEMMA ScheduleCall ==
    ASSUME SubBase, NEW c \in Change, CreateSchedule(c)
    PROVE  \E s : /\ Written(c, s, "phases") /\ s.held = TRUE
                  /\ s.cancel = sub[change[c].sub].cancel
                  /\ s.nextMeters = sub[change[c].sub].meters
<1>1. PICK s : s = [sub[change[c].sub] EXCEPT !.held = TRUE,
                       !.next = sub[change[c].sub].plan, !.nextMeters = sub[change[c].sub].meters]
  OBVIOUS
<1>2. change[c].pc \in Steps /\ StripeCall(c, s, "phases")
  BY <1>1 DEF CreateSchedule, ChangeAt, Steps
<1>3. sub[change[c].sub] \in SubRecord /\ sub[change[c].sub].active = TRUE
  BY <1>2, Caller DEF StripeCall
<1>5. /\ s \in SubRecord /\ s.active = TRUE /\ s.plan = sub[change[c].sub].plan
      /\ s.meters = sub[change[c].sub].meters
      /\ s.held = TRUE
      /\ s.cancel = sub[change[c].sub].cancel
      /\ s.nextMeters = sub[change[c].sub].meters
  BY <1>1, <1>3 DEF SubRecord, ChangeRecord, Plan
<1>6. Written(c, s, "phases")
  BY <1>2, <1>5 DEF Written, Steps
<1> QED  BY <1>5, <1>6

LEMMA PhasesCall ==
    ASSUME SubBase, NEW c \in Change, SetPhases(c)
    PROVE  \E s : /\ Written(c, s, "answer") /\ s.held = TRUE
                  /\ s.cancel = sub[change[c].sub].cancel
                  /\ s.next = change[c].plan /\ s.nextMeters = change[c].meters
<1>1. PICK s : s = [sub[change[c].sub] EXCEPT !.next = change[c].plan,
                                              !.nextMeters = change[c].meters]
  OBVIOUS
<1>2. change[c].pc \in Steps /\ StripeCall(c, s, "answer") /\ sub[change[c].sub].held
  BY <1>1 DEF SetPhases, MetersOfNextPhase, ChangeAt, Steps
<1>3. /\ sub[change[c].sub] \in SubRecord /\ sub[change[c].sub].active = TRUE
      /\ sub[change[c].sub].held = TRUE /\ change[c] \in ChangeRecord
  BY <1>2, Caller DEF StripeCall, SubRecord
<1>5. /\ s \in SubRecord /\ s.active = TRUE /\ s.plan = sub[change[c].sub].plan
      /\ s.meters = sub[change[c].sub].meters
      /\ s.held = TRUE
      /\ s.cancel = sub[change[c].sub].cancel
      /\ s.next = change[c].plan /\ s.nextMeters = change[c].meters
  BY <1>1, <1>3 DEF SubRecord, ChangeRecord, Plan
<1>6. Written(c, s, "answer")
  BY <1>2, <1>5 DEF Written, Steps
<1> QED  BY <1>5, <1>6

(* The other changes of what Stripe holds. *)
LEMMA CheckoutEffect ==
    ASSUME SubBase, NEW p \in Paid, CheckoutCompleted(p)
    PROVE  \E i \in Subs :
               /\ SubBase' /\ sub[i] = NoSub /\ sub'[i].active = TRUE
               /\ sub'[i].meters = TRUE /\ sub'[i].cancel = FALSE /\ sub'[i].held = FALSE
               /\ sub'[i].plan = p
               /\ \A j \in Subs \ {i} : sub'[j] = sub[j]
               /\ emitted' = emitted + 1
               /\ doubled' = (doubled \/ Active # {})
<1>1. PICK s : s = [NoSub EXCEPT !.active = TRUE, !.plan = p, !.meters = TRUE]
  OBVIOUS
<1>2. PICK i \in Subs : sub[i] = NoSub /\ Put(i, s)
  BY <1>1 DEF CheckoutCompleted, Subs
<1>3. p \in Plan
  BY DEF Paid, Plan
<1>4. /\ s \in SubRecord /\ s.active = TRUE /\ s.meters = TRUE /\ s.cancel = FALSE
      /\ s.held = FALSE /\ s.plan = p
  BY <1>1, <1>3, NoSubType DEF SubRecord, NoSub
<1>5. s # NoSub
  BY <1>4 DEF NoSub
<1>6. UNCHANGED <<change, dbPlan, dbSub, seen, disorder, unclear>>
  BY DEF CheckoutCompleted, wsRow
<1>7. doubled' = (doubled \/ Active # {})
  BY DEF CheckoutCompleted
<1>8. SubBase'
  <2>1. doubled' \in BOOLEAN
    BY <1>7
  <2> QED  BY <1>2, <1>4, <1>5, <1>6, <2>1, BasePut DEF SubBase, SubType
<1> QED  BY <1>2, <1>4, <1>7, <1>8, PutEffect DEF SubBase

LEMMA RenewEffect ==
    ASSUME SubBase, NEW i \in Subs, Renew(i)
    PROVE  /\ SubBase' /\ sub[i].active = TRUE /\ sub'[i] = Renewed(sub[i])
           /\ \A j \in Subs \ {i} : sub'[j] = sub[j]
           /\ emitted' = emitted + 1
           /\ UNCHANGED <<change, dbPlan, dbSub, seen, disorder, wish, doubled>>
<1>1. sub[i] \in SubRecord /\ sub[i].active = TRUE
  BY DEF SubBase, SubType, SubRecord, Renew
<1>2. Renewed(sub[i]) \in SubRecord /\ Renewed(sub[i]) # NoSub
  BY <1>1, RenewedType
<1>3. Put(i, Renewed(sub[i]))
  BY DEF Renew
<1>4. UNCHANGED <<change, dbPlan, dbSub, seen, disorder, wish, doubled>>
  BY DEF Renew, wsRow
<1>5. unclear' \in BOOLEAN
  <2>1. unclear' = (unclear \/ \E c \in Change : change[c].pc # "idle")
    BY DEF Renew
  <2> QED  BY <2>1
<1>6. SubBase'
  BY <1>2, <1>3, <1>4, <1>5, BasePut DEF SubBase, SubType
<1> QED  BY <1>1, <1>2, <1>3, <1>4, <1>6, PutEffect DEF SubBase

LEMMA UpgradeEffect ==
    ASSUME SubBase, NEW c \in Change, Upgrade(c)
    PROVE  \E s \in SubRecord :
               /\ SubBase'
               /\ change[c].sub \in Subs /\ sub[change[c].sub].active = TRUE
               /\ s = [sub[change[c].sub] EXCEPT !.plan = change[c].plan]
               /\ sub'[change[c].sub] = s
               /\ \A j \in Subs \ {change[c].sub} : sub'[j] = sub[j]
               /\ \A d \in Change \ {c} : change'[d] = change[d]
               /\ change'[c] = [change[c] EXCEPT !.pc = "row", !.event = emitted + 1]
               /\ emitted' = emitted + 1
               /\ UNCHANGED <<dbPlan, dbSub, seen, disorder, unclear, wish, doubled>>
<1>1. PICK s : s = [sub[change[c].sub] EXCEPT !.plan = change[c].plan]
  OBVIOUS
<1>2. change[c].pc = "upgrade" /\ sub[change[c].sub].active /\ Put(change[c].sub, s)
  BY <1>1 DEF Upgrade, ChangeAt
<1>3. /\ change[c].sub \in Subs /\ sub[change[c].sub] \in SubRecord
      /\ sub[change[c].sub].active = TRUE /\ change[c] \in ChangeRecord
  BY <1>2, Caller DEF Steps
<1>4. s \in SubRecord /\ s.active = TRUE
  BY <1>1, <1>3 DEF SubRecord, ChangeRecord
<1>5. s # NoSub
  BY <1>4 DEF NoSub
<1>6. UNCHANGED <<dbPlan, dbSub, seen, disorder, unclear, wish, doubled>>
  BY DEF Upgrade, wsRow
<1>7. emitted' = emitted + 1 /\ emitted' \in Nat
  BY <1>2, <1>3, <1>4, PutEffect DEF SubBase
<1>8. PICK r : r = [change[c] EXCEPT !.pc = "row", !.event = emitted + 1]
  OBVIOUS
<1>9. change' = [change EXCEPT ![c] = r]
  BY <1>7, <1>8 DEF Upgrade, SubBase, SubType
<1>10. r \in ChangeRecord /\ r.sub = change[c].sub
  BY <1>3, <1>7, <1>8 DEF ChangeRecord, Steps
<1>11. /\ change' \in [Change -> ChangeRecord] /\ change'[c] = r
       /\ \A d \in Change \ {c} : change'[d] = change[d]
  BY <1>9, <1>10 DEF SubBase, SubType
<1>12. \A d \in Change : change'[d].pc \in Steps =>
           change[d].pc \in Steps /\ change'[d].sub = change[d].sub
  BY <1>2, <1>10, <1>11 DEF Steps
<1>13. SubBase'
  BY <1>2, <1>3, <1>4, <1>5, <1>6, <1>11, <1>12, BasePut DEF SubBase, SubType
<1> QED  BY <1>1, <1>2, <1>3, <1>4, <1>6, <1>7, <1>8, <1>11, <1>13, PutEffect DEF SubBase

(* The steps that leave Stripe's subscriptions alone. *)
LEMMA BeginEffect ==
    ASSUME SubBase, NEW c \in Change, NEW p \in Plan, BeginChange(c, p)
    PROVE  /\ SubBase'
           /\ change'[c] = [NoChange EXCEPT !.pc = "retrieve", !.plan = p, !.from = dbPlan,
                                            !.sub = dbSub]
           /\ \A d \in Change \ {c} : change'[d] = change[d]
           /\ UNCHANGED <<sub, events, emitted, doubled, dbPlan, dbSub, seen, disorder, wish>>
<1>1. PICK r : r = [NoChange EXCEPT !.pc = "retrieve", !.plan = p, !.from = dbPlan, !.sub = dbSub]
  OBVIOUS
<1>2. r \in ChangeRecord /\ r.sub = dbSub
  BY <1>1, NoSubType DEF SubBase, SubType, ChangeRecord, NoChange, Steps
<1>3. change' = [change EXCEPT ![c] = r] /\ dbSub # 0
  BY <1>1 DEF BeginChange
<1>4. /\ change' \in [Change -> ChangeRecord] /\ change'[c] = r
      /\ \A d \in Change \ {c} : change'[d] = change[d]
  BY <1>2, <1>3 DEF SubBase, SubType
<1>5. UNCHANGED <<sub, events, emitted, doubled, dbPlan, dbSub, seen, disorder, wish>>
  BY DEF BeginChange, stripe, wsRow
<1>6. \A d \in Change : change'[d].pc \in Steps => Exists(change'[d].sub)
  BY <1>2, <1>3, <1>4 DEF SubBase, Named
<1>7. unclear' \in BOOLEAN
  <2>1. unclear' = (unclear \/ \E d \in Change : change[d].pc # "idle")
    BY DEF BeginChange, ChangeAt
  <2> QED  BY <2>1
<1>8. SubBase'
  BY <1>4, <1>5, <1>6, <1>7, BaseKept DEF SubBase, SubType, Named
<1> QED  BY <1>1, <1>4, <1>5, <1>8

LEMMA RetrieveEffect ==
    ASSUME SubBase, NEW c \in Change, Retrieve(c)
    PROVE  \E s \in SubRecord : \E r \in ChangeRecord :
               /\ SubBase'
               /\ s = sub[change[c].sub] /\ change[c].sub \in Subs
               /\ change'[c] = r /\ r.held = s.held /\ r.meters = s.meters
               /\ r.plan = change[c].plan /\ r.sub = change[c].sub
               /\ r.pc = AfterRetrieve(c, s)
               /\ \A d \in Change \ {c} : change'[d] = change[d]
               /\ UNCHANGED <<sub, events, emitted, doubled, dbPlan, dbSub, seen, disorder, wish,
                             unclear>>
<1>1. change[c] \in ChangeRecord /\ change[c].pc = "retrieve" /\ Exists(change[c].sub)
  BY DEF SubBase, SubType, Named, Retrieve, ChangeAt, Steps
<1>2. PICK s \in SubRecord : s = sub[change[c].sub]
  BY <1>1 DEF SubBase, SubType, Exists
<1>3. PICK pc : pc = AfterRetrieve(c, s) /\ pc \in Steps
  BY ThenStep DEF AfterRetrieve, AfterUncancel, SubBase, Steps
<1>4. PICK r : r = [change[c] EXCEPT !.held = s.held, !.meters = s.meters, !.pc = pc]
  OBVIOUS
<1>5. change' = [change EXCEPT ![c] = r]
  BY <1>2, <1>3, <1>4 DEF Retrieve, SubBase, SubType
<1>6. /\ r \in ChangeRecord /\ r.held = s.held /\ r.meters = s.meters
      /\ r.plan = change[c].plan /\ r.sub = change[c].sub /\ r.pc = pc
  BY <1>1, <1>3, <1>4 DEF ChangeRecord, SubRecord
<1>7. /\ change' \in [Change -> ChangeRecord] /\ change'[c] = r
      /\ \A d \in Change \ {c} : change'[d] = change[d]
  BY <1>5, <1>6 DEF SubBase, SubType
<1>8. UNCHANGED <<sub, events, emitted, doubled, dbPlan, dbSub, seen, disorder, wish, unclear>>
  BY DEF Retrieve, stripe, wsRow
<1>9. \A d \in Change : change'[d].pc \in Steps => Exists(change'[d].sub)
  BY <1>1, <1>6, <1>7 DEF SubBase, Named
<1>10. SubBase'
  BY <1>7, <1>8, <1>9, BaseKept DEF SubBase, SubType, Named
<1> QED  BY <1>1, <1>2, <1>3, <1>6, <1>7, <1>8, <1>10 DEF Exists

LEMMA EndEffect ==
    ASSUME SubBase, NEW c \in Change,
           UpdateRow(c) \/ AnswerChange(c) \/ FailChange(c)
    PROVE  /\ SubBase'
           /\ change'[c] \in ChangeRecord /\ change'[c].pc \in {"idle", "answer"}
           /\ UpdateRow(c) => change'[c].pc = "answer" /\ change'[c].plan = change[c].plan
           /\ ~UpdateRow(c) => change'[c].pc = "idle" /\ UNCHANGED <<dbPlan, disorder>>
           /\ \A d \in Change \ {c} : change'[d] = change[d]
           /\ UNCHANGED <<sub, events, emitted, doubled, dbSub, seen>>
<1>1. PICK r : r = IF UpdateRow(c) THEN [NoChange EXCEPT !.pc = "answer", !.plan = change[c].plan]
                                   ELSE NoChange
  OBVIOUS
<1>2. /\ r \in ChangeRecord /\ r.pc = (IF UpdateRow(c) THEN "answer" ELSE "idle")
      /\ UpdateRow(c) => r.plan = change[c].plan
  BY <1>1, NoSubType DEF SubBase, SubType, ChangeRecord, NoChange
<1>3. change' = [change EXCEPT ![c] = r]
  <2>1. CASE UpdateRow(c)
    BY <1>1, <2>1 DEF UpdateRow, Go
  <2>2. CASE ~UpdateRow(c)
    BY <1>1, <2>2 DEF AnswerChange, FailChange
  <2> QED  BY <2>1, <2>2
<1>4. /\ change' \in [Change -> ChangeRecord] /\ change'[c] = r
      /\ \A d \in Change \ {c} : change'[d] = change[d]
  BY <1>2, <1>3 DEF SubBase, SubType
<1>5. /\ UNCHANGED <<sub, events, emitted, doubled, dbSub, seen>>
      /\ ~UpdateRow(c) => UNCHANGED <<dbPlan, disorder>>
  BY DEF UpdateRow, AnswerChange, FailChange, stripe, wsRow
<1>6. dbPlan' \in Plan /\ disorder' \in BOOLEAN /\ unclear' \in BOOLEAN
  <2>1. CASE UpdateRow(c)
    <3>1. disorder' = (disorder \/ change[c].event < seen) /\ unclear' = unclear
      BY <2>1 DEF UpdateRow
    <3>2. disorder' \in BOOLEAN
      BY <3>1, Zenon
    <3>3. dbPlan' \in Plan
      BY <2>1 DEF UpdateRow, SubBase, SubType, ChangeRecord
    <3> QED  BY <3>1, <3>2, <3>3 DEF SubBase, SubType
  <2>2. CASE AnswerChange(c)
    BY <2>2 DEF AnswerChange, wsRow, SubBase, SubType
  <2>3. CASE FailChange(c)
    <3>1. unclear' = (unclear \/ ~ChangeAt(c, "retrieve"))
      BY <2>3 DEF FailChange
    <3>2. unclear' \in BOOLEAN
      BY <3>1, Zenon
    <3> QED  BY <2>3, <3>2 DEF FailChange, wsRow, SubBase, SubType
  <2> QED  BY <2>1, <2>2, <2>3
<1>7. \A d \in Change : change'[d].pc \in Steps => Exists(change'[d].sub)
  BY <1>2, <1>4 DEF SubBase, Named, Steps
<1>8. SubBase'
  BY <1>4, <1>5, <1>6, <1>7, BaseKept DEF SubBase, SubType, Named
<1> QED  BY <1>2, <1>4, <1>5, <1>8

LEMMA WebhookEffect ==
    ASSUME SubBase, NEW e \in events, Webhook(e)
    PROVE  /\ SubBase'
           /\ \/ e.kind = "deleted" /\ dbPlan' = 0 /\ dbSub' = 0
              \/ e.kind = "updated" /\ dbPlan' \in {e.plan, sub[e.sub].plan} /\ dbSub' = e.sub
           /\ disorder' = (disorder \/ e.n <= seen)
           /\ seen' = IF e.n > seen THEN e.n ELSE seen
           /\ events' \in {events, events \ {e}}
           /\ UNCHANGED <<sub, emitted, change, wish, unclear, doubled>>
<1>1. /\ e.n \in Nat /\ e.kind \in {"updated", "deleted"} /\ e.plan \in Plan /\ Exists(e.sub)
      /\ sub[e.sub].plan \in Plan
  BY DEF SubBase, SubType, Named, Exists, SubRecord
<1>2. PICK p, i : /\ WritePlan(p, i, e.n)
                  /\ \/ e.kind = "deleted" /\ p = 0 /\ i = 0
                     \/ e.kind = "updated" /\ i = e.sub /\ p \in {e.plan, sub[e.sub].plan}
  BY <1>1 DEF Webhook, Apply
<1>3. /\ UNCHANGED <<sub, emitted, change, wish, unclear, doubled>>
      /\ events' \in {events, events \ {e}}
  BY DEF Webhook
<1>4. disorder' = (disorder \/ e.n <= seen) /\ disorder' \in BOOLEAN
  <2>1. disorder' = (disorder \/ e.n <= seen)
    BY <1>2, Zenon DEF WritePlan
  <2> QED  BY <2>1, Zenon
<1>5. /\ dbPlan' = p /\ dbSub' = i
      /\ seen' = IF e.n > seen THEN e.n ELSE seen
  BY <1>2 DEF WritePlan
<1>6. dbPlan' \in Plan /\ seen' \in Nat /\ (dbSub' = 0 \/ Exists(dbSub'))
  BY <1>1, <1>2, <1>5 DEF SubBase, SubType, Plan
<1>7. SubBase'
  BY <1>3, <1>4, <1>6, BaseKept DEF SubBase, SubType, Named
<1> QED  BY <1>2, <1>3, <1>4, <1>5, <1>7, Zenon

(* The base holds of every reachable state. *)
LEMMA SubBaseNext == SubBase /\ [SubNext]_subVars => SubBase'
<1> SUFFICES ASSUME SubBase, [SubNext]_subVars PROVE SubBase'
    OBVIOUS
<1>1. ASSUME NEW p \in Paid, CheckoutCompleted(p) PROVE SubBase'
  BY <1>1, CheckoutEffect
<1>2. ASSUME NEW i \in Subs, Renew(i) PROVE SubBase'
  BY <1>2, RenewEffect
<1>3. ASSUME NEW e \in events, Webhook(e) PROVE SubBase'
  BY <1>3, WebhookEffect
<1>4. ASSUME NEW c \in Change, NEW p \in Plan, BeginChange(c, p) PROVE SubBase'
  BY <1>4, BeginEffect
<1>5. ASSUME NEW c \in Change, NEW s, NEW pc, Written(c, s, pc), change[c].pc \in Steps
      PROVE  SubBase'
  BY <1>5, CallEffect DEF Written
<1>6. ASSUME NEW c \in Change,
             \/ Uncancel(c) \/ ReleaseSchedule(c) \/ Cancel(c) \/ CreateSchedule(c)
             \/ SetPhases(c)
      PROVE  SubBase'
  <2>1. \E s, pc : Written(c, s, pc)
    BY <1>6, UncancelCall, ReleaseCall, CancelCall, ScheduleCall, PhasesCall
  <2>2. change[c].pc \in Steps
    BY <1>6 DEF Uncancel, ReleaseSchedule, Cancel, CreateSchedule, SetPhases, ChangeAt, Steps
  <2> QED  BY <1>5, <2>1, <2>2
<1>7. ASSUME NEW c \in Change,
             \/ Retrieve(c) \/ Upgrade(c) \/ UpdateRow(c) \/ AnswerChange(c) \/ FailChange(c)
      PROVE  SubBase'
  BY <1>7, RetrieveEffect, UpgradeEffect, EndEffect
<1>8. CASE (\E p \in Plan : AlreadyOnPlan(p)) \/ UNCHANGED subVars
  BY <1>8 DEF subVars, AlreadyOnPlan, stripe, wsRow, SubBase, SubType, Named, Exists
<1> QED  BY <1>1, <1>2, <1>3, <1>4, <1>6, <1>7, <1>8 DEF SubNext, Subs

-----------------------------------------------------------------------------
(* The meters. A schedule whose next phase lacks them would drop them at   *)
(* the renewal, so the next phase of an active subscription has them too,  *)
(* and what a request remembers of an active subscription is that it has   *)
(* them: a subscription without them has ended and never comes back.       *)
Metered ==
    /\ \A i \in Subs : sub[i].active => sub[i].meters /\ (sub[i].held => sub[i].nextMeters)
    /\ \A c \in Change :
          change[c].pc \in Steps \ {"retrieve"} /\ sub[change[c].sub].active => change[c].meters

LEMMA MeteredInit == SubInit => Metered
  BY DEF SubInit, Metered, Subs, NoSub, NoChange, Steps

(* Where only subscription i changed, and no other was active before.      *)
LEMMA MeteredPut ==
    ASSUME SubBase, SubBase', Metered, NEW i \in Subs,
           \A j \in Subs \ {i} : sub'[j] = sub[j],
           sub'[i].active => sub'[i].meters /\ (sub'[i].held => sub'[i].nextMeters),
           \A d \in Change : change'[d].pc \in Steps \ {"retrieve"} =>
               /\ change[d].pc \in Steps \ {"retrieve"}
               /\ change'[d].sub = change[d].sub /\ change'[d].meters = change[d].meters,
           sub[i].active \/ sub[i] = NoSub
    PROVE  Metered'
<1>1. ASSUME NEW d \in Change, change'[d].pc \in Steps \ {"retrieve"},
             sub'[change'[d].sub].active
      PROVE  change'[d].meters
  <2>1. /\ change[d].pc \in Steps \ {"retrieve"} /\ Exists(change[d].sub)
        /\ change'[d].sub = change[d].sub /\ change'[d].meters = change[d].meters
    BY <1>1 DEF SubBase, Named
  <2>2. sub[change[d].sub].active
    BY <1>1, <2>1 DEF Exists
  <2> QED  BY <2>1, <2>2 DEF Metered
<1>2. \A j \in Subs : sub'[j].active => sub'[j].meters /\ (sub'[j].held => sub'[j].nextMeters)
  BY DEF Metered
<1> QED  BY <1>1, <1>2 DEF Metered

(* The request's own entry is all that changed. *)
LEMMA MeteredRequest ==
    ASSUME Metered, sub' = sub, NEW c \in Change,
           \A d \in Change \ {c} : change'[d] = change[d],
           change'[c].pc \in Steps \ {"retrieve"} /\ sub[change'[c].sub].active
               => change'[c].meters
    PROVE  Metered'
  BY DEF Metered

LEMMA MeteredCall ==
    ASSUME SubBase, Metered, NEW c \in Change, NEW s, NEW pc, Written(c, s, pc),
           change[c].pc \in Steps \ {"retrieve"}, s.held => s.nextMeters
    PROVE  Metered'
<1>0. /\ s \in SubRecord /\ pc \in Steps \cup {"answer"} /\ s.active = TRUE
      /\ change[c].pc \in Steps /\ StripeCall(c, s, pc)
  BY DEF Written
<1>1. PICK i \in Subs : i = change[c].sub
  BY <1>0, CallEffect
<1>2. /\ SubBase' /\ sub[i].active /\ sub'[i] = s
      /\ \A j \in Subs \ {i} : sub'[j] = sub[j]
      /\ \A d \in Change \ {c} : change'[d] = change[d]
      /\ change'[c].pc = pc
      /\ pc # "answer" => change'[c].sub = change[c].sub /\ change'[c].meters = change[c].meters
  BY <1>0, <1>1, CallEffect
<1>3. s.meters
  BY <1>1, <1>2 DEF Written, Metered
<1>5. change'[c].pc \in Steps \ {"retrieve"} =>
          change'[c].sub = change[c].sub /\ change'[c].meters = change[c].meters
  BY <1>2 DEF Steps
<1> QED  BY <1>1, <1>2, <1>3, <1>5, MeteredPut

LEMMA MeteredNext == SubBase /\ Metered /\ [SubNext]_subVars => Metered'
<1> SUFFICES ASSUME SubBase, Metered, [SubNext]_subVars PROVE Metered'
    OBVIOUS
<1>0. SubBase'
  BY SubBaseNext
<1>1. ASSUME NEW p \in Paid, CheckoutCompleted(p) PROVE Metered'
  <2>1. PICK i \in Subs : /\ sub[i] = NoSub /\ sub'[i].meters = TRUE /\ sub'[i].held = FALSE
                          /\ \A j \in Subs \ {i} : sub'[j] = sub[j]
    BY <1>1, CheckoutEffect
  <2>2. UNCHANGED change
    BY <1>1 DEF CheckoutCompleted
  <2> QED  BY <1>0, <2>1, <2>2, MeteredPut
<1>2. ASSUME NEW i \in Subs, Renew(i) PROVE Metered'
  <2>1. /\ sub[i] \in SubRecord /\ sub[i].active /\ sub'[i] = Renewed(sub[i])
        /\ \A j \in Subs \ {i} : sub'[j] = sub[j]
        /\ UNCHANGED change
    BY <1>2, RenewEffect DEF SubBase, SubType
  <2>2. sub'[i].active => sub'[i].meters /\ ~sub'[i].held
    BY <2>1, RenewedType DEF Metered
  <2> QED  BY <1>0, <2>1, <2>2, MeteredPut
<1>3. ASSUME NEW e \in events, Webhook(e) PROVE Metered'
  BY <1>3, WebhookEffect DEF Metered
<1>4. ASSUME NEW c \in Change, NEW p \in Plan, BeginChange(c, p) PROVE Metered'
  <2>1. change'[c].pc = "retrieve"
    BY <1>4, BeginEffect DEF NoChange
  <2> QED  BY <1>4, <2>1, BeginEffect, MeteredRequest
<1>5. ASSUME NEW c \in Change, Retrieve(c) PROVE Metered'
  <2>1. /\ change[c].sub \in Subs /\ UNCHANGED sub
        /\ change'[c].meters = sub[change[c].sub].meters /\ change'[c].sub = change[c].sub
        /\ \A d \in Change \ {c} : change'[d] = change[d]
    BY <1>5, RetrieveEffect
  <2>2. sub[change'[c].sub].active => change'[c].meters
    BY <2>1 DEF Metered
  <2> QED  BY <2>1, <2>2, MeteredRequest
<1>6. ASSUME NEW c \in Change, Uncancel(c) PROVE Metered'
  <2>1. PICK s, pc : Written(c, s, pc) /\ s.held = sub[change[c].sub].held
                     /\ s.nextMeters = sub[change[c].sub].nextMeters
    BY <1>6, UncancelCall
  <2>2. change[c].sub \in Subs /\ sub[change[c].sub].active
    BY <1>6, <2>1, CallEffect DEF Written, Uncancel, ChangeAt, Steps
  <2>3. s.held => s.nextMeters
    BY <2>1, <2>2 DEF Metered
  <2> QED  BY <1>6, <2>1, <2>3, MeteredCall DEF Uncancel, ChangeAt, Steps
<1>7. ASSUME NEW c \in Change, ReleaseSchedule(c) PROVE Metered'
  <2>1. PICK s, pc : Written(c, s, pc) /\ s.held = FALSE
    BY <1>7, ReleaseCall
  <2> QED  BY <1>7, <2>1, MeteredCall DEF ReleaseSchedule, ChangeAt, Steps
<1>8. ASSUME NEW c \in Change, Cancel(c) PROVE Metered'
  <2>1. PICK s : Written(c, s, "answer") /\ s.held = FALSE
    BY <1>8, CancelCall
  <2> QED  BY <1>8, <2>1, MeteredCall DEF Cancel, ChangeAt, Steps
<1>9. ASSUME NEW c \in Change, CreateSchedule(c) PROVE Metered'
  <2>1. PICK s : Written(c, s, "phases") /\ s.nextMeters = sub[change[c].sub].meters
    BY <1>9, ScheduleCall
  <2>2. change[c].sub \in Subs /\ sub[change[c].sub].active
    BY <1>9, <2>1, CallEffect DEF Written, CreateSchedule, ChangeAt, Steps
  <2>3. s.nextMeters
    BY <2>1, <2>2 DEF Metered
  <2> QED  BY <1>9, <2>1, <2>3, MeteredCall DEF CreateSchedule, ChangeAt, Steps
<1>10. ASSUME NEW c \in Change, SetPhases(c) PROVE Metered'
  <2>1. PICK s : Written(c, s, "answer") /\ s.nextMeters = change[c].meters
    BY <1>10, PhasesCall
  <2>2. change[c].pc \in Steps \ {"retrieve"}
    BY <1>10 DEF SetPhases, ChangeAt, Steps
  <2>3. sub[change[c].sub].active
    BY <2>1, <2>2, CallEffect DEF Written
  <2>4. s.nextMeters
    BY <2>1, <2>2, <2>3 DEF Metered
  <2> QED  BY <2>1, <2>2, <2>4, MeteredCall
<1>11. ASSUME NEW c \in Change, Upgrade(c) PROVE Metered'
  <2>1. PICK i \in Subs : i = change[c].sub
    BY <1>11, UpgradeEffect
  <2>2. PICK s \in SubRecord :
           /\ sub[i].active /\ s = [sub[i] EXCEPT !.plan = change[c].plan] /\ sub'[i] = s
           /\ \A j \in Subs \ {i} : sub'[j] = sub[j]
           /\ \A d \in Change \ {c} : change'[d] = change[d]
           /\ change'[c] = [change[c] EXCEPT !.pc = "row", !.event = emitted + 1]
    BY <1>11, <2>1, UpgradeEffect
  <2>3. /\ sub[i] \in SubRecord /\ change[c] \in ChangeRecord
        /\ change[c].pc \in Steps \ {"retrieve"}
    BY <1>11 DEF SubBase, SubType, Upgrade, ChangeAt, Steps
  <2>4. s.meters /\ (s.held => s.nextMeters)
    <3>1. s.meters = sub[i].meters /\ s.held = sub[i].held /\ s.nextMeters = sub[i].nextMeters
      BY <2>2, <2>3 DEF SubRecord
    <3> QED  BY <2>2, <3>1 DEF Metered
  <2>5. change'[c].sub = change[c].sub /\ change'[c].meters = change[c].meters
    BY <2>2, <2>3 DEF ChangeRecord
  <2> QED  BY <1>0, <2>2, <2>3, <2>4, <2>5, MeteredPut
<1>12. ASSUME NEW c \in Change, UpdateRow(c) \/ AnswerChange(c) \/ FailChange(c) PROVE Metered'
  <2>1. change'[c].pc \notin Steps
    BY <1>12, EndEffect DEF Steps
  <2> QED  BY <1>12, <2>1, EndEffect, MeteredRequest
<1>13. CASE (\E p \in Plan : AlreadyOnPlan(p)) \/ UNCHANGED subVars
  BY <1>13 DEF subVars, AlreadyOnPlan, stripe, wsRow, Metered
<1> QED  BY <1>1, <1>2, <1>3, <1>4, <1>5, <1>6, <1>7, <1>8, <1>9, <1>10, <1>11, <1>12, <1>13
         DEF SubNext, Subs

LEMMA SubBaseHolds == SubSpec => []SubBase
  BY SubBaseInit, SubBaseNext, PTL DEF SubSpec

(* Every active subscription bills the meters, through any interleaving of *)
(* plan changes that may fail half way, renewals and webhooks.             *)
THEOREM SubscriptionKeepsMeters == SubSpec => []MetersKept
<1>1. Metered => MetersKept
  BY DEF Metered, MetersKept, Active, Subs
<1> QED  BY <1>1, MeteredInit, MeteredNext, SubBaseHolds, PTL DEF SubSpec

-----------------------------------------------------------------------------
(* The latest choice. Two subscriptions are active at once only when       *)
(* "doubled" says so; and while requests neither overlapped nor failed     *)
(* half way, what the request under way has done fits the step it is at.   *)
OneActive == ~doubled => \A i, j \in Subs : sub[i].active /\ sub[j].active => i = j

LEMMA OneActiveInit == SubInit => OneActive
  BY DEF SubInit, OneActive, NoSub, Subs

LEMMA OneActivePut ==
    ASSUME OneActive, NEW i \in Subs, sub[i].active, UNCHANGED doubled,
           \A j \in Subs \ {i} : sub'[j] = sub[j]
    PROVE  OneActive'
  BY DEF OneActive

LEMMA OneActiveNext == SubBase /\ OneActive /\ [SubNext]_subVars => OneActive'
<1> SUFFICES ASSUME SubBase, OneActive, [SubNext]_subVars PROVE OneActive'
    OBVIOUS
<1>1. ASSUME NEW p \in Paid, CheckoutCompleted(p) PROVE OneActive'
  <2>1. PICK i \in Subs : /\ \A j \in Subs \ {i} : sub'[j] = sub[j]
                          /\ doubled' = (doubled \/ Active # {})
    BY <1>1, CheckoutEffect
  <2>2. ~doubled' => Active = {}
    BY <2>1, Zenon
  <2>3. ~doubled' => \A j \in Subs \ {i} : ~sub'[j].active
    BY <2>1, <2>2 DEF Active, Subs
  <2> QED  BY <2>3 DEF OneActive
<1>2. ASSUME NEW i \in Subs, Renew(i) PROVE OneActive'
  BY <1>2, RenewEffect, OneActivePut
<1>3. ASSUME NEW c \in Change, NEW s, NEW pc, Written(c, s, pc), change[c].pc \in Steps
      PROVE  OneActive'
  <2>1. /\ change[c].sub \in Subs /\ sub[change[c].sub].active /\ UNCHANGED doubled
        /\ \A j \in Subs \ {change[c].sub} : sub'[j] = sub[j]
    BY <1>3, CallEffect DEF Written
  <2> QED  BY <2>1, OneActivePut
<1>4. ASSUME NEW c \in Change,
             \/ Uncancel(c) \/ ReleaseSchedule(c) \/ Cancel(c) \/ CreateSchedule(c)
             \/ SetPhases(c)
      PROVE  OneActive'
  <2>1. \E s, pc : Written(c, s, pc)
    BY <1>4, UncancelCall, ReleaseCall, CancelCall, ScheduleCall, PhasesCall
  <2>2. change[c].pc \in Steps
    BY <1>4 DEF Uncancel, ReleaseSchedule, Cancel, CreateSchedule, SetPhases, ChangeAt, Steps
  <2> QED  BY <1>3, <2>1, <2>2
<1>5. ASSUME NEW c \in Change, Upgrade(c) PROVE OneActive'
  <2>1. /\ change[c].sub \in Subs /\ sub[change[c].sub].active /\ UNCHANGED doubled
        /\ \A j \in Subs \ {change[c].sub} : sub'[j] = sub[j]
    BY <1>5, UpgradeEffect
  <2> QED  BY <2>1, OneActivePut
<1>6. ASSUME UNCHANGED <<sub, doubled>> PROVE OneActive'
  BY <1>6 DEF OneActive
<1>7. ASSUME NEW e \in events, Webhook(e) PROVE OneActive'
  BY <1>6, <1>7 DEF Webhook
<1>8. ASSUME NEW c \in Change,
             \/ Retrieve(c) \/ UpdateRow(c) \/ AnswerChange(c) \/ FailChange(c)
             \/ \E p \in Plan : BeginChange(c, p)
      PROVE  OneActive'
  BY <1>6, <1>8, RetrieveEffect, EndEffect, BeginEffect
<1>9. CASE (\E p \in Plan : AlreadyOnPlan(p)) \/ UNCHANGED subVars
  BY <1>6, <1>9 DEF subVars, AlreadyOnPlan, stripe, wsRow
<1> QED  BY <1>1, <1>2, <1>4, <1>5, <1>7, <1>8, <1>9 DEF SubNext, Subs

(* Where a request stands, q, and what its subscription s is then.         *)
Stage(q, s) ==
    /\ q.pc = "uncancel" => q.plan # 0 /\ q.held = s.held
    /\ q.pc = "release" /\ q.plan # 0 => ~s.cancel
    /\ q.pc = "cancel" => q.plan = 0
    /\ q.pc \in {"upgrade", "schedule"} => q.plan # 0 /\ ~s.cancel /\ ~s.held
    /\ q.pc = "phases" => ~s.cancel
    /\ q.pc = "row" => Outcome(s) = q.plan

Reached(c) ==
    /\ change[c].pc \in Steps \ {"retrieve"} /\ sub[change[c].sub].active
         => Stage(change[c], sub[change[c].sub])
    /\ change[c].pc = "row" => sub[change[c].sub].active
    /\ change[c].pc = "answer" =>
         \E i \in Subs : sub[i].active /\ Outcome(sub[i]) = change[c].plan

Alone(c) == \A d \in Change : change[d].pc # "idle" => d = c

Chosen == \A i \in Subs : sub[i].active => Outcome(sub[i]) = wish

Latest ==
    ~unclear /\ ~doubled =>
        /\ \A c \in Change : change[c].pc # "idle" => Alone(c) /\ Reached(c)
        /\ (\A c \in Change : change[c].pc \in {"idle", "retrieve"}) => Chosen

LEMMA LatestInit == SubInit => Latest
  BY DEF SubInit, Latest, Chosen, NoSub, NoChange, Subs

(* A step of the only request under way. *)
LEMMA LatestAlone ==
    ASSUME NEW c \in Change, Alone(c), \A d \in Change \ {c} : change'[d] = change[d],
           change'[c].pc # "idle" => Reached(c)',
           change'[c].pc \in {"idle", "retrieve"} => Chosen'
    PROVE  Latest'
<1>1. \A d \in Change \ {c} : change'[d].pc = "idle"
  BY DEF Alone
<1>2. \A d \in Change : change'[d].pc # "idle" => d = c /\ Alone(d)'
  BY <1>1 DEF Alone
<1> QED  BY <1>2 DEF Latest

LEMMA LatestCall ==
    ASSUME SubBase, NEW c \in Change, Alone(c), NEW s, NEW pc, Written(c, s, pc),
           change[c].pc \in Steps, pc \notin {"idle", "retrieve", "row"},
           IF pc = "answer" THEN Outcome(s) = change[c].plan
           ELSE \A q \in ChangeRecord :
                   q.pc = pc /\ q.plan = change[c].plan /\ q.held = change[c].held => Stage(q, s)
    PROVE  Latest'
<1>0. /\ s \in SubRecord /\ pc \in Steps \cup {"answer"} /\ s.active = TRUE
      /\ StripeCall(c, s, pc)
  BY DEF Written
<1>1. PICK i \in Subs : i = change[c].sub
  BY <1>0, CallEffect
<1>2. /\ SubBase' /\ sub'[i] = s
      /\ \A d \in Change \ {c} : change'[d] = change[d]
      /\ change'[c].pc = pc /\ change'[c].plan = change[c].plan
      /\ pc # "answer" => change'[c].sub = i /\ change'[c].held = change[c].held
  BY <1>0, <1>1, CallEffect
<1>3. Reached(c)'
  <2>1. CASE pc = "answer"
    <3>1. sub'[i].active /\ Outcome(sub[i])' = change'[c].plan
      BY <1>0, <1>2, <2>1 DEF Outcome
    <3> QED  BY <1>2, <2>1, <3>1 DEF Reached, Steps
  <2>2. CASE pc # "answer"
    <3>1. PICK q \in ChangeRecord : q = change'[c]
      BY <1>2 DEF SubBase, SubType
    <3>2. Stage(q, s)
      BY <1>2, <2>2, <3>1
    <3>3. Stage(change[c], sub[change[c].sub])'
      BY <1>2, <2>2, <3>1, <3>2 DEF Stage, Outcome
    <3> QED  BY <1>2, <2>2, <3>3 DEF Reached
  <2> QED  BY <2>1, <2>2
<1> QED  BY <1>2, <1>3, LatestAlone

LEMMA LatestNext == SubBase /\ OneActive /\ Latest /\ [SubNext]_subVars => Latest'
<1> SUFFICES ASSUME SubBase, OneActive, Latest, [SubNext]_subVars, ~unclear', ~doubled'
             PROVE  Latest'
    BY DEF Latest
<1>0. SubBase' /\ OneActive'
  BY SubBaseNext, OneActiveNext
<1>1. ASSUME NEW p \in Paid, CheckoutCompleted(p) PROVE Latest'
  <2>1. PICK i \in Subs : /\ sub[i] = NoSub /\ sub'[i].active = TRUE /\ sub'[i].cancel = FALSE
                          /\ sub'[i].held = FALSE /\ sub'[i].plan = p
                          /\ \A j \in Subs \ {i} : sub'[j] = sub[j]
                          /\ doubled' = (doubled \/ Active # {})
    BY <1>1, CheckoutEffect
  <2>2. ~doubled /\ Active = {}
    BY <2>1, Zenon
  <2>3. \A j \in Subs : ~sub[j].active
    BY <2>2 DEF Active, Subs
  <2>4. UNCHANGED <<change, unclear>> /\ wish' = p
    BY <1>1 DEF CheckoutCompleted
  <2>5. Chosen'
    BY <2>1, <2>3, <2>4 DEF Chosen, Outcome
  <2>6. \A c \in Change : change[c].pc # "idle" => Alone(c) /\ Reached(c)
    BY <2>2, <2>4 DEF Latest
  <2>7. ASSUME NEW c \in Change, change'[c].pc # "idle" PROVE Alone(c)' /\ Reached(c)'
    <3>1. Alone(c) /\ Reached(c) /\ change'[c] = change[c]
      BY <2>4, <2>6, <2>7
    <3>2. change[c].pc \notin {"row", "answer"}
      <4>1. change[c].pc = "row" => change[c].sub \in Subs
        BY DEF SubBase, Named, Exists, Steps
      <4> QED  BY <2>3, <3>1, <4>1 DEF Reached
    <3>3. change[c].pc \in Steps => ~sub'[change[c].sub].active
      <4>1. change[c].pc \in Steps => change[c].sub \in Subs /\ change[c].sub # i
        BY <2>1 DEF SubBase, Named, Exists
      <4> QED  BY <2>1, <2>3, <4>1
    <3>4. Alone(c)'
      BY <2>4, <3>1 DEF Alone
    <3> QED  BY <3>1, <3>2, <3>3, <3>4 DEF Reached
  <2> QED  BY <2>5, <2>7 DEF Latest
<1>2. ASSUME NEW i \in Subs, Renew(i) PROVE Latest'
  <2>1. /\ sub[i] \in SubRecord /\ sub[i].active /\ sub'[i] = Renewed(sub[i])
        /\ \A j \in Subs \ {i} : sub'[j] = sub[j]
        /\ UNCHANGED <<change, wish, doubled>>
    BY <1>2, RenewEffect DEF SubBase, SubType
  <2>2. unclear' = (unclear \/ \E c \in Change : change[c].pc # "idle")
    BY <1>2 DEF Renew
  <2>3. ~unclear /\ ~doubled /\ \A c \in Change : change[c].pc = "idle"
    <3>1. ~(unclear \/ \E c \in Change : change[c].pc # "idle")
      BY <2>2, Zenon
    <3> QED  BY <2>1, <3>1
  <2>4. Chosen
    BY <2>3 DEF Latest
  <2>5. sub'[i].active => Outcome(sub'[i]) = wish
    <3>1. sub'[i].active => ~sub[i].cancel
      BY <2>1, RenewedType
    <3>2. ~sub[i].cancel /\ ~sub[i].held => sub'[i] = sub[i]
      BY <2>1 DEF Renewed
    <3>3. ~sub[i].cancel /\ sub[i].held => /\ sub'[i].plan = sub[i].next
                                           /\ ~sub'[i].cancel /\ ~sub'[i].held
      <4>1. ~sub[i].cancel /\ sub[i].held => sub'[i].plan = sub[i].next
        BY <2>1 DEF Renewed, SubRecord
      <4> QED  BY <2>1, <4>1, RenewedType
    <3> QED  BY <2>1, <2>4, <3>1, <3>2, <3>3 DEF Chosen, Outcome
  <2>6. Chosen'
    BY <2>1, <2>4, <2>5 DEF Chosen, Outcome
  <2> QED  BY <2>1, <2>3, <2>6 DEF Latest
<1>3. ASSUME NEW c \in Change, NEW p \in Plan, BeginChange(c, p) PROVE Latest'
  <2>1. unclear' = (unclear \/ \E d \in Change : change[d].pc # "idle")
    BY <1>3 DEF BeginChange, ChangeAt
  <2>2. ~(unclear \/ \E d \in Change : change[d].pc # "idle")
    BY <2>1, Zenon
  <2>3. /\ change'[c].pc = "retrieve" /\ \A d \in Change \ {c} : change'[d] = change[d]
        /\ UNCHANGED <<sub, wish, doubled>>
    BY <1>3, BeginEffect DEF NoChange
  <2>4. Alone(c)
    BY <2>2 DEF Alone
  <2>5. Chosen
    BY <2>2, <2>3 DEF Latest
  <2>6. Chosen' /\ Reached(c)'
    BY <2>3, <2>5 DEF Chosen, Reached, Outcome
  <2> QED  BY <2>3, <2>4, <2>6, LatestAlone
<1>4. ASSUME NEW c \in Change, change[c].pc # "idle", ~unclear, ~doubled
      PROVE  Alone(c) /\ Reached(c)
  BY <1>4 DEF Latest
<1>5. ASSUME NEW c \in Change, Retrieve(c) PROVE Latest'
  <2>1. PICK s \in SubRecord : \E r \in ChangeRecord :
           /\ s = sub[change[c].sub] /\ change'[c] = r /\ r.held = s.held
           /\ r.plan = change[c].plan /\ r.sub = change[c].sub /\ r.pc = AfterRetrieve(c, s)
           /\ \A d \in Change \ {c} : change'[d] = change[d]
           /\ UNCHANGED <<sub, doubled, wish, unclear>>
    BY <1>5, RetrieveEffect
  <2>2. PICK r \in ChangeRecord :
           /\ s = sub[change[c].sub] /\ change'[c] = r /\ r.held = s.held
           /\ r.plan = change[c].plan /\ r.sub = change[c].sub /\ r.pc = AfterRetrieve(c, s)
           /\ \A d \in Change \ {c} : change'[d] = change[d]
           /\ UNCHANGED <<sub, doubled, wish, unclear>>
    BY <2>1
  <2>3. Alone(c)
    BY <1>4, <1>5, <2>2 DEF Retrieve, ChangeAt
  <2>4. r.pc \in {"uncancel", "release", "cancel", "upgrade", "schedule"} /\ Stage(r, s)
    BY <2>2, ThenStep DEF AfterRetrieve, AfterUncancel, Stage, SubBase
  <2>5. Stage(change[c], sub[change[c].sub])'
    BY <2>2, <2>4 DEF Stage, Outcome
  <2>6. Reached(c)'
    BY <2>2, <2>4, <2>5 DEF Reached
  <2> QED  BY <2>2, <2>3, <2>4, <2>6, LatestAlone
<1>6. ASSUME NEW c \in Change, NEW s, NEW pc, Written(c, s, pc), change[c].pc \in Steps \ {"retrieve"}
      PROVE  /\ ~unclear /\ ~doubled /\ Alone(c)
             /\ Stage(change[c], sub[change[c].sub])
  <2>1. sub[change[c].sub].active /\ UNCHANGED <<unclear, doubled>>
    BY <1>6, CallEffect DEF Written
  <2> QED  BY <1>4, <1>6, <2>1 DEF Reached, Steps
<1>7. ASSUME NEW c \in Change, Uncancel(c) PROVE Latest'
  <2>1. PICK s : \E pc \in Steps :
           /\ Written(c, s, pc) /\ pc = AfterUncancel(c, change[c])
           /\ s.cancel = FALSE /\ s.held = sub[change[c].sub].held
    BY <1>7, UncancelCall
  <2>2. PICK pc \in Steps :
           /\ Written(c, s, pc) /\ pc = AfterUncancel(c, change[c])
           /\ s.cancel = FALSE /\ s.held = sub[change[c].sub].held
    BY <2>1
  <2>3. change[c].pc = "uncancel"
    BY <1>7 DEF Uncancel, ChangeAt
  <2>4. Alone(c) /\ change[c].plan # 0 /\ change[c].held = s.held
    BY <1>6, <2>2, <2>3 DEF Stage, Steps
  <2>5. /\ pc \in {"release", "upgrade", "schedule"}
        /\ pc # "release" => ~s.held
    BY <2>2, <2>4, ThenStep DEF AfterUncancel, SubBase
  <2>6. \A q \in ChangeRecord : q.pc = pc /\ q.plan = change[c].plan => Stage(q, s)
    BY <2>2, <2>4, <2>5 DEF Stage
  <2> QED  BY <2>2, <2>3, <2>4, <2>5, <2>6, LatestCall DEF Steps
<1>8. ASSUME NEW c \in Change, ReleaseSchedule(c) PROVE Latest'
  <2>1. PICK s : \E pc \in Steps :
           /\ Written(c, s, pc) /\ pc = Then(c)
           /\ s.cancel = sub[change[c].sub].cancel /\ s.held = FALSE
    BY <1>8, ReleaseCall
  <2>2. PICK pc \in Steps :
           /\ Written(c, s, pc) /\ pc = Then(c)
           /\ s.cancel = sub[change[c].sub].cancel /\ s.held = FALSE
    BY <2>1
  <2>3. change[c].pc = "release"
    BY <1>8 DEF ReleaseSchedule, ChangeAt
  <2>4. Alone(c) /\ (change[c].plan # 0 => ~s.cancel)
    BY <1>6, <2>2, <2>3 DEF Stage, Steps
  <2>5. pc \in {"cancel", "upgrade", "schedule"} /\ (pc = "cancel" <=> change[c].plan = 0)
    BY <2>2, ThenStep DEF SubBase
  <2>6. \A q \in ChangeRecord : q.pc = pc /\ q.plan = change[c].plan => Stage(q, s)
    BY <2>2, <2>4, <2>5 DEF Stage
  <2> QED  BY <2>2, <2>3, <2>4, <2>5, <2>6, LatestCall DEF Steps
<1>9. ASSUME NEW c \in Change, Cancel(c) PROVE Latest'
  <2>1. PICK s : Written(c, s, "answer") /\ s.cancel = TRUE
    BY <1>9, CancelCall
  <2>2. change[c].pc = "cancel"
    BY <1>9 DEF Cancel, ChangeAt
  <2>3. Alone(c) /\ change[c].plan = 0
    BY <1>6, <2>1, <2>2 DEF Stage, Steps
  <2>4. Outcome(s) = change[c].plan
    BY <2>1, <2>3 DEF Outcome
  <2> QED  BY <2>1, <2>2, <2>3, <2>4, LatestCall DEF Steps
<1>10. ASSUME NEW c \in Change, CreateSchedule(c) PROVE Latest'
  <2>1. PICK s : Written(c, s, "phases") /\ s.cancel = sub[change[c].sub].cancel
    BY <1>10, ScheduleCall
  <2>2. change[c].pc = "schedule"
    BY <1>10 DEF CreateSchedule, ChangeAt
  <2>3. Alone(c) /\ ~s.cancel
    BY <1>6, <2>1, <2>2 DEF Stage, Steps
  <2>4. \A q \in ChangeRecord : q.pc = "phases" => Stage(q, s)
    BY <2>3 DEF Stage
  <2> QED  BY <2>1, <2>2, <2>3, <2>4, LatestCall DEF Steps
<1>11. ASSUME NEW c \in Change, SetPhases(c) PROVE Latest'
  <2>1. PICK s : /\ Written(c, s, "answer") /\ s.held = TRUE
                 /\ s.cancel = sub[change[c].sub].cancel /\ s.next = change[c].plan
    BY <1>11, PhasesCall
  <2>2. change[c].pc = "phases"
    BY <1>11 DEF SetPhases, ChangeAt
  <2>3. Alone(c) /\ ~s.cancel
    BY <1>6, <2>1, <2>2 DEF Stage, Steps
  <2>4. Outcome(s) = change[c].plan
    BY <2>1, <2>3 DEF Outcome
  <2> QED  BY <2>1, <2>2, <2>3, <2>4, LatestCall DEF Steps
<1>12. ASSUME NEW c \in Change, Upgrade(c) PROVE Latest'
  <2>1. PICK i \in Subs : i = change[c].sub
    BY <1>12, UpgradeEffect
  <2>2. PICK s \in SubRecord :
           /\ sub[i].active /\ s = [sub[i] EXCEPT !.plan = change[c].plan] /\ sub'[i] = s
           /\ \A d \in Change \ {c} : change'[d] = change[d]
           /\ change'[c] = [change[c] EXCEPT !.pc = "row", !.event = emitted + 1]
           /\ UNCHANGED <<unclear, doubled>>
    BY <1>12, <2>1, UpgradeEffect
  <2>3. /\ sub[i] \in SubRecord /\ change[c] \in ChangeRecord
        /\ change[c].pc = "upgrade"
    BY <1>12 DEF SubBase, SubType, Upgrade, ChangeAt
  <2>4. Alone(c) /\ ~sub[i].cancel /\ ~sub[i].held
    BY <1>4, <2>1, <2>2, <2>3 DEF Reached, Stage, Steps
  <2>5. change'[c].pc = "row" /\ change'[c].sub = i /\ change'[c].plan = change[c].plan
    BY <2>1, <2>2, <2>3 DEF ChangeRecord
  <2>6. s.active /\ s.plan = change[c].plan /\ ~s.cancel /\ ~s.held
    BY <2>2, <2>3, <2>4 DEF SubRecord, ChangeRecord
  <2>7. Reached(c)'
    BY <2>2, <2>5, <2>6 DEF Reached, Stage, Outcome
  <2> QED  BY <2>2, <2>4, <2>5, <2>7, LatestAlone
<1>13. ASSUME NEW c \in Change, UpdateRow(c) PROVE Latest'
  <2>1. /\ change[c].pc = "row" /\ change'[c].pc = "answer" /\ change'[c].plan = change[c].plan
        /\ \A d \in Change \ {c} : change'[d] = change[d]
        /\ UNCHANGED <<sub, doubled, unclear>>
    BY <1>13, EndEffect DEF UpdateRow, ChangeAt
  <2>2. Alone(c) /\ Reached(c)
    BY <1>4, <2>1
  <2>3. change[c].sub \in Subs
    BY <2>1 DEF SubBase, Named, Exists, Steps
  <2>4. Reached(c)'
    BY <2>1, <2>2, <2>3 DEF Reached, Stage, Outcome, Steps
  <2> QED  BY <2>1, <2>2, <2>4, LatestAlone
<1>14. ASSUME NEW c \in Change, AnswerChange(c) PROVE Latest'
  <2>1. /\ change[c].pc = "answer" /\ change'[c].pc = "idle" /\ wish' = change[c].plan
        /\ \A d \in Change \ {c} : change'[d] = change[d]
        /\ UNCHANGED <<sub, doubled, unclear>>
    BY <1>14, EndEffect DEF AnswerChange, UpdateRow, ChangeAt
  <2>2. Alone(c) /\ Reached(c)
    BY <1>4, <2>1
  <2>3. Chosen'
    BY <2>1, <2>2 DEF Reached, OneActive, Chosen, Outcome
  <2> QED  BY <2>1, <2>2, <2>3, LatestAlone
<1>15. ASSUME NEW c \in Change, FailChange(c) PROVE Latest'
  <2>1. unclear' = (unclear \/ ~(change[c].pc = "retrieve")) /\ UNCHANGED wish
    BY <1>15 DEF FailChange, ChangeAt
  <2>2. ~(unclear \/ ~(change[c].pc = "retrieve"))
    BY <2>1, Zenon
  <2>3. /\ change[c].pc = "retrieve" /\ change'[c].pc = "idle"
        /\ \A d \in Change \ {c} : change'[d] = change[d]
        /\ UNCHANGED <<sub, doubled>>
    BY <1>15, <2>2, EndEffect DEF UpdateRow, ChangeAt
  <2>4. Alone(c)
    BY <1>4, <2>2, <2>3
  <2>5. Chosen
    <3>1. \A d \in Change : change[d].pc \in {"idle", "retrieve"}
      BY <2>3, <2>4 DEF Alone
    <3> QED  BY <2>2, <2>3, <3>1 DEF Latest
  <2>6. Chosen'
    BY <2>1, <2>3, <2>5 DEF Chosen, Outcome
  <2> QED  BY <2>3, <2>4, <2>6, LatestAlone
<1>16. ASSUME UNCHANGED <<sub, change, wish, unclear, doubled>> PROVE Latest'
  <2>1. Latest' <=> Latest
    BY <1>16 DEF Latest, Alone, Reached, Chosen, Stage, Outcome
  <2> QED  BY <2>1
<1>17. ASSUME NEW e \in events, Webhook(e) PROVE Latest'
  BY <1>16, <1>17, WebhookEffect
<1>18. CASE (\E p \in Plan : AlreadyOnPlan(p)) \/ UNCHANGED subVars
  BY <1>16, <1>18 DEF subVars, AlreadyOnPlan, stripe, wsRow
<1> QED  BY <1>1, <1>2, <1>3, <1>5, <1>7, <1>8, <1>9, <1>10, <1>11, <1>12, <1>13, <1>14, <1>15,
            <1>17, <1>18
         DEF SubNext, Subs

(* With no request under way the subscription will become what the last    *)
(* checkout or answered request for another plan than the row's asked for, *)
(* whatever was pending before, unless requests overlapped, failed half    *)
(* way or met a renewal, or two subscriptions were active; a request for   *)
(* the row's own plan, which is answered OK, changes nothing of it.        *)
THEOREM LatestChoiceHolds == SubSpec => []LatestChoiceCounts
<1>1. Latest => LatestChoiceCounts
  BY DEF Latest, Chosen, LatestChoiceCounts, ChangeAt, Active, Subs
<1> QED  BY <1>1, LatestInit, LatestNext, OneActiveInit, OneActiveNext, SubBaseHolds, PTL
         DEF SubSpec

-----------------------------------------------------------------------------
(* The row. An event newer than all that were delivered may still be, so   *)
(* none is lost; the newest one says what Stripe holds now; and when it    *)
(* was delivered, and no write undid a newer one, so does the row.         *)
Newest(e) ==
    /\ e.plan = sub[e.sub].plan
    /\ e.kind = "updated" <=> sub[e.sub].active
    /\ ~doubled => \A j \in Subs \ {e.sub} : ~sub[j].active

RowMatches ==
    IF \A i \in Subs : ~sub[i].active THEN dbPlan = 0 /\ dbSub = 0
    ELSE \E i \in Subs : sub[i].active /\ dbSub = i /\ dbPlan = sub[i].plan

Numbered ==
    /\ seen <= emitted
    /\ \A e \in events : e.n <= emitted
    /\ \A n \in Nat : seen < n /\ n <= emitted => \E e \in events : e.n = n
    /\ \A c \in Change : change[c].pc = "row" => change[c].event <= emitted

Current ==
    /\ \A e \in events : e.n = emitted => Newest(e)
    /\ \A c \in Change : change[c].pc = "row" /\ change[c].event = emitted =>
          sub[change[c].sub].active /\ sub[change[c].sub].plan = change[c].plan
    /\ ~disorder /\ ~doubled /\ seen = emitted => RowMatches

RowInv == Numbered /\ Current

LEMMA RowInit == SubInit => RowInv
  BY DEF SubInit, RowInv, Numbered, Current, RowMatches, NoSub, NoChange, Subs

(* Stripe changes subscription i and emits the event of it.                *)
LEMMA RowPut ==
    ASSUME SubBase, OneActive, RowInv, NEW i \in Subs, NEW s \in SubRecord, Put(i, s),
           ~doubled' => ~doubled /\ (sub[i].active \/ Active = {}),
           seen' = seen,
           \A c \in Change : change'[c].pc = "row" =>
               \/ change'[c] = change[c]
               \/ /\ change'[c].event = emitted + 1 /\ change'[c].sub = i
                  /\ s.active /\ s.plan = change'[c].plan
    PROVE  RowInv'
<1>1. PICK e : e = [n |-> emitted + 1, sub |-> i, plan |-> s.plan,
                    kind |-> IF s.active THEN "updated" ELSE "deleted"]
  OBVIOUS
<1>2. /\ sub'[i] = s /\ \A j \in Subs \ {i} : sub'[j] = sub[j]
      /\ emitted' = emitted + 1 /\ events' = events \cup {e}
  BY <1>1, PutEffect DEF SubBase
<1>3. emitted \in Nat /\ seen \in Nat /\ \A d \in events : d.n \in Nat
  BY DEF SubBase, SubType
<1>4. seen < emitted' /\ \A d \in events : d.n < emitted'
  BY <1>2, <1>3 DEF RowInv, Numbered
<1>5. e.n = emitted + 1 /\ e.sub = i /\ e.plan = s.plan /\ (e.kind = "updated" <=> s.active)
  BY <1>1
<1>6. Numbered'
  <2>1. \A d \in events' : d.n <= emitted'
    BY <1>2, <1>3, <1>4, <1>5
  <2>2. ASSUME NEW n \in Nat, seen < n, n <= emitted' PROVE \E d \in events' : d.n = n
    <3>1. CASE n = emitted + 1
      BY <1>2, <1>5, <3>1
    <3>2. CASE n <= emitted
      BY <1>2, <2>2, <3>2 DEF RowInv, Numbered
    <3> QED  BY <1>2, <1>3, <2>2, <3>1, <3>2
  <2>3. \A c \in Change : change'[c].pc = "row" => change'[c].event <= emitted'
    <3> SUFFICES ASSUME NEW c \in Change, change'[c].pc = "row" PROVE change'[c].event <= emitted'
        OBVIOUS
    <3>1. CASE change'[c] = change[c]
      <4>1. change[c].event \in Nat /\ change[c].event <= emitted
        BY <3>1 DEF SubBase, SubType, ChangeRecord, RowInv, Numbered
      <4> QED  BY <1>2, <1>3, <3>1, <4>1
    <3>2. CASE change'[c].event = emitted + 1
      BY <1>2, <1>3, <3>2
    <3> QED  BY <3>1, <3>2
  <2>4. seen' <= emitted'
    BY <1>2, <1>3, <1>4
  <2>5. \A n \in Nat : seen' < n /\ n <= emitted' => \E d \in events' : d.n = n
    BY <2>2
  <2> QED  BY <2>1, <2>3, <2>4, <2>5 DEF Numbered
<1>7. Newest(e)'
  <2>1. ~doubled' => \A j \in Subs \ {i} : ~sub'[j].active
    BY <1>2 DEF OneActive, Active, Subs
  <2> QED  BY <1>2, <1>5, <2>1 DEF Newest
<1>8. Current'
  <2>1. ASSUME NEW c \in Change, change'[c].pc = "row", change'[c].event = emitted'
        PROVE  sub'[change'[c].sub].active /\ sub'[change'[c].sub].plan = change'[c].plan
    <3>1. change'[c] # change[c]
      <4> SUFFICES ASSUME change'[c] = change[c] PROVE FALSE
          OBVIOUS
      <4>1. change[c].event \in Nat /\ change[c].event <= emitted
        BY <2>1 DEF SubBase, SubType, ChangeRecord, RowInv, Numbered
      <4> QED  BY <1>2, <1>3, <2>1, <4>1
    <3> QED  BY <1>2, <2>1, <3>1
  <2>2. \A d \in events' : d.n = emitted' => Newest(d)'
    BY <1>2, <1>3, <1>4, <1>7
  <2> QED  BY <1>3, <1>4, <2>1, <2>2 DEF Current
<1> QED  BY <1>6, <1>8 DEF RowInv

(* Steps of requests that leave Stripe and the row alone.                  *)
LEMMA RowRequest ==
    ASSUME RowInv, UNCHANGED <<sub, events, emitted, doubled, dbPlan, dbSub, seen, disorder>>,
           \A c \in Change : change'[c].pc = "row" => change'[c] = change[c]
    PROVE  RowInv'
<1>1. Numbered'
  BY DEF RowInv, Numbered
<1>2. RowMatches' <=> RowMatches
  BY DEF RowMatches
<1>3. \A e : Newest(e)' <=> Newest(e)
  BY DEF Newest
<1>4. Current'
  BY <1>2, <1>3 DEF RowInv, Current
<1> QED  BY <1>1, <1>4 DEF RowInv

LEMMA RowNext == SubBase /\ OneActive /\ RowInv /\ [SubNext]_subVars => RowInv'
<1> SUFFICES ASSUME SubBase, OneActive, RowInv, [SubNext]_subVars PROVE RowInv'
    OBVIOUS
<1>1. ASSUME NEW p \in Paid, CheckoutCompleted(p) PROVE RowInv'
  <2>1. PICK s : s = [NoSub EXCEPT !.active = TRUE, !.plan = p, !.meters = TRUE]
    OBVIOUS
  <2>2. PICK i \in Subs : Put(i, s)
    BY <1>1, <2>1 DEF CheckoutCompleted, Subs
  <2>3. s \in SubRecord
    <3>1. p \in Plan
      BY DEF Paid, Plan
    <3> QED  BY <2>1, <3>1, NoSubType DEF SubRecord, NoSub
  <2>4. doubled' = (doubled \/ Active # {})
    BY <1>1 DEF CheckoutCompleted
  <2>5. ~doubled' => ~doubled /\ Active = {}
    BY <2>4, Zenon
  <2>6. UNCHANGED <<change, seen>>
    BY <1>1 DEF CheckoutCompleted, wsRow
  <2> QED  BY <2>2, <2>3, <2>5, <2>6, RowPut
<1>2. ASSUME NEW i \in Subs, Renew(i) PROVE RowInv'
  <2>1. Put(i, Renewed(sub[i])) /\ Renewed(sub[i]) \in SubRecord /\ sub[i].active
    BY <1>2, RenewedType DEF Renew, SubBase, SubType
  <2>2. UNCHANGED <<change, doubled, seen>>
    BY <1>2, RenewEffect
  <2>3. ~doubled' => ~doubled /\ (sub[i].active \/ Active = {})
    BY <2>1, <2>2, Zenon
  <2> QED  BY <2>1, <2>2, <2>3, RowPut
<1>3. ASSUME NEW c \in Change, NEW s, NEW pc, Written(c, s, pc), change[c].pc \in Steps,
             pc # "row"
      PROVE  RowInv'
  <2>1. /\ change[c].sub \in Subs /\ sub[change[c].sub].active /\ UNCHANGED <<doubled, seen>>
        /\ \A d \in Change \ {c} : change'[d] = change[d]
        /\ change'[c].pc = pc
    BY <1>3, CallEffect DEF Written
  <2>2. s \in SubRecord /\ Put(change[c].sub, s)
    BY <1>3 DEF Written, StripeCall
  <2> QED  BY <1>3, <2>1, <2>2, RowPut
<1>4. ASSUME NEW c \in Change,
             \/ Uncancel(c) \/ ReleaseSchedule(c) \/ Cancel(c) \/ CreateSchedule(c)
             \/ SetPhases(c)
      PROVE  RowInv'
  <2>1. change[c].pc \in Steps
    BY <1>4 DEF Uncancel, ReleaseSchedule, Cancel, CreateSchedule, SetPhases, ChangeAt, Steps
  <2>2. AfterUncancel(c, change[c]) # "row" /\ Then(c) # "row"
    BY ThenStep DEF AfterUncancel, SubBase
  <2>3. CASE Uncancel(c)
    <3>1. PICK s, pc : Written(c, s, pc) /\ pc = AfterUncancel(c, change[c])
      BY <2>3, UncancelCall
    <3> QED  BY <1>3, <2>1, <2>2, <3>1
  <2>4. CASE ReleaseSchedule(c)
    <3>1. PICK s, pc : Written(c, s, pc) /\ pc = Then(c)
      BY <2>4, ReleaseCall
    <3> QED  BY <1>3, <2>1, <2>2, <3>1
  <2>5. CASE Cancel(c)
    <3>1. PICK s : Written(c, s, "answer")
      BY <2>5, CancelCall
    <3> QED  BY <1>3, <2>1, <3>1
  <2>6. CASE CreateSchedule(c)
    <3>1. PICK s : Written(c, s, "phases")
      BY <2>6, ScheduleCall
    <3> QED  BY <1>3, <2>1, <3>1
  <2>7. CASE SetPhases(c)
    <3>1. PICK s : Written(c, s, "answer")
      BY <2>7, PhasesCall
    <3> QED  BY <1>3, <2>1, <3>1
  <2> QED  BY <1>4, <2>3, <2>4, <2>5, <2>6, <2>7
<1>5. ASSUME NEW c \in Change, Upgrade(c) PROVE RowInv'
  <2>1. PICK i \in Subs : i = change[c].sub /\ sub[i].active
    BY <1>5, UpgradeEffect
  <2>2. PICK s \in SubRecord :
           /\ s = [sub[i] EXCEPT !.plan = change[c].plan]
           /\ \A d \in Change \ {c} : change'[d] = change[d]
           /\ change'[c] = [change[c] EXCEPT !.pc = "row", !.event = emitted + 1]
           /\ UNCHANGED <<seen, doubled>>
    BY <1>5, <2>1, UpgradeEffect
  <2>3. sub[i] \in SubRecord /\ change[c] \in ChangeRecord /\ sub[i].active = TRUE
    BY <2>1 DEF SubBase, SubType, SubRecord
  <2>4. Put(i, s)
    BY <1>5, <2>1, <2>2 DEF Upgrade
  <2>5. change'[c].event = emitted + 1 /\ change'[c].sub = i /\ change'[c].plan = change[c].plan
    BY <2>1, <2>2, <2>3 DEF ChangeRecord
  <2>6. s.active /\ s.plan = change[c].plan
    BY <2>2, <2>3 DEF SubRecord, ChangeRecord
  <2>7. ~doubled' => ~doubled /\ (sub[i].active \/ Active = {})
    BY <2>1, <2>2, Zenon
  <2>8. i \in Subs /\ seen' = seen
    BY <1>5, <2>1, <2>2, UpgradeEffect
  <2>9. \A d \in Change : change'[d].pc = "row" =>
           \/ change'[d] = change[d]
           \/ /\ change'[d].event = emitted + 1 /\ change'[d].sub = i
              /\ s.active /\ s.plan = change'[d].plan
    BY <2>2, <2>5, <2>6
  <2> QED  BY <2>4, <2>7, <2>8, <2>9, RowPut
<1>6. ASSUME NEW e \in events, Webhook(e) PROVE RowInv'
  <2>1. /\ e.n \in Nat /\ seen \in Nat /\ emitted \in Nat /\ Exists(e.sub) /\ e.n <= emitted
        /\ e.kind \in {"updated", "deleted"}
    BY DEF SubBase, SubType, Named, RowInv, Numbered
  <2>2. /\ \/ e.kind = "deleted" /\ dbPlan' = 0 /\ dbSub' = 0
           \/ e.kind = "updated" /\ dbPlan' \in {e.plan, sub[e.sub].plan} /\ dbSub' = e.sub
        /\ seen' = IF e.n > seen THEN e.n ELSE seen
        /\ events' \in {events, events \ {e}}
        /\ UNCHANGED <<sub, emitted, change, doubled>>
    BY <1>6, WebhookEffect
  <2>3. ~disorder' => ~disorder /\ ~(e.n <= seen)
    <3>1. disorder' = (disorder \/ e.n <= seen)
      BY <1>6, WebhookEffect, Zenon
    <3> QED  BY <3>1, Zenon
  <2>4. Numbered'
    <3>1. seen' <= emitted' /\ \A d \in events' : d.n <= emitted'
      BY <2>1, <2>2 DEF RowInv, Numbered
    <3>2. ASSUME NEW n \in Nat, seen' < n, n <= emitted' PROVE \E d \in events' : d.n = n
      <4>1. PICK d \in events : d.n = n
        BY <2>1, <2>2, <3>2 DEF RowInv, Numbered
      <4>2. d # e
        BY <2>1, <2>2, <3>2, <4>1
      <4> QED  BY <2>2, <4>1, <4>2
    <3> QED  BY <2>2, <3>1, <3>2 DEF RowInv, Numbered
  <2>5. ASSUME ~disorder', ~doubled', seen' = emitted' PROVE RowMatches'
    <3>1. e.n = emitted /\ ~doubled
      BY <2>1, <2>2, <2>3, <2>5
    <3>2. Newest(e)
      BY <3>1 DEF RowInv, Current
    <3>3. CASE e.kind = "deleted"
      <4>1. \A j \in Subs : ~sub'[j].active
        BY <2>2, <3>1, <3>2, <3>3 DEF Newest
      <4> QED  BY <2>2, <3>3, <4>1 DEF RowMatches
    <3>4. CASE e.kind = "updated"
      <4>1. sub'[e.sub].active /\ dbSub' = e.sub /\ dbPlan' = sub'[e.sub].plan /\ e.sub \in Subs
        BY <2>1, <2>2, <3>2, <3>4 DEF Newest, Exists
      <4> QED  BY <4>1 DEF RowMatches
    <3> QED  BY <2>1, <3>3, <3>4
  <2>6. Current'
    <3>1. \A d : Newest(d)' <=> Newest(d)
      BY <2>2 DEF Newest
    <3> QED  BY <2>2, <2>5, <3>1 DEF RowInv, Current
  <2> QED  BY <2>4, <2>6 DEF RowInv
<1>7. ASSUME NEW c \in Change, NEW p \in Plan, BeginChange(c, p) PROVE RowInv'
  <2>1. change'[c].pc # "row"
    BY <1>7, BeginEffect DEF NoChange
  <2> QED  BY <1>7, <2>1, BeginEffect, RowRequest
<1>8. ASSUME NEW c \in Change, Retrieve(c) PROVE RowInv'
  <2>1. \A s : AfterRetrieve(c, s) # "row"
    BY ThenStep DEF AfterRetrieve, AfterUncancel, SubBase
  <2>2. /\ change'[c].pc # "row" /\ \A d \in Change \ {c} : change'[d] = change[d]
        /\ UNCHANGED <<sub, events, emitted, doubled, dbPlan, dbSub, seen, disorder>>
    BY <1>8, <2>1, RetrieveEffect
  <2> QED  BY <2>2, RowRequest
<1>9. ASSUME NEW c \in Change, AnswerChange(c) \/ FailChange(c), ~UpdateRow(c) PROVE RowInv'
  <2>1. /\ change'[c].pc = "idle" /\ \A d \in Change \ {c} : change'[d] = change[d]
        /\ UNCHANGED <<sub, events, emitted, doubled, dbPlan, dbSub, seen, disorder>>
    BY <1>9, EndEffect
  <2> QED  BY <2>1, RowRequest
<1>10. ASSUME NEW c \in Change, UpdateRow(c) PROVE RowInv'
  <2>1. /\ change'[c].pc = "answer" /\ \A d \in Change \ {c} : change'[d] = change[d]
        /\ UNCHANGED <<sub, events, emitted, doubled, dbSub, seen>>
    BY <1>10, EndEffect
  <2>2. /\ change[c].pc = "row" /\ change[c].event \in Nat /\ change[c].event <= emitted
        /\ dbPlan' = change[c].plan /\ change[c].sub \in Subs
        /\ seen \in Nat /\ emitted \in Nat
    BY <1>10
       DEF UpdateRow, ChangeAt, SubBase, SubType, Named, Exists, ChangeRecord, RowInv, Numbered,
           Steps
  <2>3. ~disorder' => ~disorder /\ ~(change[c].event < seen)
    <3>1. disorder' = (disorder \/ change[c].event < seen)
      BY <1>10 DEF UpdateRow
    <3> QED  BY <3>1, Zenon
  <2>4. ASSUME ~disorder', ~doubled', seen' = emitted' PROVE RowMatches'
    <3>1. change[c].event = emitted /\ RowMatches /\ ~doubled
      BY <2>1, <2>2, <2>3, <2>4 DEF RowInv, Current
    <3>2. sub[change[c].sub].active /\ sub[change[c].sub].plan = change[c].plan
      BY <2>2, <3>1 DEF RowInv, Current
    <3>3. dbSub = change[c].sub
      BY <2>2, <3>1, <3>2 DEF RowMatches, OneActive
    <3> QED  BY <2>1, <2>2, <3>2, <3>3 DEF RowMatches
  <2>5. Numbered'
    BY <2>1 DEF RowInv, Numbered
  <2>6. Current'
    <3>1. \A e : Newest(e)' <=> Newest(e)
      BY <2>1 DEF Newest
    <3> QED  BY <2>1, <2>4, <3>1 DEF RowInv, Current
  <2> QED  BY <2>5, <2>6 DEF RowInv
<1>11. CASE (\E p \in Plan : AlreadyOnPlan(p)) \/ UNCHANGED subVars
  BY <1>11, RowRequest DEF subVars, AlreadyOnPlan, stripe, wsRow
<1> QED  BY <1>1, <1>2, <1>4, <1>5, <1>6, <1>7, <1>8, <1>9, <1>10, <1>11 DEF SubNext, Subs

(* When every event was delivered and no write undid a newer one, the row  *)
(* names the active subscription and its plan, and FREE without one, for   *)
(* any interleaving of plan changes, renewals and repeated webhooks.       *)
THEOREM RowFollows == SubSpec => []RowFollowsStripe
<1>1. SubBase /\ RowInv => RowFollowsStripe
  <2> SUFFICES ASSUME SubBase, RowInv, events = {}, ~disorder, ~doubled
               PROVE  IF Active = {} THEN dbPlan = 0 /\ dbSub = 0
                      ELSE \E i \in Active : dbSub = i /\ dbPlan = sub[i].plan
      BY DEF RowFollowsStripe
  <2>1. seen = emitted
    BY DEF SubBase, SubType, RowInv, Numbered
  <2> QED  BY <2>1 DEF RowInv, Current, RowMatches, Active, Subs
<1> QED  BY <1>1, RowInit, RowNext, OneActiveInit, OneActiveNext, SubBaseHolds, PTL DEF SubSpec

-----------------------------------------------------------------------------
(* The members. A request's record only says what it was authorised for    *)
(* and what it read; what the row it holds or the admins it counted have    *)
(* become since is in "held" and "stale".                                  *)
ReqOp == {"none", "invite", "add", "update", "remove", "cancel", "delete", "accept"}

ReqRecord == [pc : {"idle", "authorized", "checked"}, op : ReqOp, self : BOOLEAN,
              who : User \cup {Nobody}, role : Role \cup {Nobody}, held : BOOLEAN,
              stale : BOOLEAN]

RoleOp == {"update", "remove"}

(* Another user than the target is an admin. *)
AdminBeside(v) == \E u \in Admins : u # v

(* What the request was authorised and checked for. *)
Given(q) ==
    /\ q.op \notin {"none", "delete"} => q.who \in User
    /\ q.op \in {"invite", "add", "update"} => q.role \in Role
    /\ q.pc = "checked" /\ q.op = "accept" => q.role \in Role

(* The row that it holds is there, and unless the admins changed under it  *)
(* its change of roles leaves one.                                         *)
StillTrue(q) ==
    q.op \in RoleOp =>
        /\ q.pc = "checked" /\ q.held => member[q.who] # Nobody
        /\ q.pc # "idle" /\ Open /\ ~q.stale =>
              /\ ~q.self => AdminBeside(q.who)
              /\ q.pc = "checked" =>
                    \/ AdminBeside(q.who)
                    \/ member[q.who] # "ADMIN"
                    \/ q.op = "update" /\ q.role = "ADMIN"

(* Nobody is there before the workspace is. *)
Founding ==
    workspace = "none" => /\ \A u \in User : member[u] = Nobody
                          /\ \A r \in Req : req[r] = NoReq

MembersInv ==
    /\ MembersTypeOK /\ Founding
    /\ \A r \in Req : Given(req[r]) /\ StillTrue(req[r])

LEMMA NoReqType ==
    /\ NoReq \in ReqRecord /\ Given(NoReq) /\ NoReq.op = "none" /\ NoReq.pc = "idle"
    /\ Nobody \notin User /\ Nobody \notin Role
  BY MembersAssumption DEF NoReq, ReqRecord, ReqOp, Given, Role

LEMMA RoleGiven == OfferedRole \subseteq Role
  BY MembersAssumption DEF Role

LEMMA MembersTypes ==
    MembersTypeOK <=>
        /\ workspace \in {"none", "open", "deleted"} /\ limited \in BOOLEAN
        /\ member \in [User -> Role \cup {Nobody}]
        /\ invited \in [User -> Role \cup {Nobody}]
        /\ excess \in Nat
        /\ req \in [Req -> ReqRecord]
  BY DEF MembersTypeOK, ReqRecord, ReqOp

LEMMA MembersInvInit == MembersInit => MembersInv
<1> SUFFICES ASSUME MembersInit PROVE MembersInv
    OBVIOUS
<1>1. MembersTypeOK
  BY NoReqType, MembersTypes DEF MembersInit
<1>2. Founding
  BY DEF MembersInit, Founding
<1>3. ASSUME NEW r \in Req PROVE Given(req[r]) /\ StillTrue(req[r])
  <2>1. req[r] = NoReq
    BY DEF MembersInit
  <2> QED  BY <2>1, NoReqType DEF StillTrue, RoleOp
<1> QED  BY <1>1, <1>2, <1>3 DEF MembersInv

(* What a step of request r leaves of another request q.                   *)
Same(q) ==
    /\ req'[q] \in ReqRecord
    /\ req'[q].pc = req[q].pc /\ req'[q].op = req[q].op /\ req'[q].self = req[q].self
    /\ req'[q].who = req[q].who /\ req'[q].role = req[q].role
    /\ req'[q].held = TRUE => req[q].held = TRUE
    /\ req'[q].stale = FALSE => req[q].stale = FALSE

LEMMA AnswerEffect ==
    ASSUME MembersInv, NEW r \in Req, Answer(r)
    PROVE  /\ req' \in [Req -> ReqRecord] /\ req'[r] = NoReq
           /\ \A q \in Req \ {r} : req'[q] = req[q] /\ Same(q)
<1>1. req \in [Req -> ReqRecord] /\ NoReq \in ReqRecord
  BY MembersTypes, NoReqType DEF MembersInv
<1>2. /\ req' \in [Req -> ReqRecord] /\ req'[r] = NoReq
      /\ \A q \in Req \ {r} : req'[q] = req[q]
  BY <1>1 DEF Answer
<1>3. \A q \in Req \ {r} : Same(q)
  BY <1>1, <1>2 DEF Same
<1> QED  BY <1>2, <1>3

LEMMA DropEffect ==
    ASSUME MembersInv, NEW r \in Req, NEW ops, NEW v, AnswerAndDrop(r, ops, v)
    PROVE  /\ req' \in [Req -> ReqRecord] /\ req'[r] = NoReq
           /\ \A q \in Req \ {r} :
                 /\ Same(q)
                 /\ req'[q].held = TRUE => ~(req[q].op \in ops /\ req[q].who = v)
                 /\ req'[q].stale = FALSE /\ req[q].op \in RoleOp => Admins' = Admins
<1>1. req \in [Req -> ReqRecord] /\ NoReq \in ReqRecord
  BY MembersTypes, NoReqType DEF MembersInv
<1>2. ASSUME NEW q \in Req \ {r}
      PROVE  /\ Same(q)
             /\ req'[q].held = TRUE => ~(req[q].op \in ops /\ req[q].who = v)
             /\ req'[q].stale = FALSE /\ req[q].op \in RoleOp => Admins' = Admins
  <2>1. req[q] \in ReqRecord
    BY <1>1
  <2>2. PICK h : h = (req[q].held /\ ~(req[q].op \in ops /\ req[q].who = v))
    OBVIOUS
  <2>3. PICK t : t = (req[q].stale \/ (req[q].op \in RoleOp /\ Admins' # Admins))
    OBVIOUS
  <2>4. req'[q] = [req[q] EXCEPT !.held = h, !.stale = t]
    BY <2>2, <2>3 DEF AnswerAndDrop, RoleOp
  <2>5. req[q].held \in BOOLEAN /\ req[q].stale \in BOOLEAN
    BY <2>1 DEF ReqRecord
  <2>6. h \in BOOLEAN /\ (h = TRUE => req[q].held = TRUE /\ ~(req[q].op \in ops /\ req[q].who = v))
    BY <2>2, <2>5
  <2>7. t \in BOOLEAN /\ (t = FALSE => /\ req[q].stale = FALSE
                                       /\ req[q].op \in RoleOp => Admins' = Admins)
    BY <2>3, <2>5
  <2>8. /\ req'[q] \in ReqRecord /\ req'[q].held = h /\ req'[q].stale = t
        /\ req'[q].pc = req[q].pc /\ req'[q].op = req[q].op /\ req'[q].self = req[q].self
        /\ req'[q].who = req[q].who /\ req'[q].role = req[q].role
    BY <2>1, <2>4, <2>6, <2>7 DEF ReqRecord
  <2> QED  BY <2>6, <2>7, <2>8 DEF Same
<1>3. req'[r] = NoReq
  BY DEF AnswerAndDrop
<1>4. \A q \in Req : req'[q] \in ReqRecord
  BY <1>1, <1>2, <1>3 DEF Same
<1>5. req' = [q \in Req |-> req'[q]]
  BY DEF AnswerAndDrop
<1> QED  BY <1>2, <1>3, <1>4, <1>5

(* A request is as good as before when the row it holds is not deleted and *)
(* the admins are the same unless it is stale.                             *)
LEMMA RequestKept ==
    ASSUME MembersInv, NEW q \in Req, Same(q),
           workspace' = workspace \/ ~Open',
           req'[q].held = TRUE /\ req[q].op \in RoleOp /\ member[req[q].who] # Nobody
               => member'[req[q].who] # Nobody,
           req'[q].stale = FALSE /\ req[q].op \in RoleOp /\ Open' => Admins' = Admins,
           member' \in [User -> Role \cup {Nobody}]
    PROVE  Given(req[q])' /\ StillTrue(req[q])'
<1>1. req[q] \in ReqRecord /\ req'[q] \in ReqRecord
  BY MembersTypes DEF MembersInv, Same
<1>2. Given(req[q]) /\ StillTrue(req[q])
  BY DEF MembersInv
<1>3. /\ req[q].held \in BOOLEAN /\ req[q].stale \in BOOLEAN
      /\ req'[q].held \in BOOLEAN /\ req'[q].stale \in BOOLEAN
  BY <1>1 DEF ReqRecord
<1>4. Given(req[q])'
  BY <1>2 DEF Given, Same
<1>5. ASSUME req[q].op \in RoleOp PROVE req[q].who \in User
  BY <1>2, <1>5 DEF Given, RoleOp
<1>6. StillTrue(req[q])'
  <2> SUFFICES ASSUME req[q].op \in RoleOp PROVE StillTrue(req[q])'
      BY DEF StillTrue, Same
  <2>1. req'[q].pc = "checked" /\ req'[q].held => member'[req'[q].who] # Nobody
    BY <1>2, <1>3 DEF StillTrue, Same
  <2>2. ASSUME req'[q].pc # "idle", Open', ~req'[q].stale
        PROVE  /\ ~req'[q].self => AdminBeside(req[q].who)'
               /\ req'[q].pc = "checked" =>
                     \/ AdminBeside(req[q].who)'
                     \/ member'[req'[q].who] # "ADMIN"
                     \/ req'[q].op = "update" /\ req'[q].role = "ADMIN"
    <3>1. req'[q].stale = FALSE /\ req[q].stale = FALSE
      BY <1>3, <2>2 DEF Same
    <3>2. Admins' = Admins /\ Open
      BY <2>2, <3>1 DEF Open
    <3>3. \A v : AdminBeside(v)' <=> AdminBeside(v)
      BY <3>2 DEF AdminBeside
    <3>4. member'[req[q].who] = "ADMIN" <=> member[req[q].who] = "ADMIN"
      BY <1>5, <3>2 DEF Admins
    <3>5. /\ ~req[q].self => AdminBeside(req[q].who)
          /\ req[q].pc = "checked" =>
                \/ AdminBeside(req[q].who)
                \/ member[req[q].who] # "ADMIN"
                \/ req[q].op = "update" /\ req[q].role = "ADMIN"
      BY <1>2, <2>2, <3>1, <3>2 DEF StillTrue, Same
    <3> QED  BY <3>3, <3>4, <3>5 DEF Same
  <2> QED  BY <2>1, <2>2 DEF StillTrue
<1> QED  BY <1>4, <1>6

LEMMA SeveralAdmins ==
    ASSUME NEW v, Cardinality(Admins) > 1
    PROVE  AdminBeside(v)
<1> SUFFICES ASSUME ~AdminBeside(v) PROVE FALSE
    OBVIOUS
<1>1. Admins \in SUBSET {v}
  BY DEF AdminBeside
<1>2. IsFiniteSet({v}) /\ Cardinality({v}) = 1
  BY FS_Singleton
<1>3. IsFiniteSet(Admins) /\ Cardinality(Admins) <= 1
  BY <1>1, <1>2, FS_Subset
<1>4. Cardinality(Admins) \in Nat
  BY <1>3, FS_CardinalityType
<1> QED  BY <1>3, <1>4

(* A step that only changes what request r knows.                          *)
LEMMA RequestSet ==
    ASSUME MembersInv, NEW r \in Req, NEW p \in ReqRecord, req' = [req EXCEPT ![r] = p],
           UNCHANGED <<workspace, limited, member, invited, excess>>,
           Open \/ p = NoReq, Given(p), StillTrue(p)
    PROVE  MembersInv'
<1>1. /\ req' \in [Req -> ReqRecord] /\ req'[r] = p
      /\ \A q \in Req \ {r} : req'[q] = req[q]
  BY MembersTypes DEF MembersInv
<1>2. MembersTypeOK'
  BY <1>1, MembersTypes DEF MembersInv, MembersTypeOK, ReqRecord, ReqOp
<1>3. Founding'
  BY <1>1 DEF MembersInv, Founding, Open
<1>4. ASSUME NEW q \in Req PROVE Given(req[q])' /\ StillTrue(req[q])'
  <2>1. PICK x : x = req'[q] /\ Given(x) /\ StillTrue(x)
    BY <1>1 DEF MembersInv
  <2>2. Admins' = Admins
    BY DEF Admins
  <2>3. Given(req[q])'
    BY <2>1 DEF Given
  <2>4. StillTrue(req[q])'
    BY <2>1, <2>2 DEF StillTrue, AdminBeside, Open
  <2> QED  BY <2>3, <2>4
<1> QED  BY <1>2, <1>3, <1>4 DEF MembersInv

Authorized(r) ==
    \E p \in ReqRecord : /\ p.pc = "authorized" /\ req' = [req EXCEPT ![r] = p]
                         /\ UNCHANGED <<workspace, limited, member, invited, excess>>

LEMMA AuthorizeStep ==
    ASSUME MembersInv, NEW r \in Req, NEW q \in ReqRecord, Authorize(r, q), Given(q),
           q.pc = "idle", q.op \in RoleOp => ~q.stale /\ (~q.self => AdminBeside(q.who))
    PROVE  MembersInv' /\ Authorized(r)
<1>1. PICK p : p = [q EXCEPT !.pc = "authorized"]
  OBVIOUS
<1>2. /\ p \in ReqRecord /\ p.pc = "authorized" /\ p.op = q.op /\ p.who = q.who
      /\ p.role = q.role /\ p.self = q.self /\ p.stale = q.stale
  BY <1>1 DEF ReqRecord
<1>3. Given(p) /\ StillTrue(p)
  BY <1>2 DEF Given, StillTrue
<1>4. req' = [req EXCEPT ![r] = p] /\ Open
  BY <1>1 DEF Authorize
<1>5. UNCHANGED <<workspace, limited, member, invited, excess>>
  BY DEF Authorize
<1>6. MembersInv'
  BY <1>2, <1>3, <1>4, <1>5, RequestSet
<1> QED  BY <1>2, <1>4, <1>5, <1>6 DEF Authorized

LEMMA AuthorizeNewStep ==
    ASSUME MembersInv, NEW r \in Req, NEW v \in User, NEW role \in OfferedRole,
           NEW op \in {"invite", "add"}, AuthorizeNew(r, op, v, role)
    PROVE  MembersInv' /\ Authorized(r)
<1>1. PICK q : q = [NoReq EXCEPT !.op = op, !.who = v, !.role = role]
  OBVIOUS
<1>2. role \in Role
  BY RoleGiven
<1>3. q \in ReqRecord /\ q.pc = "idle" /\ q.op = op /\ q.who = v /\ q.role = role
  BY <1>1, <1>2, NoReqType DEF ReqRecord, ReqOp
<1>4. Authorize(r, q)
  BY <1>1 DEF AuthorizeNew
<1>5. Given(q) /\ q.op \notin RoleOp
  BY <1>2, <1>3 DEF Given, RoleOp
<1> QED  BY <1>3, <1>4, <1>5, AuthorizeStep

LEMMA AuthorizeMemberStep ==
    ASSUME MembersInv, NEW r \in Req, NEW u \in User, NEW v \in User,
           NEW op \in RoleOp, NEW role \in Role \cup {Nobody}, op = "update" => role \in Role,
           AuthorizeMember(r, op, u, v, role)
    PROVE  MembersInv' /\ Authorized(r)
<1>1. PICK q : q = [NoReq EXCEPT !.op = op, !.self = (u = v), !.who = v, !.role = role]
  OBVIOUS
<1>2. /\ q \in ReqRecord /\ q.pc = "idle" /\ q.op = op /\ q.who = v /\ q.role = role
      /\ q.stale = FALSE /\ q.self = (u = v)
  BY <1>1 DEF ReqRecord, ReqOp, RoleOp, NoReq
<1>3. Authorize(r, q) /\ member[u] = "ADMIN"
  BY <1>1 DEF AuthorizeMember
<1>4. Given(q)
  BY <1>2 DEF Given, RoleOp
<1>5. ~q.self => AdminBeside(q.who)
  BY <1>2, <1>3 DEF AdminBeside, Admins
<1> QED  BY <1>2, <1>3, <1>4, <1>5, AuthorizeStep

LEMMA AuthorizeOtherStep ==
    ASSUME MembersInv, NEW r \in Req, NEW op \in ReqOp, NEW v \in User \cup {Nobody},
           \/ op = "cancel" /\ v \in User /\ AuthorizeOther(r, op, v)
           \/ op = "delete" /\ AuthorizeOther(r, op, v)
           \/ op = "accept" /\ v \in User /\ Accept(r, v)
    PROVE  MembersInv' /\ Authorized(r)
<1>1. PICK q : q = [NoReq EXCEPT !.op = op, !.who = v]
  OBVIOUS
<1>2. q \in ReqRecord /\ q.pc = "idle" /\ q.op = op /\ q.who = v
  BY <1>1, NoReqType DEF ReqRecord, ReqOp
<1>3. Authorize(r, q)
  BY <1>1 DEF AuthorizeOther, Accept
<1>4. Given(q) /\ q.op \notin RoleOp
  BY <1>2 DEF Given, RoleOp
<1> QED  BY <1>2, <1>3, <1>4, AuthorizeStep

(* What a request that passed its check holds.                             *)
LEMMA CheckEffect ==
    ASSUME MembersInv, NEW r \in Req, Check(r)
    PROVE  \E p \in ReqRecord :
              /\ req' = [req EXCEPT ![r] = p]
              /\ Open /\ Given(p) /\ StillTrue(p) /\ p.pc = "checked"
              /\ p.op = "accept" => CanAddSeat(Cardinality(Members))
              /\ UNCHANGED <<workspace, limited, member, invited, excess>>
<1>1. PICK q : q = Purpose(req[r])
  OBVIOUS
<1>2. PICK p : p = [q EXCEPT !.pc = "checked", !.held = TRUE,
                             !.role = IF q.op = "accept" THEN invited[q.who] ELSE q.role]
  OBVIOUS
<1>3. req[r] \in ReqRecord /\ Given(req[r]) /\ StillTrue(req[r])
  BY MembersTypes DEF MembersInv
<1>4. /\ q \in ReqRecord /\ q.pc = req[r].pc /\ q.who = req[r].who /\ q.self = req[r].self
      /\ q.role = req[r].role /\ q.stale = req[r].stale /\ q.held = req[r].held
      /\ \/ q.op = req[r].op
         \/ req[r].op = "accept" /\ q.op = "cancel"
  <2>1. CASE q = req[r]
    BY <1>3, <2>1
  <2>2. CASE req[r].op = "accept" /\ q = [req[r] EXCEPT !.op = "cancel"]
    BY <1>3, <2>2 DEF ReqRecord, ReqOp
  <2> QED  BY <1>1, <2>1, <2>2 DEF Purpose
<1>5. Given(q) /\ StillTrue(q)
  <2>1. CASE q.op = req[r].op
    <3>1. Given(q)
      BY <1>3, <1>4, <2>1 DEF Given
    <3>2. StillTrue(q)
      BY <1>3, <1>4, <2>1 DEF StillTrue
    <3> QED  BY <3>1, <3>2
  <2>2. CASE req[r].op = "accept" /\ q.op = "cancel"
    BY <1>3, <1>4, <2>2 DEF Given, StillTrue, RoleOp
  <2> QED  BY <1>4, <2>1, <2>2
<1>6. q.pc = "authorized" /\ Open /\ Allowed(q)
  BY <1>1 DEF Check
<1>7. q.op = "accept" => invited[q.who] \in Role
  BY <1>5, <1>6, MembersTypes DEF Allowed, Given, MembersInv
<1>8. /\ p \in ReqRecord /\ p.pc = "checked" /\ p.op = q.op /\ p.self = q.self
      /\ p.who = q.who /\ p.stale = q.stale
      /\ p.role = IF q.op = "accept" THEN invited[q.who] ELSE q.role
  BY <1>2, <1>4, <1>7 DEF ReqRecord
<1>9. Given(p)
  BY <1>5, <1>7, <1>8 DEF Given
<1>10. StillTrue(p)
  <2> SUFFICES ASSUME q.op \in RoleOp PROVE StillTrue(p)
      BY <1>8 DEF StillTrue
  <2>1. member[q.who] # Nobody /\ MayLeave(q)
    BY <1>6 DEF Allowed, RoleOp
  <2>2. ~q.stale => (~q.self => AdminBeside(q.who))
    BY <1>5, <1>6 DEF StillTrue
  <2>3. Cardinality(Admins) > 1 => AdminBeside(q.who)
    BY SeveralAdmins
  <2>4. p.role = q.role
    BY <1>8 DEF RoleOp
  <2> QED  BY <1>8, <2>1, <2>2, <2>3, <2>4 DEF StillTrue, MayLeave
<1>11. req' = [req EXCEPT ![r] = p] /\ UNCHANGED <<workspace, limited, member, invited, excess>>
  BY <1>1, <1>2 DEF Check
<1>12. q.op = "accept" => CanAddSeat(Cardinality(Members))
  BY <1>6 DEF Allowed
<1> QED  BY <1>6, <1>8, <1>9, <1>10, <1>11, <1>12

(* A write of request r that answers it.                                   *)
LEMMA WriteStep ==
    ASSUME MembersInv, NEW r \in Req, Open, Open', UNCHANGED limited,
           req' \in [Req -> ReqRecord], req'[r] = NoReq,
           member' \in [User -> Role \cup {Nobody}],
           invited' \in [User -> Role \cup {Nobody}], excess' \in Nat,
           \A q \in Req \ {r} :
               /\ Same(q)
               /\ req'[q].held = TRUE /\ req[q].op \in RoleOp /\ member[req[q].who] # Nobody
                     => member'[req[q].who] # Nobody
               /\ req'[q].stale = FALSE /\ req[q].op \in RoleOp => Admins' = Admins
    PROVE  MembersInv'
<1>1. MembersTypeOK'
  BY MembersTypes DEF MembersInv, MembersTypeOK, ReqRecord, ReqOp, Open
<1>2. Founding'
  BY DEF Founding, Open
<1>3. ASSUME NEW q \in Req \ {r} PROVE Given(req[q])' /\ StillTrue(req[q])'
  BY RequestKept DEF Open
<1>4. Given(req[r])' /\ StillTrue(req[r])'
  BY NoReqType DEF Given, StillTrue, RoleOp
<1> QED  BY <1>1, <1>2, <1>3, <1>4 DEF MembersInv

LEMMA InviteStep ==
    ASSUME MembersInv, NEW r \in Req, Invite(r)
    PROVE  MembersInv'
<1>1. /\ Open /\ req[r].who \in User /\ req[r].role \in Role
      /\ invited' = [invited EXCEPT ![req[r].who] = req[r].role]
      /\ UNCHANGED <<workspace, limited, member, excess>>
  BY DEF Invite, Ready, MembersInv, Given
<1>2. invited' \in [User -> Role \cup {Nobody}] /\ member \in [User -> Role \cup {Nobody}]
      /\ excess' \in Nat
  BY <1>1, MembersTypes DEF MembersInv
<1>3. Admins' = Admins /\ Open'
  BY <1>1 DEF Admins, Open
<1>4. Answer(r)
  BY DEF Invite
<1> QED  BY <1>1, <1>2, <1>3, <1>4, AnswerEffect, WriteStep

LEMMA CancelStep ==
    ASSUME MembersInv, NEW r \in Req, CancelInvite(r)
    PROVE  MembersInv'
<1>1. /\ Open /\ req[r].who \in User
      /\ invited' = [invited EXCEPT ![req[r].who] = Nobody]
      /\ UNCHANGED <<workspace, limited, member, excess>>
  BY DEF CancelInvite, Ready, MembersInv, Given
<1>2. invited' \in [User -> Role \cup {Nobody}] /\ member \in [User -> Role \cup {Nobody}]
      /\ excess' \in Nat
  BY <1>1, MembersTypes DEF MembersInv
<1>3. Admins' = Admins /\ Open'
  BY <1>1 DEF Admins, Open
<1>4. AnswerAndDrop(r, {"cancel", "accept"}, req[r].who)
  BY DEF CancelInvite
<1> QED  BY <1>1, <1>2, <1>3, <1>4, DropEffect, WriteStep

(* The writes to the member rows.                                          *)
LEMMA MemberWritten ==
    ASSUME MembersInv, NEW r \in Req, Open, NEW role \in Role \cup {Nobody},
           NEW ops, NEW v, AnswerAndDrop(r, ops, v),
           req[r].who \in User,
           member' = [member EXCEPT ![req[r].who] = role],
           role = Nobody => RoleOp \subseteq ops /\ v = req[r].who,
           UNCHANGED <<workspace, limited>>,
           invited' \in [User -> Role \cup {Nobody}], excess' \in Nat
    PROVE  MembersInv'
<1>1. /\ member' \in [User -> Role \cup {Nobody}] /\ member'[req[r].who] = role
      /\ \A u \in User \ {req[r].who} : member'[u] = member[u]
  BY MembersTypes DEF MembersInv
<1>2. ASSUME NEW q \in Req \ {r}
      PROVE  /\ Same(q)
             /\ req'[q].held = TRUE /\ req[q].op \in RoleOp /\ member[req[q].who] # Nobody
                   => member'[req[q].who] # Nobody
             /\ req'[q].stale = FALSE /\ req[q].op \in RoleOp => Admins' = Admins
  <2>1. /\ Same(q)
        /\ req'[q].held = TRUE => ~(req[q].op \in ops /\ req[q].who = v)
        /\ req'[q].stale = FALSE /\ req[q].op \in RoleOp => Admins' = Admins
    BY DropEffect
  <2>2. req[q].op \in RoleOp => req[q].who \in User
    BY DEF MembersInv, Given, RoleOp
  <2> QED  BY <1>1, <2>1, <2>2
<1>3. req' \in [Req -> ReqRecord] /\ req'[r] = NoReq
  BY DropEffect
<1>4. Open'
  BY DEF Open
<1> QED  BY <1>1, <1>2, <1>3, <1>4, WriteStep

LEMMA MemberWrites ==
    ASSUME MembersInv, NEW r \in Req,
           AcceptInvite(r) \/ AddMember(r) \/ UpdateRole(r) \/ RemoveMember(r)
    PROVE  MembersInv'
<1>1. /\ invited \in [User -> Role \cup {Nobody}] /\ excess \in Nat
      /\ Given(req[r])
  BY MembersTypes DEF MembersInv
<1>2. CASE AcceptInvite(r)
  <2>1. /\ Open /\ req[r].pc = "checked" /\ req[r].op = "accept"
        /\ member' = [member EXCEPT ![req[r].who] = req[r].role]
        /\ invited' = [invited EXCEPT ![req[r].who] = Nobody]
        /\ AnswerAndDrop(r, {"cancel", "accept"}, req[r].who)
        /\ UNCHANGED <<workspace, limited, excess>>
    BY <1>2 DEF AcceptInvite, Ready
  <2>2. req[r].who \in User /\ req[r].role \in Role
    BY <1>1, <2>1 DEF Given
  <2>3. req[r].role # Nobody /\ invited' \in [User -> Role \cup {Nobody}] /\ excess' \in Nat
    BY <1>1, <2>1, <2>2, NoReqType
  <2> QED  BY <2>1, <2>2, <2>3, MemberWritten
<1>3. CASE AddMember(r)
  <2>1. /\ Open /\ req[r].op = "add"
        /\ member' = [member EXCEPT ![req[r].who] = req[r].role]
        /\ AnswerAndDrop(r, {}, Nobody)
        /\ UNCHANGED <<workspace, limited, invited>>
    BY <1>3 DEF AddMember, Ready
  <2>2. req[r].who \in User /\ req[r].role \in Role
    BY <1>1, <2>1 DEF Given
  <2>3. req[r].role # Nobody /\ excess' \in Nat
    BY <1>1, <1>3, <2>2, NoReqType DEF AddMember
  <2> QED  BY <1>1, <2>1, <2>2, <2>3, MemberWritten
<1>4. CASE UpdateRole(r)
  <2>1. /\ Open /\ req[r].op = "update"
        /\ member' = [member EXCEPT ![req[r].who] = req[r].role]
        /\ AnswerAndDrop(r, {}, Nobody)
        /\ UNCHANGED <<workspace, limited, invited, excess>>
    BY <1>4 DEF UpdateRole, Ready
  <2>2. req[r].who \in User /\ req[r].role \in Role
    BY <1>1, <2>1 DEF Given
  <2>3. req[r].role # Nobody
    BY <2>2, NoReqType
  <2> QED  BY <1>1, <2>1, <2>2, <2>3, MemberWritten
<1>5. CASE RemoveMember(r)
  <2>1. /\ Open /\ req[r].op = "remove"
        /\ member' = [member EXCEPT ![req[r].who] = Nobody]
        /\ AnswerAndDrop(r, RoleOp, req[r].who)
        /\ UNCHANGED <<workspace, limited, invited, excess>>
    BY <1>5 DEF RemoveMember, Ready, RoleOp
  <2>2. req[r].who \in User
    BY <1>1, <2>1 DEF Given
  <2> QED  BY <1>1, <2>1, <2>2, MemberWritten
<1> QED  BY <1>2, <1>3, <1>4, <1>5

LEMMA DeleteStep ==
    ASSUME MembersInv, NEW r \in Req, DeleteWorkspace(r)
    PROVE  MembersInv'
<1>1. /\ workspace' = "deleted" /\ limited' = TRUE /\ excess' = 0
      /\ member' \in [User -> Role \cup {Nobody}] /\ invited' \in [User -> Role \cup {Nobody}]
  BY DEF DeleteWorkspace
<1>2. \A q \in Req : req'[q] = IF q = r THEN NoReq ELSE [req[q] EXCEPT !.held = FALSE]
  BY DEF DeleteWorkspace
<1>3. ASSUME NEW q \in Req
      PROVE  req'[q] \in ReqRecord /\ Given(req[q])' /\ StillTrue(req[q])'
  <2>1. req[q] \in ReqRecord /\ Given(req[q]) /\ NoReq \in ReqRecord
    BY MembersTypes, NoReqType DEF MembersInv
  <2>2. CASE q = r
    <3>1. req'[q] = NoReq
      BY <1>2, <2>2
    <3> QED  BY <2>1, <3>1, NoReqType DEF Given, StillTrue, RoleOp
  <2>3. CASE q # r
    <3>1. /\ req'[q] \in ReqRecord /\ req'[q].pc = req[q].pc /\ req'[q].op = req[q].op
          /\ req'[q].who = req[q].who /\ req'[q].role = req[q].role /\ req'[q].held = FALSE
      BY <1>2, <2>1, <2>3 DEF ReqRecord
    <3> QED  BY <1>1, <2>1, <3>1 DEF Given, StillTrue, Open
  <2> QED  BY <2>2, <2>3
<1>4. MembersTypeOK'
  <2>1. req' \in [Req -> ReqRecord]
    BY <1>3 DEF DeleteWorkspace
  <2> QED  BY <1>1, <2>1, MembersTypes DEF MembersTypeOK, ReqRecord, ReqOp
<1>5. Founding'
  BY <1>1 DEF Founding
<1> QED  BY <1>3, <1>4, <1>5 DEF MembersInv

LEMMA CreateStep ==
    ASSUME MembersInv, NEW u \in User, CreateWorkspace(u)
    PROVE  MembersInv' /\ \A r \in Req : req'[r] = NoReq
<1>1. /\ workspace' = "open" /\ member' = [member EXCEPT ![u] = "ADMIN"]
      /\ UNCHANGED <<limited, invited, req, excess>>
  BY DEF CreateWorkspace
<1>2. \A r \in Req : req'[r] = NoReq
  BY <1>1 DEF CreateWorkspace, MembersInv, Founding
<1>3. MembersTypeOK'
  BY <1>1 DEF MembersInv, MembersTypeOK, Role
<1>4. Founding'
  BY <1>1 DEF Founding
<1>5. \A r \in Req : Given(req[r])' /\ StillTrue(req[r])'
  BY <1>2, NoReqType DEF Given, StillTrue, RoleOp
<1> QED  BY <1>2, <1>3, <1>4, <1>5 DEF MembersInv

(* The plan only matters to the counters.                                  *)
LEMMA PlanStep ==
    ASSUME MembersInv, UNCHANGED <<workspace, member, invited, req>>, limited' \in BOOLEAN,
           excess' \in Nat
    PROVE  MembersInv'
<1>1. MembersTypeOK' /\ Founding'
  BY DEF MembersInv, MembersTypeOK, Founding
<1>2. \A r \in Req : Given(req[r])' /\ StillTrue(req[r])'
  BY DEF MembersInv, Given, StillTrue, AdminBeside, Admins, Open
<1> QED  BY <1>1, <1>2 DEF MembersInv

LEMMA AuthorizeAny ==
    ASSUME MembersInv, NEW r \in Req, NEW u \in User, NEW v \in User,
           \/ \E role \in OfferedRole, op \in {"invite", "add"} : AuthorizeNew(r, op, v, role)
           \/ \E role \in Role : AuthorizeMember(r, "update", u, v, role)
           \/ AuthorizeMember(r, "remove", u, v, Nobody)
           \/ AuthorizeOther(r, "cancel", v)
           \/ AuthorizeOther(r, "delete", Nobody)
           \/ Accept(r, u)
    PROVE  MembersInv' /\ Authorized(r)
<1>1. {"update", "remove"} = RoleOp /\ {"cancel", "delete", "accept"} \subseteq ReqOp
  BY DEF RoleOp, ReqOp
<1>2. CASE \E role \in OfferedRole, op \in {"invite", "add"} : AuthorizeNew(r, op, v, role)
  BY <1>2, AuthorizeNewStep
<1>3. CASE \E role \in Role : AuthorizeMember(r, "update", u, v, role)
  BY <1>1, <1>3, AuthorizeMemberStep
<1>4. CASE AuthorizeMember(r, "remove", u, v, Nobody)
  BY <1>1, <1>4, AuthorizeMemberStep
<1>5. CASE AuthorizeOther(r, "cancel", v)
  BY <1>1, <1>5, AuthorizeOtherStep
<1>6. CASE AuthorizeOther(r, "delete", Nobody)
  BY <1>1, <1>6, AuthorizeOtherStep
<1>7. CASE Accept(r, u)
  BY <1>1, <1>7, AuthorizeOtherStep
<1> QED  BY <1>2, <1>3, <1>4, <1>5, <1>6, <1>7

LEMMA MembersInvNext == MembersInv /\ [MembersNext]_membersVars => MembersInv'
<1> SUFFICES ASSUME MembersInv, [MembersNext]_membersVars PROVE MembersInv'
    OBVIOUS
<1>1. ASSUME NEW u \in User, CreateWorkspace(u) PROVE MembersInv'
  BY <1>1, CreateStep
<1>2. ASSUME NEW r \in Req, NEW u \in User, NEW v \in User,
             \/ \E role \in OfferedRole, op \in {"invite", "add"} : AuthorizeNew(r, op, v, role)
             \/ \E role \in Role : AuthorizeMember(r, "update", u, v, role)
             \/ AuthorizeMember(r, "remove", u, v, Nobody)
             \/ AuthorizeOther(r, "cancel", v)
             \/ AuthorizeOther(r, "delete", Nobody)
             \/ Accept(r, u)
      PROVE  MembersInv'
  BY <1>2, AuthorizeAny
<1>3. ASSUME NEW r \in Req, NEW u \in User, Accept(r, u) PROVE MembersInv'
  BY <1>2, <1>3
<1>4. ASSUME NEW r \in Req, Refuse(r) \/ Fail(r) PROVE MembersInv'
  <2>1. /\ req' = [req EXCEPT ![r] = NoReq]
        /\ UNCHANGED <<workspace, limited, member, invited, excess>>
    BY <1>4 DEF Refuse, Fail, Answer
  <2>2. StillTrue(NoReq)
    BY NoReqType DEF StillTrue, RoleOp
  <2> QED  BY <2>1, <2>2, NoReqType, RequestSet
<1>5. ASSUME NEW r \in Req, Check(r) PROVE MembersInv'
  BY <1>5, CheckEffect, RequestSet
<1>6. ASSUME NEW r \in Req, Invite(r) PROVE MembersInv'
  BY <1>6, InviteStep
<1>7. ASSUME NEW r \in Req, CancelInvite(r) PROVE MembersInv'
  BY <1>7, CancelStep
<1>8. ASSUME NEW r \in Req, AcceptInvite(r) \/ AddMember(r) \/ UpdateRole(r) \/ RemoveMember(r)
      PROVE  MembersInv'
  BY <1>8, MemberWrites
<1>9. ASSUME NEW r \in Req, DeleteWorkspace(r) PROVE MembersInv'
  BY <1>9, DeleteStep
<1>10. CASE Upgraded
  BY <1>10, PlanStep DEF Upgraded
<1>11. CASE Downgraded
  <2>1. IsFiniteSet(Members) /\ Cardinality(Members) \in Nat
    BY MembersAssumption, FS_Subset, FS_CardinalityType DEF Members
  <2>2. excess' \in Nat
    BY <1>11, <2>1, MembersAssumption DEF Downgraded
  <2> QED  BY <1>11, <2>2, PlanStep DEF Downgraded
<1>12. CASE UNCHANGED membersVars
  <2>1. MembersTypeOK' /\ Founding'
    BY <1>12 DEF membersVars, MembersInv, MembersTypeOK, Founding
  <2>2. \A r \in Req : Given(req[r])' /\ StillTrue(req[r])'
    BY <1>12 DEF membersVars, MembersInv, Given, StillTrue, AdminBeside, Admins, Open
  <2> QED  BY <2>1, <2>2 DEF MembersInv
<1> QED  BY <1>1, <1>2, <1>3, <1>4, <1>5, <1>6, <1>7, <1>8, <1>9, <1>10, <1>11, <1>12
         DEF MembersNext

LEMMA MembersInvHolds == MembersSpec => []MembersInv
  BY MembersInvInit, MembersInvNext, PTL DEF MembersSpec

(* A workspace loses its last admin only by a request under way while the  *)
(* set of admins changed, or when it is deleted, whatever the requests and *)
(* their interleaving.                                                     *)
THEOREM LastAdminStays == MembersSpec => LastAdminOnlyByStaleRequest
<1>1. ASSUME MembersInv, [MembersNext]_membersVars, Admins # {}, Admins' = {}
      PROVE  \/ workspace' = "deleted"
             \/ \E r \in Req : /\ req[r].pc = "checked" /\ req[r].stale
                               /\ req'[r].pc = "idle"
  <2>1. member \in [User -> Role \cup {Nobody}]
    BY <1>1, MembersTypes DEF MembersInv
  <2>2. member' # member
    BY <1>1 DEF Admins
  <2>3. ASSUME NEW u \in User, CreateWorkspace(u) PROVE FALSE
    BY <1>1, <2>1, <2>3 DEF CreateWorkspace, Admins
  <2>4. ASSUME NEW r \in Req, AcceptInvite(r) \/ AddMember(r) PROVE FALSE
    <3>1. /\ member[req[r].who] = Nobody
          /\ member' = [member EXCEPT ![req[r].who] = req[r].role]
      BY <2>4 DEF AcceptInvite, AddMember
    <3>2. \A u \in Admins : u # req[r].who
      BY <3>1, NoReqType DEF Admins, Role
    <3> QED  BY <1>1, <2>1, <3>1, <3>2 DEF Admins
  <2>5. ASSUME NEW r \in Req, UpdateRole(r) \/ RemoveMember(r)
        PROVE  req[r].pc = "checked" /\ req[r].stale /\ req'[r].pc = "idle"
    <3>1. /\ Open /\ req[r].pc = "checked" /\ req[r].op \in RoleOp
          /\ member' = [member EXCEPT ![req[r].who] =
                           IF req[r].op = "update" THEN req[r].role ELSE Nobody]
      BY <2>5 DEF UpdateRole, RemoveMember, Ready, RoleOp
    <3>2. req'[r] = NoReq
      BY <1>1, <2>5, DropEffect DEF UpdateRole, RemoveMember
    <3>3. ASSUME ~req[r].stale PROVE FALSE
      <4>1. StillTrue(req[r]) /\ req[r].who \in User
        BY <1>1, <3>1 DEF MembersInv, Given, RoleOp
      <4>2. ~AdminBeside(req[r].who)
        BY <1>1, <2>1, <3>1 DEF AdminBeside, Admins
      <4>3. \/ member[req[r].who] # "ADMIN"
            \/ req[r].op = "update" /\ req[r].role = "ADMIN"
        BY <3>1, <3>3, <4>1, <4>2 DEF StillTrue
      <4>4. \E u \in Admins : u = req[r].who
        BY <1>1, <4>2 DEF AdminBeside
      <4>5. req[r].op = "update" /\ req[r].role = "ADMIN"
        BY <4>3, <4>4 DEF Admins
      <4> QED  BY <1>1, <2>1, <3>1, <4>1, <4>5 DEF Admins
    <3> QED  BY <3>1, <3>2, <3>3, NoReqType
  <2>6. ASSUME NEW r \in Req, DeleteWorkspace(r) PROVE workspace' = "deleted"
    BY <2>6 DEF DeleteWorkspace
  <2> QED
    <3>1. ASSUME NEW r \in Req,
                 \/ \E u \in User : Accept(r, u)
                 \/ Refuse(r) \/ Check(r) \/ Fail(r) \/ Invite(r) \/ CancelInvite(r)
          PROVE  FALSE
      BY <2>2, <3>1 DEF Accept, Authorize, Refuse, Check, Fail, Invite, CancelInvite
    <3>2. ASSUME NEW r \in Req, NEW v \in User, NEW u \in User,
                 \/ \E role \in OfferedRole, op \in {"invite", "add"} : AuthorizeNew(r, op, v, role)
                 \/ \E role \in Role : AuthorizeMember(r, "update", u, v, role)
                 \/ AuthorizeMember(r, "remove", u, v, Nobody)
                 \/ AuthorizeOther(r, "cancel", v)
                 \/ AuthorizeOther(r, "delete", Nobody)
          PROVE  FALSE
      BY <2>2, <3>2 DEF AuthorizeNew, AuthorizeMember, AuthorizeOther, Authorize
    <3>3. ~Upgraded /\ ~Downgraded /\ ~UNCHANGED membersVars
      BY <2>2 DEF Upgraded, Downgraded, membersVars
    <3> QED  BY <1>1, <2>3, <2>4, <2>5, <2>6, <3>1, <3>2, <3>3 DEF MembersNext
<1>2. MembersInv /\ [MembersNext]_membersVars =>
         [ Admins # {} /\ Admins' = {} =>
              \/ workspace' = "deleted"
              \/ \E r \in Req : /\ req[r].pc = "checked" /\ req[r].stale
                                /\ req'[r].pc = "idle" ]_membersVars
  BY <1>1
<1> QED  BY <1>2, MembersInvHolds, PTL DEF MembersSpec, LastAdminOnlyByStaleRequest

(* The seats, counted.                                                     *)
LEMMA SeatCounts ==
    /\ IsFiniteSet(Members) /\ Cardinality(Members) \in Nat
    /\ IsFiniteSet(Accepting) /\ Cardinality(Accepting) \in Nat
    /\ Cardinality(Req) \in Nat /\ Cardinality(Req) >= 1
    /\ Cardinality(Accepting) <= Cardinality(Req)
<1>1. Members \in SUBSET User /\ Accepting \in SUBSET Req
  BY DEF Members, Accepting
<1>2. IsFiniteSet(Members) /\ IsFiniteSet(Accepting) /\ Cardinality(Accepting) <= Cardinality(Req)
  BY <1>1, MembersAssumption, FS_Subset
<1>3. /\ Cardinality(Members) \in Nat /\ Cardinality(Accepting) \in Nat
      /\ Cardinality(Req) \in Nat
  BY <1>2, MembersAssumption, FS_CardinalityType
<1>4. Cardinality(Req) >= 1
  <2>1. PICK r : {r} \in SUBSET Req
    BY MembersAssumption
  <2>2. Cardinality({r}) <= Cardinality(Req) /\ Cardinality({r}) = 1
    BY <2>1, MembersAssumption, FS_Subset, FS_Singleton
  <2> QED  BY <2>2
<1> QED  BY <1>2, <1>3, <1>4

LEMMA SeatCountsNext ==
    /\ IsFiniteSet(Members') /\ Cardinality(Members') \in Nat
    /\ IsFiniteSet(Accepting') /\ Cardinality(Accepting') \in Nat
    /\ Cardinality(Accepting') <= Cardinality(Req)
<1>1. Members' \in SUBSET User /\ Accepting' \in SUBSET Req
  BY DEF Members, Accepting
<1>2. IsFiniteSet(Members') /\ IsFiniteSet(Accepting') /\ Cardinality(Accepting') <= Cardinality(Req)
  BY <1>1, MembersAssumption, FS_Subset
<1> QED  BY <1>2, FS_CardinalityType

LEMMA SeatsFewer ==
    ASSUME MembersInv, MembersInv', SeatBound, UNCHANGED <<limited, excess>>, Open' => Open,
           Members' \subseteq Members, Accepting' \subseteq Accepting
    PROVE  SeatBound'
<1>1. Cardinality(Members') <= Cardinality(Members)
  BY SeatCounts, FS_Subset
<1>2. Cardinality(Accepting') <= Cardinality(Accepting)
  BY SeatCounts, FS_Subset
<1>3. excess \in Nat /\ SeatLimit \in Nat
  BY MembersAssumption DEF MembersInv, MembersTypeOK
<1> QED  BY <1>1, <1>2, <1>3, SeatCounts, SeatCountsNext DEF SeatBound

LEMMA SeatBoundInit == MembersInit => SeatBound
  BY DEF MembersInit, SeatBound, Open

LEMMA SeatBoundNext == MembersInv /\ MembersInv' /\ SeatBound /\ [MembersNext]_membersVars => SeatBound'
<1> SUFFICES ASSUME MembersInv, MembersInv', SeatBound, [MembersNext]_membersVars PROVE SeatBound'
    OBVIOUS
<1>1. /\ excess \in Nat /\ excess' \in Nat /\ SeatLimit \in Nat /\ SeatLimit >= 1
      /\ req \in [Req -> ReqRecord] /\ member \in [User -> Role \cup {Nobody}]
      /\ limited \in BOOLEAN /\ limited' \in BOOLEAN
  BY MembersAssumption, MembersTypes DEF MembersInv, MembersTypeOK
<1>2. ASSUME NEW u \in User, CreateWorkspace(u) PROVE SeatBound'
  <2>1. Members' \in SUBSET {u}
    BY <1>1, <1>2 DEF CreateWorkspace, MembersInv, Founding, Members
  <2>2. Accepting' = {}
    BY <1>2, CreateStep, NoReqType DEF Accepting
  <2>3. Cardinality(Members') <= 1
    <3>1. IsFiniteSet({u}) /\ Cardinality({u}) = 1
      BY FS_Singleton
    <3> QED  BY <2>1, <3>1, FS_Subset
  <2>4. Cardinality(Accepting') = 0
    BY <2>2, FS_EmptySet
  <2> QED  BY <1>1, <2>3, <2>4, SeatCounts, SeatCountsNext DEF SeatBound
(* Requests that are authorised, refused or fail do not count.             *)
<1>3. ASSUME NEW r \in Req, NEW p, req' = [req EXCEPT ![r] = p],
             p.pc # "checked" \/ p.op # "accept",
             UNCHANGED <<workspace, limited, member, excess>>
      PROVE  SeatBound'
  <2>1. Members' = Members
    BY <1>3 DEF Members
  <2>2. Accepting' \subseteq Accepting
    BY <1>1, <1>3 DEF Accepting
  <2> QED  BY <1>3, <2>1, <2>2, SeatsFewer DEF Open
<1>4. ASSUME NEW r \in Req, Authorized(r) PROVE SeatBound'
  <2>1. PICK p \in ReqRecord : /\ p.pc = "authorized" /\ req' = [req EXCEPT ![r] = p]
                               /\ UNCHANGED <<workspace, limited, member, invited, excess>>
    BY <1>4 DEF Authorized
  <2> QED  BY <1>3, <2>1
<1>5. ASSUME NEW r \in Req, NEW u \in User, NEW v \in User,
             \/ \E role \in OfferedRole, op \in {"invite", "add"} : AuthorizeNew(r, op, v, role)
             \/ \E role \in Role : AuthorizeMember(r, "update", u, v, role)
             \/ AuthorizeMember(r, "remove", u, v, Nobody)
             \/ AuthorizeOther(r, "cancel", v)
             \/ AuthorizeOther(r, "delete", Nobody)
             \/ Accept(r, u)
      PROVE  SeatBound'
  BY <1>4, <1>5, AuthorizeAny
<1>6. ASSUME NEW r \in Req, Refuse(r) \/ Fail(r) \/ Invite(r) PROVE SeatBound'
  <2>1. req' = [req EXCEPT ![r] = NoReq] /\ UNCHANGED <<workspace, limited, member, excess>>
    BY <1>6 DEF Refuse, Fail, Invite, Answer
  <2> QED  BY <1>3, <2>1, NoReqType
<1>7. ASSUME NEW r \in Req, Check(r) PROVE SeatBound'
  <2>1. PICK p \in ReqRecord :
              /\ req' = [req EXCEPT ![r] = p] /\ p.pc = "checked"
              /\ p.op = "accept" => CanAddSeat(Cardinality(Members))
              /\ UNCHANGED <<workspace, limited, member, excess>>
    BY <1>7, CheckEffect
  <2>2. CASE p.op # "accept"
    BY <1>3, <2>1, <2>2
  <2>3. CASE p.op = "accept"
    <3>1. Members' = Members
      BY <2>1 DEF Members
    <3>2. limited => Cardinality(Members) < SeatLimit
      BY <2>1, <2>3 DEF CanAddSeat
    <3> QED  BY <1>1, <2>1, <3>1, <3>2, SeatCounts, SeatCountsNext DEF SeatBound
  <2> QED  BY <2>2, <2>3
<1>8. ASSUME NEW r \in Req, NEW ops, NEW v, AnswerAndDrop(r, ops, v)
      PROVE  Accepting' \subseteq Accepting \ {r}
  <2>1. req'[r] = NoReq /\ \A q \in Req \ {r} : Same(q)
    BY <1>8, DropEffect
  <2>2. r \notin Accepting'
    BY <2>1, NoReqType DEF Accepting
  <2>3. \A q \in Req \ {r} : q \in Accepting' => q \in Accepting
    BY <2>1 DEF Accepting, Same
  <2>4. Accepting' \subseteq Req
    BY DEF Accepting
  <2> QED  BY <2>2, <2>3, <2>4
<1>9. ASSUME NEW r \in Req, CancelInvite(r) PROVE SeatBound'
  <2>1. Members' = Members /\ UNCHANGED <<workspace, limited, excess>>
    BY <1>9 DEF CancelInvite, Members
  <2>2. Accepting' \subseteq Accepting
    BY <1>8, <1>9 DEF CancelInvite
  <2> QED  BY <2>1, <2>2, SeatsFewer DEF Open
<1>10. ASSUME NEW r \in Req, NEW role, member' = [member EXCEPT ![req[r].who] = role]
       PROVE  /\ Cardinality(Members') <= Cardinality(Members) + 1
  <2>1. Members' \in SUBSET (Members \cup {req[r].who})
    BY <1>1, <1>10 DEF Members
  <2>2. /\ IsFiniteSet(Members \cup {req[r].who})
        /\ Cardinality(Members \cup {req[r].who}) <= Cardinality(Members) + 1
    <3>1. PICK v : v = req[r].who
      OBVIOUS
    <3>2. /\ IsFiniteSet(Members \cup {v})
          /\ Cardinality(Members \cup {v}) =
                IF v \in Members THEN Cardinality(Members) ELSE Cardinality(Members) + 1
      BY SeatCounts, FS_AddElement
    <3> QED  BY <3>1, <3>2, SeatCounts
  <2>3. Cardinality(Members \cup {req[r].who}) \in Nat
    BY <2>2, FS_CardinalityType
  <2> QED  BY <2>1, <2>2, <2>3, SeatCounts, SeatCountsNext, FS_Subset
<1>11. ASSUME NEW r \in Req, AcceptInvite(r) PROVE SeatBound'
  <2>1. /\ r \in Accepting /\ UNCHANGED <<workspace, limited, excess>>
        /\ member' = [member EXCEPT ![req[r].who] = req[r].role]
    BY <1>11 DEF AcceptInvite, Ready, Accepting
  <2>2. Accepting' \subseteq Accepting \ {r}
    BY <1>8, <1>11 DEF AcceptInvite
  <2>3. /\ IsFiniteSet(Accepting \ {r})
        /\ Cardinality(Accepting \ {r}) = Cardinality(Accepting) - 1
    BY <2>1, SeatCounts, FS_RemoveElement
  <2>4. Cardinality(Accepting') <= Cardinality(Accepting) - 1
    BY <2>2, <2>3, FS_Subset
  <2>5. Cardinality(Members') <= Cardinality(Members) + 1
    BY <1>10, <2>1
  <2>6. Open' <=> Open
    BY <2>1 DEF Open
  <2> QED  BY <1>1, <2>1, <2>4, <2>5, <2>6, SeatCounts, SeatCountsNext DEF SeatBound
<1>12. ASSUME NEW r \in Req, AddMember(r) PROVE SeatBound'
  <2>1. /\ member' = [member EXCEPT ![req[r].who] = req[r].role]
        /\ UNCHANGED <<workspace, limited>> /\ (limited => excess' = excess + 1)
    BY <1>12 DEF AddMember
  <2>2. Accepting' \in SUBSET Accepting
    BY <1>8, <1>12 DEF AddMember
  <2>3. Cardinality(Accepting') <= Cardinality(Accepting)
    BY <2>2, SeatCounts, FS_Subset
  <2>4. Cardinality(Members') <= Cardinality(Members) + 1
    BY <1>10, <2>1
  <2>5. Open' <=> Open
    BY <2>1 DEF Open
  <2> QED  BY <1>1, <2>1, <2>3, <2>4, <2>5, SeatCounts, SeatCountsNext DEF SeatBound
(* A new role needs the row that was read.                                 *)
<1>13. ASSUME NEW r \in Req, UpdateRole(r) \/ RemoveMember(r) PROVE SeatBound'
  <2>1. /\ UNCHANGED <<workspace, limited, excess>>
        /\ \/ /\ req[r].pc = "checked" /\ req[r].op = "update" /\ req[r].held
              /\ member' = [member EXCEPT ![req[r].who] = req[r].role]
           \/ member' = [member EXCEPT ![req[r].who] = Nobody]
    BY <1>13 DEF UpdateRole, RemoveMember, Ready
  <2>2. /\ req[r].pc = "checked" /\ req[r].op = "update" /\ req[r].held
           => member[req[r].who] # Nobody
    BY DEF MembersInv, StillTrue, RoleOp
  <2>3. Members' \subseteq Members
    BY <1>1, <2>1, <2>2 DEF Members
  <2>4. Accepting' \subseteq Accepting
    BY <1>8, <1>13 DEF UpdateRole, RemoveMember
  <2> QED  BY <2>1, <2>3, <2>4, SeatsFewer DEF Open
<1>14. ASSUME NEW r \in Req, DeleteWorkspace(r) PROVE SeatBound'
  BY <1>14 DEF DeleteWorkspace, SeatBound, Open
<1>15. CASE Upgraded
  BY <1>15 DEF Upgraded, SeatBound
<1>16. CASE Downgraded
  <2>1. Members' = Members
    BY <1>16 DEF Downgraded, Members
  <2>2. Cardinality(Members) + 1 <= SeatLimit + excess'
    BY <1>1, <1>16, SeatCounts DEF Downgraded
  <2> QED  BY <1>1, <2>1, <2>2, SeatCounts, SeatCountsNext DEF SeatBound
<1>17. CASE UNCHANGED membersVars
  BY <1>17 DEF membersVars, SeatBound, Open, Members, Accepting
<1> QED  BY <1>2, <1>5, <1>6, <1>7, <1>9, <1>11, <1>12, <1>13, <1>14, <1>15, <1>16, <1>17
         DEF MembersNext

(* On the FREE plan the members never exceed the seats by more than the    *)
(* invitations being accepted at once, apart from those no check looks at, *)
(* for any number of users and requests.                                   *)
THEOREM SeatsHold == MembersSpec => []SeatBound
  BY SeatBoundInit, SeatBoundNext, MembersInvHolds, PTL DEF MembersSpec
=============================================================================
