------------------------- MODULE CoordinatorProofs -------------------------
(***************************************************************************)
(* What Coordinator guarantees for every number of callers, resources and  *)
(* keys, every lifetime and every bound.                                   *)
(***************************************************************************)
EXTENDS Coordinator, TLAPS

LEMMA TypeInit == Init => TypeOK
BY DEF Init, TypeOK

(* A caller learns what is on file, or nothing.                             *)
LEMMA ToldType ==
  ASSUME TypeOK, NEW c \in Client, NEW r \in Resource, Told(c, r), lease'[r] \in Lease
  PROVE  belief' \in [Client -> [Resource -> Belief \cup {None}]]
<1> DEFINE b == [token |-> lease'[r].token, until |-> lease'[r].expires]
<1>1. b \in Belief
  BY DEF Lease, Belief
<1>2. belief' = belief \/ belief' = [belief EXCEPT ![c][r] = b]
  BY DEF Told
<1>3. belief \in [Client -> [Resource -> Belief \cup {None}]]
  BY DEF TypeOK
<1> HIDE DEF b
<1> QED
  BY <1>1, <1>2, <1>3

LEMMA NextTokenType ==
  ASSUME TypeOK, NEW r \in Resource
  PROVE  NextToken(r) \in Nat /\ NextToken(r) > counter[r]
<1>1. lease[r] \in Lease \cup {None} /\ counter[r] \in Nat
  BY DEF TypeOK
<1> QED
  BY <1>1 DEF NextToken, Lease

LEMMA ValueType ==
  ASSUME TypeOK, NEW k \in Key
  PROVE  ActualVersion(k) \in Nat /\ Value(k) \in SUBSET Client
<1>1. kv[k] \in Record \cup {None}
  BY DEF TypeOK
<1> QED
  BY <1>1 DEF ActualVersion, Value, Record

LEMMA TypeStep == TypeOK /\ [Next]_vars => TypeOK'
<1> SUFFICES ASSUME TypeOK, [Next]_vars
             PROVE  TypeOK'
  OBVIOUS
<1>1. CASE Tick
  BY <1>1 DEF Tick, TypeOK, storage
<1>2. ASSUME NEW c \in Client, NEW k \in Key, GetState(c, k)
      PROVE  TypeOK'
  BY <1>2, ValueType DEF GetState, TypeOK, storage, Record
<1>3. ASSUME NEW c \in Client, NEW k \in Key, CompareAndSet(c, k)
      PROVE  TypeOK'
  <2>1. known[c][k] \in Record
    BY <1>3 DEF CompareAndSet, TypeOK
  <2>2. kv' \in [Key -> Record \cup {None}]
    BY <1>3, <2>1, ValueType DEF CompareAndSet, TypeOK, Record
  <2>3. added' \in [Client -> SUBSET Key]
    BY <1>3 DEF CompareAndSet, TypeOK
  <2> QED
    BY <1>3, <2>2, <2>3 DEF CompareAndSet, TypeOK
<1>4. ASSUME NEW c \in Client, NEW k \in Key, CompareAndSetConflict(c, k)
      PROVE  TypeOK'
  BY <1>4 DEF CompareAndSetConflict, TypeOK, storage
<1>5. ASSUME NEW c \in Client, NEW r \in Resource, DenyLease(c, r)
      PROVE  TypeOK'
  <2>1. belief' = belief \/ belief' = [belief EXCEPT ![c][r] = None]
    BY <1>5 DEF DenyLease
  <2>2. belief' \in [Client -> [Resource -> Belief \cup {None}]]
    <3>1. belief \in [Client -> [Resource -> Belief \cup {None}]]
      BY DEF TypeOK
    <3> QED
      BY <2>1, <3>1
  <2>3. UNCHANGED <<now, storage, known, added, grants, shortened>>
    BY <1>5 DEF DenyLease
  <2> QED
    BY <2>2, <2>3 DEF TypeOK, storage
<1>6. ASSUME NEW c \in Client, NEW r \in Resource, NEW ttl \in TtlMs, GrantLease(c, r, ttl)
      PROVE  TypeOK'
  <2>1. NextToken(r) \in Nat /\ now + ttl \in Nat
    BY NextTokenType, TtlAssumption DEF TypeOK
  <2>2. /\ lease' \in [Resource -> Lease \cup {None}]
        /\ lease'[r] \in Lease
        /\ counter' \in [Resource -> Nat]
        /\ grants' \subseteq Grant
    BY <1>6, <2>1 DEF GrantLease, TypeOK, Lease, Grant
  <2>3. belief' \in [Client -> [Resource -> Belief \cup {None}]]
    BY <1>6, <2>2, ToldType DEF GrantLease
  <2> QED
    BY <1>6, <2>2, <2>3 DEF GrantLease, TypeOK
<1>7. ASSUME NEW c \in Client, NEW r \in Resource, NEW ttl \in TtlMs, RenewLease(c, r, ttl)
      PROVE  TypeOK'
  <2>1. now + ttl \in Nat /\ lease[r] \in Lease
    BY <1>7, TtlAssumption DEF TypeOK, RenewLease, MayRenew, LeaseIsLive
  <2>2. lease' = [lease EXCEPT ![r] = [lease[r] EXCEPT !.expires = now + ttl]]
    BY <1>7 DEF RenewLease
  <2>3. lease' \in [Resource -> Lease \cup {None}] /\ lease'[r] \in Lease
    BY <2>1, <2>2 DEF TypeOK, Lease
  <2>4. belief' \in [Client -> [Resource -> Belief \cup {None}]]
    BY <1>7, <2>3, ToldType DEF RenewLease
  <2> QED
    BY <1>7, <2>3, <2>4 DEF RenewLease, TypeOK
<1>8. ASSUME NEW g \in grants, ReleaseLease(g)
      PROVE  TypeOK'
  <2>1. g.holder \in Client /\ g.resource \in Resource
    BY DEF TypeOK, Grant
  <2>2. belief' \in [Client -> [Resource -> Belief \cup {None}]]
    BY <1>8, <2>1 DEF ReleaseLease, Drop, TypeOK
  <2>3. lease' \in [Resource -> Lease \cup {None}]
    BY <1>8, <2>1 DEF ReleaseLease, Vacate, TypeOK
  <2> QED
    BY <1>8, <2>2, <2>3 DEF ReleaseLease, TypeOK
<1>9. CASE UNCHANGED vars
  BY <1>9 DEF vars, storage, TypeOK
<1> QED
  BY <1>1, <1>2, <1>3, <1>4, <1>5, <1>6, <1>7, <1>8, <1>9 DEF Next

(* Every reachable state is well typed.                                     *)
THEOREM TypeCorrect == Spec => []TypeOK
BY TypeInit, TypeStep, PTL DEF Spec

-----------------------------------------------------------------------------
(* State.  What a caller read is what is there, until the version moves on. *)
KnownInv ==
  \A c \in Client, k \in Key : known[c][k] # None =>
    /\ known[c][k].version <= ActualVersion(k)
    /\ known[c][k].version = ActualVersion(k) => known[c][k].value = Value(k)

StateInv == TypeOK /\ KnownInv /\ AcknowledgedEntriesSurvive

LEMMA StateStep == StateInv /\ [Next]_vars => StateInv'
<1> SUFFICES ASSUME StateInv, [Next]_vars
             PROVE  KnownInv' /\ AcknowledgedEntriesSurvive'
  BY TypeStep DEF StateInv
<1> USE DEF StateInv
<1>1. ASSUME UNCHANGED <<kv, known, added>>
      PROVE  KnownInv' /\ AcknowledgedEntriesSurvive'
  BY <1>1 DEF KnownInv, AcknowledgedEntriesSurvive, ActualVersion, Value
<1>2. ASSUME NEW c \in Client, NEW k \in Key, GetState(c, k)
      PROVE  KnownInv' /\ AcknowledgedEntriesSurvive'
  <2>1. UNCHANGED <<kv, added>>
    BY <1>2 DEF GetState, storage
  <2>2. \A l \in Key : ActualVersion(l)' = ActualVersion(l) /\ Value(l)' = Value(l)
    BY <2>1 DEF ActualVersion, Value
  <2>3. /\ known'[c][k] = [version |-> ActualVersion(k), value |-> Value(k)]
        /\ \A d \in Client, l \in Key :
             d # c \/ l # k => known'[d][l] = known[d][l]
    BY <1>2 DEF GetState, TypeOK
  <2>4. KnownInv'
    BY <2>2, <2>3, ValueType DEF KnownInv
  <2> QED
    BY <2>1, <2>2, <2>4 DEF AcknowledgedEntriesSurvive, TypeOK
<1>3. ASSUME NEW c \in Client, NEW k \in Key, CompareAndSet(c, k)
      PROVE  KnownInv' /\ AcknowledgedEntriesSurvive'
  <2>1. known[c][k].version = ActualVersion(k) /\ known[c][k].value = Value(k)
    BY <1>3 DEF CompareAndSet, VersionConflict, KnownInv
  <2>2. kv' = [kv EXCEPT ![k] = [version |-> ActualVersion(k) + 1, value |-> Value(k) \cup {c}]]
    BY <1>3, <2>1 DEF CompareAndSet
  <2>3. kv'[k] # None
    BY <2>2, NoneAssumption, ValueType DEF TypeOK, Record
  <2>4. /\ ActualVersion(k)' = ActualVersion(k) + 1
        /\ Value(k)' = Value(k) \cup {c}
    BY <2>2, <2>3 DEF ActualVersion, Value, TypeOK
  <2>5. \A l \in Key \ {k} : ActualVersion(l)' = ActualVersion(l) /\ Value(l)' = Value(l)
    BY <2>2 DEF ActualVersion, Value, TypeOK
  <2>6. \A d \in Client, l \in Key :
          known'[d][l] # None => known'[d][l] = known[d][l]
    BY <1>3 DEF CompareAndSet, TypeOK
  <2>7. KnownInv'
    <3>1. SUFFICES ASSUME NEW d \in Client, NEW l \in Key, known'[d][l] # None
                   PROVE  /\ known'[d][l].version <= ActualVersion(l)'
                          /\ known'[d][l].version = ActualVersion(l)' =>
                               known'[d][l].value = Value(l)'
      BY DEF KnownInv
    <3>2. known'[d][l] = known[d][l] /\ known[d][l].version \in Nat
      BY <2>6, <3>1 DEF TypeOK, Record
    <3>3. /\ known[d][l].version <= ActualVersion(l)
          /\ known[d][l].version = ActualVersion(l) => known[d][l].value = Value(l)
      BY <3>1, <3>2 DEF KnownInv
    <3>4. CASE l = k
      BY <2>4, <3>2, <3>3, <3>4, ValueType
    <3>5. CASE l # k
      BY <2>5, <3>2, <3>3, <3>5
    <3> QED
      BY <3>4, <3>5
  <2>8. \A d \in Client : \A l \in added'[d] : l \in added[d] \/ (d = c /\ l = k)
    BY <1>3 DEF CompareAndSet, TypeOK
  <2>9. AcknowledgedEntriesSurvive'
    BY <2>4, <2>5, <2>8 DEF AcknowledgedEntriesSurvive, TypeOK
  <2> QED
    BY <2>7, <2>9
<1>4. ASSUME NEW c \in Client, NEW k \in Key, CompareAndSetConflict(c, k)
      PROVE  KnownInv' /\ AcknowledgedEntriesSurvive'
  <2>1. UNCHANGED <<kv, added>>
    BY <1>4 DEF CompareAndSetConflict, storage
  <2>2. \A d \in Client, l \in Key : known'[d][l] # None => known'[d][l] = known[d][l]
    BY <1>4 DEF CompareAndSetConflict, TypeOK
  <2> QED
    BY <2>1, <2>2 DEF KnownInv, AcknowledgedEntriesSurvive, ActualVersion, Value
<1>5. ASSUME NEW c \in Client, NEW r \in Resource,
             \/ DenyLease(c, r)
             \/ \E ttl \in TtlMs : GrantLease(c, r, ttl) \/ RenewLease(c, r, ttl)
      PROVE  UNCHANGED <<kv, known, added>>
  BY <1>5 DEF DenyLease, GrantLease, RenewLease, storage
<1>6. ASSUME NEW g \in grants, ReleaseLease(g)
      PROVE  UNCHANGED <<kv, known, added>>
  BY <1>6 DEF ReleaseLease
<1>7. CASE Tick \/ UNCHANGED vars
  BY <1>1, <1>7 DEF Tick, vars, storage
<1> QED
  BY <1>1, <1>2, <1>3, <1>4, <1>5, <1>6, <1>7 DEF Next

(* No acknowledged write is lost.                                           *)
THEOREM NoLostUpdate == Spec => []AcknowledgedEntriesSurvive
<1>1. Init => StateInv
  BY TypeInit DEF Init, StateInv, KnownInv, AcknowledgedEntriesSurvive
<1> QED
  BY <1>1, StateStep, PTL DEF Spec, StateInv

-----------------------------------------------------------------------------
(* Leases.  The lease on file carries the newest token and its holder's     *)
(* grant; a caller believes only in tokens it was granted.                  *)
OnFile == \A r \in Resource : lease[r] # None =>
            /\ lease[r].token = counter[r]
            /\ [resource |-> r, holder |-> lease[r].holder, token |-> counter[r]] \in grants
Granted == \A c \in Client, r \in Resource : belief[c][r] # None =>
             [resource |-> r, holder |-> c, token |-> belief[c][r].token] \in grants

LeaseInv == TypeOK /\ OnFile /\ Granted /\ TokenNamesOneHolder /\ NewestGrantOnFile

LEMMA LeaseInit == Init => LeaseInv
BY TypeInit DEF Init, LeaseInv, OnFile, Granted, TokenNamesOneHolder, NewestGrantOnFile

(* The token a free resource is granted under is the next number.           *)
LEMMA NextTokenIsNext ==
  ASSUME LeaseInv, NEW r \in Resource
  PROVE  NextToken(r) = counter[r] + 1
<1>1. counter[r] \in Nat /\ (lease[r] # None => lease[r].token = counter[r])
  BY DEF LeaseInv, TypeOK, OnFile
<1> QED
  BY <1>1 DEF NextToken

(* Whoever a step tells something is c, about r: what lease' has.           *)
LEMMA ToldOnly ==
  ASSUME TypeOK, NEW c \in Client, NEW r \in Resource, Told(c, r)
  PROVE  \A d \in Client, q \in Resource :
           \/ belief'[d][q] = belief[d][q]
           \/ /\ d = c /\ q = r
              /\ belief'[d][q] = [token |-> lease'[r].token, until |-> lease'[r].expires]
<1> DEFINE b == [token |-> lease'[r].token, until |-> lease'[r].expires]
<1>1. belief' = belief \/ belief' = [belief EXCEPT ![c][r] = b]
  BY DEF Told
<1>2. belief \in [Client -> [Resource -> Belief \cup {None}]]
  BY DEF TypeOK
<1> HIDE DEF b
<1>3. \A d \in Client, q \in Resource :
        belief'[d][q] = belief[d][q] \/ (d = c /\ q = r /\ belief'[d][q] = b)
  BY <1>1, <1>2
<1> QED
  BY <1>3 DEF b

LEMMA GrantStep ==
  ASSUME LeaseInv, NEW c \in Client, NEW r \in Resource, NEW ttl \in TtlMs,
         GrantLease(c, r, ttl), TypeOK'
  PROVE  LeaseInv'
<1> DEFINE n == counter[r] + 1
           g == [resource |-> r, holder |-> c, token |-> n]
<1>1. /\ counter' = [counter EXCEPT ![r] = n]
      /\ lease' = [lease EXCEPT ![r] = [holder |-> c, token |-> n, expires |-> now + ttl]]
      /\ grants' = grants \cup {g}
      /\ Told(c, r)
  BY NextTokenIsNext DEF GrantLease
<1>2. n \in Nat /\ counter[r] \in Nat /\ TypeOK /\ now + ttl \in Nat
  BY TtlAssumption DEF LeaseInv, TypeOK
<1>3. lease'[r] = [holder |-> c, token |-> n, expires |-> now + ttl] /\ counter'[r] = n
  BY <1>1, <1>2 DEF TypeOK
<1>4. lease'[r] # None
  BY <1>2, <1>3, NoneAssumption DEF Lease
<1>5. \A q \in Resource \ {r} : lease'[q] = lease[q] /\ counter'[q] = counter[q]
  BY <1>1, <1>2 DEF TypeOK
<1>6. \A d \in Client, q \in Resource :
        \/ belief'[d][q] = belief[d][q]
        \/ d = c /\ q = r /\ belief'[d][q] = [token |-> n, until |-> now + ttl]
  BY <1>1, <1>2, <1>3, ToldOnly
<1>7. \A h \in grants : h.token \in 1..counter[h.resource] /\ h.resource \in Resource
  BY <1>2 DEF LeaseInv, TokenNamesOneHolder, TypeOK, Grant
<1>8. OnFile'
  BY <1>1, <1>3, <1>5 DEF OnFile, LeaseInv
<1>9. Granted'
  BY <1>1, <1>6 DEF Granted, LeaseInv
<1>10. TokenNamesOneHolder'
  <2>1. \A h \in grants : h.resource = r => h.token < n
    BY <1>2, <1>7
  <2>2. \A h \in grants' : h \in grants \/ h = g
    BY <1>1
  <2>3. \A h, k \in grants' : h.resource = k.resource /\ h.token = k.token => h.holder = k.holder
    BY <1>2, <2>1, <2>2 DEF LeaseInv, TokenNamesOneHolder
  <2>4. \A h \in grants' : h.token \in 1..counter'[h.resource]
    <3>1. \A q \in Resource : counter[q] \in Nat /\ counter'[q] \in Nat /\ counter[q] <= counter'[q]
      BY <1>2, <1>3, <1>5 DEF TypeOK
    <3> QED
      BY <1>2, <1>3, <1>7, <2>2, <3>1
  <2> QED
    BY <2>3, <2>4 DEF TokenNamesOneHolder
<1>11. NewestGrantOnFile'
  <2>1. SUFFICES ASSUME NEW d \in Client, NEW q \in Resource, belief'[d][q] # None,
                        belief'[d][q].token = counter'[q]
                 PROVE  lease'[q] # None /\ lease'[q].holder = d /\ lease'[q].token = counter'[q]
    BY DEF NewestGrantOnFile
  <2>2. CASE belief'[d][q] = belief[d][q]
    <3>1. belief[d][q].token <= counter[q]
      <4>1. [resource |-> q, holder |-> d, token |-> belief[d][q].token] \in grants
        BY <2>1, <2>2 DEF LeaseInv, Granted
      <4> QED
        BY <1>2, <1>7, <4>1 DEF TypeOK
    <3>2. q # r
      BY <1>2, <1>3, <2>1, <2>2, <3>1
    <3> QED
      BY <1>5, <2>1, <2>2, <3>2 DEF LeaseInv, NewestGrantOnFile
  <2>3. CASE d = c /\ q = r
    BY <1>3, <1>4, <2>3
  <2> QED
    BY <1>6, <2>2, <2>3
<1> QED
  BY <1>8, <1>9, <1>10, <1>11 DEF LeaseInv

LEMMA RenewStep ==
  ASSUME LeaseInv, NEW c \in Client, NEW r \in Resource, NEW ttl \in TtlMs,
         RenewLease(c, r, ttl), TypeOK'
  PROVE  LeaseInv'
<1>1. /\ lease[r] # None /\ lease[r].holder = c
      /\ lease' = [lease EXCEPT ![r] = [lease[r] EXCEPT !.expires = now + ttl]]
      /\ Told(c, r) /\ UNCHANGED <<counter, grants>>
  BY DEF RenewLease, MayRenew, LeaseIsLive
<1>2. TypeOK /\ lease[r] \in Lease
  BY <1>1 DEF LeaseInv, TypeOK
<1>3. /\ lease'[r] \in Lease /\ lease'[r].holder = c
      /\ lease'[r].token = lease[r].token
  <2>1. now + ttl \in Nat
    BY <1>2, TtlAssumption DEF TypeOK
  <2>2. lease'[r] = [lease[r] EXCEPT !.expires = now + ttl]
    BY <1>1, <1>2 DEF TypeOK
  <2> QED
    BY <1>1, <1>2, <2>1, <2>2 DEF Lease
<1>4. lease'[r] # None /\ lease[r].token = counter[r]
  BY <1>1, <1>3, NoneAssumption DEF LeaseInv, OnFile
<1>5. \A q \in Resource \ {r} : lease'[q] = lease[q]
  BY <1>1, <1>2 DEF TypeOK
<1>6. \A d \in Client, q \in Resource :
        \/ belief'[d][q] = belief[d][q]
        \/ d = c /\ q = r /\ belief'[d][q].token = counter[r]
  <2>1. \A d \in Client, q \in Resource :
          \/ belief'[d][q] = belief[d][q]
          \/ /\ d = c /\ q = r
             /\ belief'[d][q] = [token |-> lease'[r].token, until |-> lease'[r].expires]
    BY <1>1, <1>2, ToldOnly
  <2>2. lease'[r].token = counter[r]
    BY <1>3, <1>4
  <2> QED
    BY <2>1, <2>2
<1>7. OnFile'
  BY <1>1, <1>3, <1>4, <1>5 DEF OnFile, LeaseInv
<1>8. Granted'
  <2>1. [resource |-> r, holder |-> c, token |-> counter[r]] \in grants
    BY <1>1 DEF LeaseInv, OnFile
  <2> QED
    BY <1>1, <1>6, <2>1 DEF Granted, LeaseInv
<1>9. TokenNamesOneHolder'
  BY <1>1 DEF TokenNamesOneHolder, LeaseInv
<1>10. NewestGrantOnFile'
  BY <1>1, <1>3, <1>4, <1>5, <1>6 DEF NewestGrantOnFile, LeaseInv
<1> QED
  BY <1>7, <1>8, <1>9, <1>10 DEF LeaseInv

LEMMA DenyStep ==
  ASSUME LeaseInv, NEW c \in Client, NEW r \in Resource, DenyLease(c, r), TypeOK'
  PROVE  LeaseInv'
<1>1. UNCHANGED <<lease, counter, grants>>
  BY DEF DenyLease, storage
<1>2. belief' = belief \/ belief' = [belief EXCEPT ![c][r] = None]
  BY DEF DenyLease
<1>3. belief \in [Client -> [Resource -> Belief \cup {None}]]
  BY DEF LeaseInv, TypeOK
<1>4. \A d \in Client, q \in Resource : belief'[d][q] # None => belief'[d][q] = belief[d][q]
  BY <1>2, <1>3
<1> QED
  BY <1>1, <1>4 DEF LeaseInv, OnFile, Granted, TokenNamesOneHolder, NewestGrantOnFile

LEMMA ReleaseStep ==
  ASSUME LeaseInv, NEW g \in grants, ReleaseLease(g), TypeOK'
  PROVE  LeaseInv'
<1> DEFINE c == g.holder
           r == g.resource
<1>1. c \in Client /\ r \in Resource /\ TypeOK
  BY DEF LeaseInv, TypeOK, Grant
<1>2. UNCHANGED <<counter, grants>>
  BY DEF ReleaseLease
<1>3. \A q \in Resource : lease'[q] # None => lease'[q] = lease[q]
  BY <1>1 DEF ReleaseLease, Vacate, TypeOK
<1>4. \A d \in Client, q \in Resource : belief'[d][q] # None => belief'[d][q] = belief[d][q]
  BY <1>1 DEF ReleaseLease, Drop, TypeOK
<1>5. OnFile' /\ Granted' /\ TokenNamesOneHolder'
  BY <1>2, <1>3, <1>4 DEF LeaseInv, OnFile, Granted, TokenNamesOneHolder
<1>6. NewestGrantOnFile'
  <2>1. SUFFICES ASSUME NEW d \in Client, NEW q \in Resource, belief'[d][q] # None,
                        belief'[d][q].token = counter'[q]
                 PROVE  lease'[q] # None /\ lease'[q].holder = d /\ lease'[q].token = counter'[q]
    BY DEF NewestGrantOnFile
  <2>2. lease[q] # None /\ lease[q].holder = d /\ lease[q].token = counter[q]
        /\ belief[d][q] # None /\ belief[d][q].token = counter[q]
    BY <1>2, <1>4, <2>1 DEF LeaseInv, NewestGrantOnFile
  <2>3. lease'[q] = lease[q]
    <3>1. CASE q # r \/ ~MayRelease(g)
      BY <1>1, <3>1 DEF ReleaseLease, Vacate, TypeOK
    <3>2. CASE q = r /\ MayRelease(g)
      <4>1. d = c /\ belief[c][r] # None /\ belief[c][r].token = g.token
        BY <2>2, <3>2 DEF MayRelease
      <4>2. belief'[d][q] = None
        BY <1>1, <3>2, <4>1 DEF ReleaseLease, Drop, TypeOK
      <4> QED
        BY <2>1, <4>2
    <3> QED
      BY <3>1, <3>2
  <2> QED
    BY <1>2, <2>2, <2>3
<1> QED
  BY <1>5, <1>6 DEF LeaseInv

LEMMA LeaseStep == LeaseInv /\ [Next]_vars => LeaseInv'
<1> SUFFICES ASSUME LeaseInv, [Next]_vars
             PROVE  LeaseInv'
  OBVIOUS
<1>1. TypeOK'
  BY TypeStep DEF LeaseInv
<1>2. CASE UNCHANGED <<lease, counter, grants, belief>>
  BY <1>1, <1>2 DEF LeaseInv, OnFile, Granted, TokenNamesOneHolder, NewestGrantOnFile
<1>3. ASSUME NEW c \in Client, NEW k \in Key,
             GetState(c, k) \/ CompareAndSet(c, k) \/ CompareAndSetConflict(c, k)
      PROVE  UNCHANGED <<lease, counter, grants, belief>>
  BY <1>3 DEF GetState, CompareAndSet, CompareAndSetConflict, storage
<1>4. CASE Tick \/ UNCHANGED vars
  BY <1>2, <1>4 DEF Tick, vars, storage
<1> QED
  BY <1>1, <1>2, <1>3, <1>4, GrantStep, RenewStep, DenyStep, ReleaseStep DEF Next

(* A token names one holder for ever.                                       *)
THEOREM TokensUnique == Spec => []TokenNamesOneHolder
BY LeaseInit, LeaseStep, PTL DEF Spec, LeaseInv

(* Late or repeated releases never take a newer grant off the file.         *)
THEOREM StaleReleaseHarmless == Spec => []NewestGrantOnFile
BY LeaseInit, LeaseStep, PTL DEF Spec, LeaseInv

-----------------------------------------------------------------------------
(* Whoever believes to hold a resource whose lease was never shortened is   *)
(* on file with that token, at least as long as it believes.                *)
BelieverInv ==
  \A c \in Client, r \in Resource \ shortened : Believes(c, r) =>
    /\ lease[r] # None /\ lease[r].holder = c
    /\ lease[r].token = belief[c][r].token
    /\ belief[c][r].until <= lease[r].expires

LEMMA BelieverStep == LeaseInv /\ BelieverInv /\ [Next]_vars => BelieverInv'
<1> SUFFICES ASSUME LeaseInv, BelieverInv, [Next]_vars
             PROVE  BelieverInv'
  OBVIOUS
<1>1. TypeOK /\ TypeOK'
  BY TypeStep DEF LeaseInv
<1>2. now \in Nat /\ now' \in Nat /\ TtlMs \subseteq Nat
  BY <1>1, TtlAssumption DEF TypeOK
<1>3. /\ \A r \in Resource : lease[r] # None => lease[r].expires \in Nat
      /\ \A c \in Client, r \in Resource : belief[c][r] # None => belief[c][r].until \in Nat
  BY <1>1 DEF TypeOK, Lease, Belief
<1>4. \A c \in Client, r \in Resource \ shortened : Believes(c, r) =>
        /\ lease[r] # None /\ lease[r].holder = c
        /\ lease[r].token = belief[c][r].token
        /\ belief[c][r].until <= lease[r].expires
  BY DEF BelieverInv
<1>5. CASE UNCHANGED <<lease, belief, shortened>> /\ now' \in {now, now + 1}
  BY <1>2, <1>3, <1>4, <1>5 DEF BelieverInv, Believes
<1>6. ASSUME NEW c \in Client, NEW r \in Resource, NEW ttl \in TtlMs, NEW n \in Nat,
             now' = now, Told(c, r), shortened \subseteq shortened',
             lease' = [lease EXCEPT ![r] = [holder |-> c, token |-> n, expires |-> now + ttl]],
             \/ ~LeaseIsLive(r)
             \/ /\ lease[r] # None /\ lease[r].holder = c /\ lease[r].token = n
                /\ r \notin shortened' => lease[r].expires <= now + ttl
      PROVE  BelieverInv'
  <2>1. lease'[r] = [holder |-> c, token |-> n, expires |-> now + ttl]
    BY <1>1, <1>6 DEF TypeOK
  <2>2. lease'[r] # None
    BY <1>2, <2>1, NoneAssumption DEF Lease
  <2>3. \A q \in Resource \ {r} : lease'[q] = lease[q]
    BY <1>1, <1>6 DEF TypeOK
  <2>4. ASSUME NEW d \in Client, NEW q \in Resource \ shortened',
               belief'[d][q] # None, belief'[d][q].until > now
        PROVE  /\ lease'[q] # None /\ lease'[q].holder = d
               /\ lease'[q].token = belief'[d][q].token
               /\ belief'[d][q].until <= lease'[q].expires
    <3>1. \/ belief'[d][q] = belief[d][q]
          \/ d = c /\ q = r /\ belief'[d][q] = [token |-> n, until |-> now + ttl]
      BY <1>1, <1>6, <2>1, ToldOnly
    <3>2. CASE belief'[d][q] = belief[d][q]
      <4>1. /\ lease[q] # None /\ lease[q].holder = d
            /\ lease[q].token = belief[d][q].token
            /\ belief[d][q].until <= lease[q].expires
        BY <1>4, <1>6, <2>4, <3>2 DEF Believes
      <4>2. CASE q # r
        BY <2>3, <3>2, <4>1, <4>2
      <4>3. CASE q = r
        <5>1. LeaseIsLive(r)
          BY <1>2, <1>3, <2>4, <3>2, <4>1, <4>3 DEF LeaseIsLive
        <5>2. lease[r].holder = c /\ lease[r].token = n /\ lease[r].expires <= now + ttl
          BY <1>6, <2>4, <4>3, <5>1
        <5> QED
          BY <1>2, <1>3, <2>1, <2>2, <2>4, <3>2, <4>1, <4>3, <5>2
      <4> QED
        BY <4>2, <4>3
    <3>3. CASE d = c /\ q = r /\ belief'[d][q] = [token |-> n, until |-> now + ttl]
      BY <1>2, <2>1, <2>2, <3>3
    <3> QED
      BY <3>1, <3>2, <3>3
  <2> QED
    BY <1>6, <2>4 DEF BelieverInv, Believes
<1>7. ASSUME NEW c \in Client, NEW r \in Resource, NEW ttl \in TtlMs, GrantLease(c, r, ttl)
      PROVE  BelieverInv'
  BY <1>1, <1>6, <1>7, NextTokenType DEF GrantLease
<1>8. ASSUME NEW c \in Client, NEW r \in Resource, NEW ttl \in TtlMs, RenewLease(c, r, ttl)
      PROVE  BelieverInv'
  <2>1. /\ lease[r] # None /\ lease[r].holder = c /\ now' = now /\ Told(c, r)
        /\ lease' = [lease EXCEPT ![r] = [lease[r] EXCEPT !.expires = now + ttl]]
        /\ shortened' = IF now + ttl < lease[r].expires THEN shortened \cup {r} ELSE shortened
    BY <1>8 DEF RenewLease, MayRenew, LeaseIsLive
  <2>2. lease[r] \in Lease
    BY <1>1, <2>1 DEF TypeOK
  <2>3. /\ [lease[r] EXCEPT !.expires = now + ttl]
              = [holder |-> c, token |-> lease[r].token, expires |-> now + ttl]
        /\ lease[r].token \in Nat
    BY <2>1, <2>2 DEF Lease
  <2>4. /\ shortened \subseteq shortened'
        /\ r \notin shortened' => lease[r].expires <= now + ttl
    BY <1>2, <1>3, <2>1
  <2> QED
    BY <1>6, <2>1, <2>3, <2>4
<1>9. ASSUME NEW c \in Client, NEW r \in Resource, DenyLease(c, r)
      PROVE  BelieverInv'
  <2>1. UNCHANGED <<now, lease, shortened>>
    BY <1>9 DEF DenyLease, storage
  <2>2. belief' = belief \/ belief' = [belief EXCEPT ![c][r] = None]
    BY <1>9 DEF DenyLease
  <2>3. belief \in [Client -> [Resource -> Belief \cup {None}]]
    BY <1>1 DEF TypeOK
  <2>4. \A d \in Client, q \in Resource : belief'[d][q] # None => belief'[d][q] = belief[d][q]
    BY <2>2, <2>3
  <2> QED
    BY <1>4, <2>1, <2>4 DEF BelieverInv, Believes
<1>10. ASSUME NEW g \in grants, ReleaseLease(g)
       PROVE  BelieverInv'
  <2> DEFINE r == g.resource
  <2>1. g.holder \in Client /\ r \in Resource /\ now' = now /\ shortened' = shortened
    BY <1>1, <1>10 DEF TypeOK, Grant, ReleaseLease
  <2>2. \A d \in Client, q \in Resource : belief'[d][q] # None => belief'[d][q] = belief[d][q]
    BY <1>1, <1>10, <2>1 DEF ReleaseLease, Drop, TypeOK
  <2>3. ASSUME NEW d \in Client, NEW q \in Resource \ shortened',
               belief'[d][q] # None, belief'[d][q].until > now
        PROVE  lease'[q] = lease[q]
    <3>1. lease[q] # None /\ lease[q].holder = d /\ lease[q].token = belief[d][q].token
          /\ belief[d][q] # None
      BY <1>4, <2>1, <2>2, <2>3 DEF Believes
    <3>2. CASE q # r \/ ~MayRelease(g)
      BY <1>1, <1>10, <2>1, <3>2 DEF ReleaseLease, Vacate, TypeOK
    <3>3. CASE q = r /\ MayRelease(g)
      <4>1. d = g.holder /\ belief[d][r].token = g.token
        BY <3>1, <3>3 DEF MayRelease
      <4>2. belief'[d][q] = None
        BY <1>1, <1>10, <2>1, <3>1, <3>3, <4>1 DEF ReleaseLease, Drop, TypeOK
      <4> QED
        BY <2>3, <4>2
    <3> QED
      BY <3>2, <3>3
  <2> QED
    BY <1>4, <2>1, <2>2, <2>3 DEF BelieverInv, Believes
<1>11. CASE Tick \/ UNCHANGED vars
  BY <1>5, <1>11 DEF Tick, vars, storage
<1>12. ASSUME NEW c \in Client, NEW k \in Key,
              GetState(c, k) \/ CompareAndSet(c, k) \/ CompareAndSetConflict(c, k)
       PROVE  BelieverInv'
  BY <1>5, <1>12 DEF GetState, CompareAndSet, CompareAndSetConflict, storage
<1> QED
  BY <1>7, <1>8, <1>9, <1>10, <1>11, <1>12 DEF Next

(* Two callers never both act as holder of a resource whose lease was never *)
(* shortened by a renewal.                                                  *)
THEOREM MutualExclusion == Spec => []AtMostOneBeliever
<1>1. Init => BelieverInv
  BY DEF Init, BelieverInv, Believes
<1>2. BelieverInv => AtMostOneBeliever
  BY DEF BelieverInv, AtMostOneBeliever
<1> QED
  BY <1>1, <1>2, LeaseInit, LeaseStep, BelieverStep, PTL DEF Spec

-----------------------------------------------------------------------------
(* The leases implement the fenced lock: a grant issues a token, a release  *)
(* that matches gives it up, everything else leaves owner and token alone.  *)
THEOREM ImplementsFencedLock == Spec => Fenced
<1>1. Init => Lock!Init
  BY DEF Init, Lock!Init, Owner
<1>2. ASSUME LeaseInv, [Next]_vars
      PROVE  [Lock!Next]_(Lock!vars)
  <2>1. TypeOK /\ OnFile
    BY <1>2 DEF LeaseInv
  <2>2. CASE UNCHANGED <<lease, counter>>
    BY <2>2 DEF Lock!vars, Owner
  <2>3. ASSUME NEW c \in Client, NEW k \in Key,
               GetState(c, k) \/ CompareAndSet(c, k) \/ CompareAndSetConflict(c, k)
        PROVE  UNCHANGED <<lease, counter>>
    BY <2>3 DEF GetState, CompareAndSet, CompareAndSetConflict, storage
  <2>4. ASSUME NEW c \in Client, NEW r \in Resource, NEW ttl \in TtlMs, GrantLease(c, r, ttl)
        PROVE  Lock!Next
    <3> DEFINE n == counter[r] + 1
    <3>1. /\ counter' = [counter EXCEPT ![r] = n]
          /\ lease' = [lease EXCEPT ![r] = [holder |-> c, token |-> n, expires |-> now + ttl]]
      BY <1>2, <2>4, NextTokenIsNext DEF GrantLease
    <3>2. n \in Nat /\ now + ttl \in Nat
      BY <2>1, TtlAssumption DEF TypeOK
    <3>3. lease'[r] = [holder |-> c, token |-> n, expires |-> now + ttl] /\ lease'[r] # None
      BY <2>1, <3>1, <3>2, NoneAssumption DEF TypeOK, Lease
    <3>4. Owner(r)' = [holder |-> c, token |-> n]
      BY <3>3 DEF Owner
    <3>5. \A q \in Resource \ {r} : Owner(q)' = Owner(q)
      BY <2>1, <3>1 DEF Owner, TypeOK
    <3>6. Lock!Issue(r, c)
      BY <3>1, <3>4, <3>5 DEF Lock!Issue
    <3> QED
      BY <3>6 DEF Lock!Next
  <2>5. ASSUME NEW c \in Client, NEW r \in Resource, NEW ttl \in TtlMs, RenewLease(c, r, ttl)
        PROVE  UNCHANGED Lock!vars
    <3>1. /\ lease[r] # None /\ counter' = counter
          /\ lease' = [lease EXCEPT ![r] = [lease[r] EXCEPT !.expires = now + ttl]]
      BY <2>5 DEF RenewLease, MayRenew, LeaseIsLive
    <3>2. lease[r] \in Lease /\ now + ttl \in Nat
      BY <2>1, <3>1, TtlAssumption DEF TypeOK
    <3>3. lease'[r] = [lease[r] EXCEPT !.expires = now + ttl]
      BY <2>1, <3>1 DEF TypeOK
    <3>4. lease'[r] \in Lease /\ lease'[r].holder = lease[r].holder /\ lease'[r].token = lease[r].token
      BY <3>2, <3>3 DEF Lease
    <3>5. Owner(r)' = Owner(r)
      BY <3>1, <3>4, NoneAssumption DEF Owner
    <3>6. \A q \in Resource \ {r} : Owner(q)' = Owner(q)
      BY <2>1, <3>1 DEF Owner, TypeOK
    <3> QED
      BY <3>1, <3>5, <3>6 DEF Lock!vars
  <2>6. ASSUME NEW c \in Client, NEW r \in Resource, DenyLease(c, r)
        PROVE  UNCHANGED <<lease, counter>>
    BY <2>6 DEF DenyLease, storage
  <2>7. ASSUME NEW g \in grants, ReleaseLease(g)
        PROVE  [Lock!Next]_(Lock!vars)
    <3>1. CASE ~MayRelease(g)
      BY <2>2, <2>7, <3>1 DEF ReleaseLease
    <3>2. CASE MayRelease(g)
      <4> DEFINE r == g.resource
      <4>1. r \in Resource /\ lease[r] # None /\ counter' = counter
            /\ lease' = [lease EXCEPT ![r] = None]
        BY <2>1, <2>7, <3>2 DEF ReleaseLease, MayRelease, Vacate, TypeOK, Grant
      <4>2. Owner(r)' = None /\ \A q \in Resource \ {r} : Owner(q)' = Owner(q)
        BY <2>1, <4>1 DEF Owner, TypeOK
      <4>3. Owner(r) # None
        <5>1. lease[r] \in Lease
          BY <2>1, <4>1 DEF TypeOK
        <5> QED
          BY <4>1, <5>1, NoneAssumption DEF Owner, Lease
      <4>4. Lock!GiveUp(r)
        BY <4>1, <4>2, <4>3 DEF Lock!GiveUp
      <4> QED
        BY <4>1, <4>4 DEF Lock!Next
    <3> QED
      BY <3>1, <3>2
  <2>8. CASE Tick \/ UNCHANGED vars
    BY <2>2, <2>8 DEF Tick, vars, storage
  <2> QED
    BY <1>2, <2>2, <2>3, <2>4, <2>5, <2>6, <2>7, <2>8 DEF Next
<1> QED
  BY <1>1, <1>2, LeaseInit, LeaseStep, PTL DEF Spec, Fenced, Lock!Spec
=============================================================================
