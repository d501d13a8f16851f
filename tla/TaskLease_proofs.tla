--------------------------- MODULE TaskLease_proofs ---------------------------
(* The lease is safe for any conversations and any number of attempts.        *)
EXTENDS TaskLease, TLAPS

\* BoundOnce over all pairs: no conversation is bound to two attempts.
BoundToOne ==
  \A q, r \in DOMAIN leases : \A s \in Sessions : Bound(q, s) /\ Bound(r, s) => q = r

\* While a transfer is under way nobody works on the attempt or acts for it.
OffersAreQuiet ==
  \A r \in DOMAIN leases : leases[r].offers # {} =>
    /\ leases[r].offers \subseteq leases[r].receivers
    /\ ~ leases[r].working
    /\ \A s \in acting : ~ Bound(r, s)

IInv == TypeOK /\ BoundToOne /\ OnlyHoldersAct /\ OffersAreQuiet

\* Nothing is claimed and nobody acts at first.
LEMMA InitIInv == Init => IInv
  BY DEF Init, IInv, TypeOK, BoundToOne, OnlyHoldersAct, OffersAreQuiet

\* The holder is one of the conversations bound to the attempt.
LEMMA HolderIsBound ==
  ASSUME TypeOK, NEW r \in DOMAIN leases
  PROVE  Holder(r) \in Sessions /\ Bound(r, Holder(r))
  BY DEF TypeOK, Lease, Holder, Bound

\* The three parts beside the types read of a lease only who is bound to it, who
\* holds it, whether it works and what it offers.
LEMMA SameBonds ==
  ASSUME IInv, TypeOK', acting' \subseteq acting, DOMAIN leases' = DOMAIN leases,
         \A q \in DOMAIN leases :
           /\ leases'[q].owners = leases[q].owners
           /\ leases'[q].receivers = leases[q].receivers
           /\ leases'[q].offers = leases[q].offers
           /\ leases'[q].offers # {} => ~ leases'[q].working
  PROVE  IInv'
<1>1. \A q \in DOMAIN leases : Holder(q)' = Holder(q) /\ \A x \in Sessions : Bound(q, x)' <=> Bound(q, x)
  BY DEF Holder, Bound
<1>2. acting \subseteq Sessions
  BY DEF IInv, TypeOK
<1>3. BoundToOne'
  BY <1>1 DEF IInv, BoundToOne
<1>4. OnlyHoldersAct'
  BY <1>1, <1>2 DEF IInv, OnlyHoldersAct
<1>5. OffersAreQuiet'
  BY <1>1, <1>2 DEF IInv, OffersAreQuiet
<1> QED BY <1>3, <1>4, <1>5 DEF IInv

\* Only a free conversation claims, so nobody else is bound to it.
LEMMA ClaimKeeps ==
  ASSUME IInv, NEW r \in Runs, NEW s \in Sessions, Claim(r, s)
  PROVE  IInv'
<1> USE DEF IInv, Claim, Put
<1>1. TypeOK'
  BY DEF TypeOK, Lease
<1>2. \A q \in DOMAIN leases, x \in Sessions : Bound(q, x)' <=> Bound(q, x)
  BY DEF Bound
<1>3. \A x \in Sessions : Bound(r, x)' <=> x = s
  BY DEF Bound
<1>4. DOMAIN leases' = DOMAIN leases \cup {r} /\ r \notin DOMAIN leases
  OBVIOUS
<1>5. \A q \in DOMAIN leases : leases'[q] = leases[q] /\ Holder(q)' = Holder(q)
  BY DEF Holder
<1>6. leases'[r].offers = {} /\ Holder(r)' = s
  BY DEF Holder
<1>7. acting \subseteq Sessions
  BY DEF TypeOK
<1>8. BoundToOne'
  BY <1>2, <1>3, <1>4 DEF BoundToOne, Free
<1>9. OnlyHoldersAct'
  BY <1>2, <1>3, <1>4, <1>5, <1>6, <1>7 DEF OnlyHoldersAct
<1>10. OffersAreQuiet'
  BY <1>2, <1>4, <1>5, <1>6, <1>7 DEF OffersAreQuiet
<1> QED BY <1>1, <1>8, <1>9, <1>10

\* Suspending moves nobody.
LEMMA SuspendKeeps ==
  ASSUME IInv, NEW r \in Runs, Suspend(r)
  PROVE  IInv'
<1>1. TypeOK'
  BY DEF IInv, TypeOK, Lease, Suspend, Put
<1>2. \A q \in DOMAIN leases : leases[q] \in Lease /\ (leases[q].offers # {} => ~ leases[q].working)
  BY DEF IInv, TypeOK, OffersAreQuiet
<1> QED BY <1>1, <1>2, SameBonds DEF Suspend, Put, Lease

\* Continuing needs an attempt without an offer.
LEMMA ContinueKeeps ==
  ASSUME IInv, NEW r \in Runs, Continue(r)
  PROVE  IInv'
<1>1. TypeOK'
  BY DEF IInv, TypeOK, Lease, Continue, Put
<1>2. \A q \in DOMAIN leases : leases[q] \in Lease /\ (leases[q].offers # {} => ~ leases[q].working)
  BY DEF IInv, TypeOK, OffersAreQuiet
<1> QED BY <1>1, <1>2, SameBonds DEF Continue, Put, Lease

\* A receiver is free and at rest, and so is the holder it replaces.
LEMMA OfferKeeps ==
  ASSUME IInv, NEW r \in Runs, NEW s \in Sessions, Offer(r, s)
  PROVE  IInv'
<1> USE DEF IInv, Offer, Put
<1>1. TypeOK'
  BY DEF TypeOK, Lease
<1>2. \A q \in DOMAIN leases \ {r} : leases'[q] = leases[q]
  OBVIOUS
<1>3. /\ leases'[r].owners = leases[r].owners
      /\ leases'[r].receivers = leases[r].receivers \cup {s}
      /\ leases'[r].offers = {s}
      /\ leases'[r].working = FALSE
  BY DEF TypeOK, Lease
<1>4. \A q \in DOMAIN leases : Holder(q)' = Holder(q)
  BY <1>2, <1>3 DEF Holder
<1>5. \A q \in DOMAIN leases, x \in Sessions : Bound(q, x)' <=> Bound(q, x) \/ (q = r /\ x = s)
  BY <1>2, <1>3 DEF Bound
<1>6. DOMAIN leases' = DOMAIN leases /\ acting' = acting /\ acting \subseteq Sessions
  BY DEF TypeOK
<1>7. \A x \in acting : ~ Bound(r, x) /\ x # s
  BY <1>6 DEF OnlyHoldersAct
<1>8. BoundToOne'
  BY <1>5, <1>6 DEF BoundToOne, Free
<1>9. OnlyHoldersAct'
  BY <1>4, <1>5, <1>6, <1>7 DEF OnlyHoldersAct
<1>10. OffersAreQuiet'
  <2> SUFFICES ASSUME NEW q \in DOMAIN leases, leases'[q].offers # {}
               PROVE  /\ leases'[q].offers \subseteq leases'[q].receivers
                      /\ ~ leases'[q].working
                      /\ \A x \in acting : ~ Bound(q, x)'
    BY <1>6 DEF OffersAreQuiet
  <2>1. CASE q = r
    BY <1>3, <1>5, <1>6, <1>7, <2>1
  <2>2. CASE q # r
    BY <1>2, <1>5, <1>6, <2>2 DEF OffersAreQuiet
  <2> QED BY <2>1, <2>2
<1> QED BY <1>1, <1>8, <1>9, <1>10

\* The lease an acceptance leaves.
LEMMA AcceptedLease ==
  ASSUME NEW lease \in Lease, NEW s \in Sessions
  PROVE  LET accepted == [lease EXCEPT !.owners = Append(@, s), !.working = FALSE, !.offers = {}]
         IN  accepted \in Lease /\ accepted.owners # <<>>
<1>1. lease.owners \in Seq(Sessions)
  BY DEF Lease
<1>2. Append(lease.owners, s) \in Seq(Sessions) /\ Append(lease.owners, s) # <<>>
  BY <1>1
<1> DEFINE owners == Append(lease.owners, s)
<1>3. ASSUME NEW o \in Seq(Sessions)
      PROVE  [lease EXCEPT !.owners = o, !.working = FALSE, !.offers = {}] \in Lease
             /\ [lease EXCEPT !.owners = o, !.working = FALSE, !.offers = {}].owners = o
  BY DEF Lease
<1> HIDE DEF owners
<1> QED BY <1>2, <1>3 DEF owners

\* The receiver becomes the holder while neither acts.
LEMMA AcceptKeeps ==
  ASSUME IInv, NEW r \in Runs, NEW s \in Sessions, Accept(r, s)
  PROVE  IInv'
<1> USE DEF IInv, Accept, Put
<1>0. r \in DOMAIN leases /\ leases[r] \in Lease
  BY DEF TypeOK
<1>1. TypeOK'
  <2> DEFINE new == [leases[r] EXCEPT !.owners = Append(@, s), !.working = FALSE, !.offers = {}]
  <2> HIDE DEF new
  <2>4. /\ new \in Lease /\ new.owners # <<>>
        /\ leases' = [x \in DOMAIN leases \cup {r} |-> IF x = r THEN new ELSE leases[x]]
        /\ acting' = acting
    BY <1>0, AcceptedLease DEF new
  <2> QED BY <2>4 DEF TypeOK
<1>2. \A q \in DOMAIN leases \ {r} : leases'[q] = leases[q]
  OBVIOUS
<1>3. /\ leases'[r].owners = Append(leases[r].owners, s)
      /\ leases'[r].receivers = leases[r].receivers
      /\ leases'[r].offers = {}
      /\ leases'[r].working = FALSE
  BY <1>0 DEF TypeOK, Lease
<1>4. \A q \in DOMAIN leases \ {r} : Holder(q)' = Holder(q)
  BY <1>2 DEF Holder
<1>5. s \in leases[r].receivers
  BY <1>0 DEF OffersAreQuiet
<1>6. \A q \in DOMAIN leases, x \in Sessions : Bound(q, x)' <=> Bound(q, x)
  <2>1. leases[r].owners \in Seq(Sessions)
    BY <1>0 DEF TypeOK, Lease
  <2>2. \A x \in Sessions : Bound(r, x)' <=> Bound(r, x)
    <3> SUFFICES ASSUME NEW x \in Sessions PROVE Bound(r, x)' <=> Bound(r, x)
      OBVIOUS
    <3>1. CASE x = s
      BY <1>3, <1>5, <3>1 DEF Bound
    <3>2. CASE x # s
      <4>1. /\ \A i \in DOMAIN leases[r].owners :
                 i \in DOMAIN leases'[r].owners /\ leases'[r].owners[i] = leases[r].owners[i]
            /\ \A i \in DOMAIN leases'[r].owners :
                 i \in DOMAIN leases[r].owners \/ leases'[r].owners[i] = s
        BY <1>3, <2>1
      <4> QED BY <1>3, <3>2, <4>1 DEF Bound
    <3> QED BY <3>1, <3>2
  <2> QED BY <1>2, <2>2 DEF Bound
<1>7. DOMAIN leases' = DOMAIN leases /\ acting' = acting /\ acting \subseteq Sessions
  BY <1>0 DEF TypeOK
<1>8. \A x \in acting : ~ Bound(r, x)
  BY <1>0 DEF OffersAreQuiet
<1>9. BoundToOne'
  BY <1>6, <1>7 DEF BoundToOne
<1>10. OnlyHoldersAct'
  BY <1>4, <1>6, <1>7, <1>8 DEF OnlyHoldersAct
<1>11. OffersAreQuiet'
  BY <1>2, <1>3, <1>6, <1>7 DEF OffersAreQuiet
<1> QED BY <1>1, <1>9, <1>10, <1>11

\* Only a holder that works, or an unbound conversation, begins to act.
LEMMA ActKeeps ==
  ASSUME IInv, NEW s \in Sessions, Act(s)
  PROVE  IInv'
<1> USE DEF IInv, Act
<1>1. \A q \in DOMAIN leases : Bound(q, s) => s = Holder(q) /\ leases[q].working
  BY HolderIsBound DEF Free, BoundToOne
<1>2. /\ \A q \in DOMAIN leases : Holder(q)' = Holder(q)
      /\ \A q \in DOMAIN leases, x \in Sessions : Bound(q, x)' <=> Bound(q, x)
  BY DEF Holder, Bound
<1>3. TypeOK' /\ acting \subseteq Sessions
  BY DEF TypeOK
<1>4. BoundToOne'
  BY <1>2 DEF BoundToOne
<1>5. OnlyHoldersAct'
  BY <1>1, <1>2, <1>3 DEF OnlyHoldersAct
<1>6. OffersAreQuiet'
  BY <1>1, <1>2, <1>3 DEF OffersAreQuiet
<1> QED BY <1>3, <1>4, <1>5, <1>6

\* After a crash nobody acts.
LEMMA CrashKeeps ==
  ASSUME IInv, Crash
  PROVE  IInv'
<1>1. TypeOK'
  BY DEF IInv, TypeOK, Lease, Crash
<1>2. \A q \in DOMAIN leases : leases[q] \in Lease
  BY DEF IInv, TypeOK
<1> QED BY <1>1, <1>2, SameBonds DEF Crash, Lease

\* The inductive invariant behind both promises of the lease.
THEOREM LeaseInvariant == Spec => []IInv
<1>1. IInv /\ [Next]_vars => IInv'
  <2> SUFFICES ASSUME IInv, [Next]_vars PROVE IInv'
    OBVIOUS
  <2>1. ASSUME NEW r \in Runs, Suspend(r) \/ Continue(r) PROVE IInv'
    BY <2>1, SuspendKeeps, ContinueKeeps
  <2>2. ASSUME NEW r \in Runs, NEW s \in Sessions, Claim(r, s) \/ Offer(r, s) \/ Accept(r, s)
        PROVE IInv'
    BY <2>2, ClaimKeeps, OfferKeeps, AcceptKeeps
  <2>3. ASSUME NEW s \in Sessions, Act(s) PROVE IInv'
    BY <2>3, ActKeeps
  <2>4. ASSUME NEW s \in Sessions, Rest(s) PROVE IInv'
    <3>1. TypeOK' /\ \A q \in DOMAIN leases : leases[q].offers # {} => ~ leases[q].working
      BY <2>4 DEF IInv, TypeOK, OffersAreQuiet, Rest
    <3> QED BY <2>4, <3>1, SameBonds DEF Rest
  <2>5. CASE Crash
    BY <2>5, CrashKeeps
  <2>6. CASE UNCHANGED vars
    <3>1. TypeOK' /\ \A q \in DOMAIN leases : leases[q].offers # {} => ~ leases[q].working
      BY <2>6 DEF IInv, TypeOK, OffersAreQuiet, vars
    <3> QED BY <2>6, <3>1, SameBonds DEF vars
  <2> QED BY <2>1, <2>2, <2>3, <2>4, <2>5, <2>6 DEF Next
<1> QED BY <1>1, InitIInv, PTL DEF Spec

\* After a transfer no former owner acts, before it no receiver does: whoever
\* acts and was ever given or offered the attempt is its present holder.
THEOREM LeaseIsExclusive == Spec => []OnlyHoldersAct
<1>1. IInv => OnlyHoldersAct
  BY DEF IInv
<1> QED BY <1>1, LeaseInvariant, PTL

\* No conversation is ever tied to two attempts.
THEOREM LeaseBindsOnce == Spec => []BoundOnce
<1>1. IInv => BoundOnce
  <2> SUFFICES ASSUME IInv, NEW q \in DOMAIN leases, NEW r \in DOMAIN leases, q # r
               PROVE  /\ leases[q].receivers \cap leases[r].receivers = {}
                      /\ \A i \in DOMAIN leases[q].owners : ~ Bound(r, leases[q].owners[i])
    BY DEF BoundOnce
  <2>1. /\ leases[q].receivers \subseteq Sessions
        /\ \A i \in DOMAIN leases[q].owners : leases[q].owners[i] \in Sessions
    BY DEF IInv, TypeOK, Lease
  <2>2. \A s \in Sessions : ~ (Bound(q, s) /\ Bound(r, s))
    BY DEF IInv, BoundToOne
  <2>3. leases[q].receivers \cap leases[r].receivers = {}
    BY <2>1, <2>2 DEF Bound
  <2>4. \A i \in DOMAIN leases[q].owners : ~ Bound(r, leases[q].owners[i])
    BY <2>1, <2>2 DEF Bound
  <2> QED BY <2>3, <2>4
<1> QED BY <1>1, LeaseInvariant, PTL
=============================================================================
