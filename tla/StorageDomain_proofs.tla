------------------------- MODULE StorageDomain_proofs -------------------------
(* The single writer keeps the order of the calls for any keys, any documents   *)
(* and any number of writes: what reads answer, what close waits for, what has  *)
(* been written when a write becomes visible, and what a reopening finds.       *)
EXTENDS StorageDomain, SequenceTheorems, TLAPS

\* How many of the requests were answered, or lost.
Answered == Len(request) - Len(chain)

\* The chain holds the requests that were not answered, in the order of the calls.
ChainIsQueue ==
  /\ Len(chain) <= Len(request)
  /\ \A i \in 1..Len(chain) : chain[i] = Answered + i
  /\ \A i \in 1..Len(request) : request[i].outcome = "queued" <=> i > Answered
  /\ since <= Answered

\* No write waits or runs where the domain is not in use.
ChainInUse ==
  /\ stage \in {"free", "opening"} => chain = <<>>
  /\ step # "idle" => chain # <<>> /\ (Running.kind # "put" => memory[Running.slot] # Absent)

\* No document carries a write that was not requested.
Carries(f) == \A s \in Slots : f[s] \in Records => f[s] \subseteq 1..Len(request)
NothingForeseen == Carries(file) /\ Carries(disk) /\ Carries(memory)

\* How far the running write came shows in the documents.
Shown ==
  /\ step \in {"renamed", "durable"} => file[Running.slot] = Content
  /\ step = "durable" /\ (Content # Absent \/ ~ PerRecord) => disk[Running.slot] = Content

IInv == TypeOK /\ ChainIsQueue /\ ChainInUse /\ NothingForeseen /\ Shown /\ InCallOrder
-----------------------------------------------------------------------------
(* The parts of a state                                                        *)

\* What the types say of sequences and numbers.
LEMMA Shapes ==
  ASSUME TypeOK
  PROVE  /\ Len(request) \in Nat /\ Len(chain) \in Nat /\ since \in Nat
         /\ DOMAIN request = 1..Len(request)
         /\ \A i \in 1..Len(request) : request[i] \in Request
         /\ \A i \in 1..Len(chain) : chain[i] \in 1..Len(request)
         /\ setting.writes \in Nat /\ setting.writes <= MaxWrites /\ MaxWrites \in Nat
         /\ setting.legacy \subseteq Keys
BY StorageAssumption, LenProperties, ElementOfSeq DEF TypeOK

\* The running write is the oldest that was not answered.
LEMMA RunningWrite ==
  ASSUME IInv, chain # <<>>
  PROVE  /\ Len(chain) \in Nat \ {0} /\ chain[1] \in 1..Len(request) /\ chain[1] = Answered + 1
         /\ Running \in Request /\ Running.slot \in Slots
         /\ since < chain[1] /\ chain[1] \in 1..MaxWrites
<1>1. Len(chain) \in Nat \ {0}
  BY EmptySeq DEF IInv, TypeOK
<1>2. chain[1] \in 1..Len(request) /\ chain[1] = Answered + 1 /\ since <= Answered
  BY <1>1, Shapes DEF IInv, ChainIsQueue
<1>3. Running \in Request /\ Running.slot \in Slots
  BY <1>2, Shapes DEF IInv, Running, Request
<1>4. Answered \in Int /\ Len(request) <= MaxWrites
  BY Shapes DEF IInv, Answered, TypeOK
<1> QED BY <1>1, <1>2, <1>3, <1>4, Shapes DEF IInv

\* What the running write puts into the documents.
LEMMA ContentIsDocument ==
  ASSUME IInv, chain # <<>>
  PROVE  Content \in Contents /\ (Content \in Records => Content \subseteq 1..Len(request))
<1>1. chain[1] \in 1..MaxWrites /\ chain[1] \in 1..Len(request) /\ Running \in Request /\ Running.slot \in Slots
  BY RunningWrite
<1>2. memory[Running.slot] \in Contents
  BY <1>1 DEF IInv, TypeOK
<1>3. Current(Running.slot) \in Records /\ Current(Running.slot) \subseteq 1..Len(request)
  BY <1>1, <1>2 DEF Current, Contents, Records, IInv, NothingForeseen, Carries
<1>4. CASE Running.kind = "put"
  BY <1>1, <1>4 DEF Content, Contents, Records
<1>5. CASE Running.kind = "update"
  BY <1>1, <1>3, <1>5 DEF Content, Contents, Records
<1>6. CASE Running.kind = "delete"
  BY <1>6, StorageAssumption DEF Content, Contents
<1> QED BY <1>1, <1>4, <1>5, <1>6 DEF Request

\* Moving a document, a record or nothing leaves the types of the documents.
LEMMA SyncedIsDocuments ==
  ASSUME IInv, NEW slots
  PROVE  /\ Synced(slots) \in [Slots -> Documents] /\ Carries(Synced(slots))
         /\ \A s \in Slots : Synced(slots)[s] \in {file[s], disk[s]}
         /\ \A s \in slots \cap Slots : Synced(slots)[s] = file[s]
BY DEF IInv, TypeOK, Synced, NothingForeseen, Carries
-----------------------------------------------------------------------------
(* The order of the calls                                                      *)

\* InCallOrder for one slot of any queue of requests.
EffectsOf(q, from, s) == {i \in (from + 1)..Len(q) : q[i].slot = s /\ q[i].outcome = "done"}
ResetsOf(q, from, s) == {i \in EffectsOf(q, from, s) : q[i].kind # "update"}
LastOf(q, from, s) == {i \in ResetsOf(q, from, s) : \A j \in ResetsOf(q, from, s) : j <= i}
LiveOf(q, from, s) == {i \in EffectsOf(q, from, s) : \A j \in LastOf(q, from, s) : i >= j}
Answers(q, from, s, m) ==
  IF \E i \in LastOf(q, from, s) : q[i].kind = "delete" THEN m = Absent
  ELSE (IF m = Absent THEN {} ELSE m) \ (1..from) = LiveOf(q, from, s)

\* Calls are answered in order when each slot answers its own in order.
LEMMA OrderBySlot ==
  InCallOrder <=> (stage \in {"open", "closing"} => \A s \in Slots : Answers(request, since, s, memory[s]))
BY DEF InCallOrder, Answers, LiveOf, LastOf, ResetsOf, EffectsOf, Effects, Resets

\* What a slot answers depends on the writes that took effect only.
LEMMA SameEffects ==
  ASSUME NEW q, NEW p, NEW from, NEW s, NEW m,
         EffectsOf(p, from, s) = EffectsOf(q, from, s),
         \A i \in EffectsOf(q, from, s) : p[i].kind = q[i].kind,
         Answers(q, from, s, m)
  PROVE  Answers(p, from, s, m)
<1>1. ResetsOf(p, from, s) = ResetsOf(q, from, s)
  BY DEF ResetsOf
<1>2. LastOf(p, from, s) = LastOf(q, from, s)
  BY <1>1 DEF LastOf
<1>3. LiveOf(p, from, s) = LiveOf(q, from, s)
  BY <1>2 DEF LiveOf
<1>4. \A i \in LastOf(q, from, s) : p[i].kind = q[i].kind
  BY DEF LastOf, ResetsOf
<1> QED BY <1>2, <1>3, <1>4 DEF Answers

\* The newest write to take effect is what the slot answers next.
LEMMA NewestEffect ==
  ASSUME NEW q, NEW p, NEW from \in Nat, NEW s, NEW m, NEW n \in Nat, n > from,
         EffectsOf(q, from, s) \subseteq Int, n \notin EffectsOf(q, from, s),
         EffectsOf(p, from, s) = EffectsOf(q, from, s) \cup {n},
         \A i \in EffectsOf(q, from, s) : i < n /\ p[i].kind = q[i].kind,
         p[n].kind \in {"put", "update", "delete"},
         Answers(q, from, s, m),
         NEW v,
         p[n].kind = "put" => v = {n} /\ v # Absent,
         p[n].kind = "update" => v = m \cup {n} /\ v # Absent /\ m # Absent,
         p[n].kind = "delete" => v = Absent
  PROVE  Answers(p, from, s, v)
<1>1. CASE p[n].kind # "update"
  <2>1. ResetsOf(p, from, s) = ResetsOf(q, from, s) \cup {n}
    BY <1>1 DEF ResetsOf
  <2>2. \A i \in ResetsOf(q, from, s) : i \in Int /\ i < n
    BY DEF ResetsOf
  <2>3. LastOf(p, from, s) = {n}
    BY <2>1, <2>2 DEF LastOf
  <2>4. LiveOf(p, from, s) = {n}
    BY <2>3 DEF LiveOf
  <2>5. CASE p[n].kind = "put"
    BY <2>3, <2>4, <2>5 DEF Answers
  <2>6. CASE p[n].kind = "delete"
    BY <2>3, <2>6 DEF Answers
  <2> QED BY <1>1, <2>5, <2>6
<1>2. CASE p[n].kind = "update"
  <2>1. ResetsOf(p, from, s) = ResetsOf(q, from, s)
    BY <1>2 DEF ResetsOf
  <2>2. LastOf(p, from, s) = LastOf(q, from, s)
    BY <2>1 DEF LastOf
  <2>3. \A i \in LastOf(q, from, s) : i \in Int /\ i < n /\ p[i].kind = q[i].kind
    BY DEF LastOf, ResetsOf
  <2>4. LiveOf(p, from, s) = LiveOf(q, from, s) \cup {n}
    BY <2>2, <2>3 DEF LiveOf
  <2>5. /\ ~ \E i \in LastOf(q, from, s) : q[i].kind = "delete"
        /\ m \ (1..from) = LiveOf(q, from, s)
    BY <1>2 DEF Answers
  <2>6. (m \cup {n}) \ (1..from) = LiveOf(p, from, s)
    BY <2>4, <2>5
  <2> QED BY <1>2, <2>2, <2>3, <2>5, <2>6 DEF Answers
<1> QED BY <1>1, <1>2
-----------------------------------------------------------------------------
(* The steps of the queue                                                      *)

\* The queue, what it answers and what reads see are as they were.
LEMMA QueueKept ==
  ASSUME IInv, UNCHANGED <<request, chain, since, memory>>,
         stage' \in {"open", "closing"} => stage \in {"open", "closing"}
  PROVE  ChainIsQueue' /\ InCallOrder' /\ Running' = Running /\ Content' = Content
BY DEF IInv, ChainIsQueue, InCallOrder, Answered, Effects, Resets, Running, Content, Current

\* A new request goes to the end of the chain; it has no effect yet.
LEMMA EnqueueKeeps ==
  ASSUME IInv, NEW kind \in {"put", "delete", "update"}, NEW s \in Slots, Enqueue(kind, s)
  PROVE  IInv'
<1> DEFINE new == [kind |-> kind, slot |-> s, outcome |-> "queued"]
<1>1. request' = Append(request, new) /\ chain' = Append(chain, Len(request) + 1)
  BY DEF Enqueue
<1>2. new \in Request
  BY DEF Request
<1>3. /\ request \in Seq(Request) /\ chain \in Seq(1..Len(request)) /\ Len(request) \in Nat /\ Len(chain) \in Nat
      /\ since \in Nat
  BY Shapes DEF IInv, TypeOK
<1> HIDE DEF new
<1>4. /\ request' \in Seq(Request) /\ Len(request') = Len(request) + 1 /\ request'[Len(request) + 1] = new
      /\ \A i \in 1..Len(request) : request'[i] = request[i]
  BY <1>1, <1>2, <1>3
<1>5. /\ chain' \in Seq(1..Len(request')) /\ Len(chain') = Len(chain) + 1
      /\ chain'[Len(chain) + 1] = Len(request) + 1 /\ chain' # <<>>
      /\ \A i \in 1..Len(chain) : chain'[i] = chain[i]
  <2>1. chain \in Seq(1..Len(request'))
    BY <1>3, <1>4, SeqMonotonic
  <2>2. Len(request) + 1 \in 1..Len(request')
    BY <1>3, <1>4
  <2> QED BY <1>1, <1>3, <2>1, <2>2, EmptySeq
<1>6. /\ UNCHANGED <<setting, todo, copying, disk, file, stage, unit, memory, since, step>>
      /\ stage = "open" /\ Len(request) < setting.writes
  BY DEF Enqueue, loading
<1>7. TypeOK'
  BY <1>3, <1>4, <1>5, <1>6, Shapes DEF IInv, TypeOK
<1>8. ChainIsQueue'
  <2>1. Answered' = Answered /\ Answered \in Nat /\ Answered <= Len(request)
    BY <1>3, <1>4, <1>5 DEF Answered, IInv, ChainIsQueue
  <2>2. ASSUME NEW i \in 1..Len(chain') PROVE chain'[i] = Answered + i
    <3>1. CASE i = Len(chain) + 1
      <4>1. chain'[i] = Len(request) + 1
        BY <1>5, <3>1
      <4>2. Answered + i = Len(request) + 1
        BY <1>3, <3>1 DEF Answered
      <4> QED BY <4>1, <4>2
    <3>2. CASE i # Len(chain) + 1
      <4>1. i \in 1..Len(chain)
        BY <1>3, <1>5, <3>2
      <4>2. chain[i] = Answered + i
        BY <4>1 DEF IInv, ChainIsQueue
      <4> QED BY <1>5, <4>1, <4>2
    <3> QED BY <3>1, <3>2
  <2>3. ASSUME NEW i \in 1..Len(request') PROVE request'[i].outcome = "queued" <=> i > Answered
    <3>1. CASE i = Len(request) + 1
      BY <1>3, <1>4, <2>1, <3>1 DEF new
    <3>2. CASE i # Len(request) + 1
      BY <1>3, <1>4, <3>2 DEF IInv, ChainIsQueue
    <3> QED BY <3>1, <3>2
  <2> QED BY <1>3, <1>4, <1>5, <1>6, <2>1, <2>2, <2>3 DEF IInv, ChainIsQueue
<1>9. chain # <<>> => Running' = Running /\ Content' = Content
  <2>1. chain # <<>> => chain'[1] = chain[1] /\ request'[chain[1]] = request[chain[1]]
    BY <1>4, <1>5, RunningWrite
  <2> QED BY <1>6, <2>1 DEF Running, Content, Current
<1>10. ChainInUse'
  BY <1>5, <1>6, <1>9 DEF IInv, ChainInUse
<1>11. NothingForeseen'
  <2>1. 1..Len(request) \subseteq 1..Len(request')
    BY <1>3, <1>4
  <2> QED BY <1>6, <2>1 DEF IInv, NothingForeseen, Carries
<1>12. Shown'
  BY <1>6, <1>9 DEF IInv, Shown, ChainInUse, PerRecord
<1>13. InCallOrder'
  <2>1. ASSUME NEW t \in Slots PROVE EffectsOf(request', since, t) = EffectsOf(request, since, t)
    BY <1>3, <1>4 DEF EffectsOf, new
  <2>2. \A t \in Slots : \A i \in EffectsOf(request, since, t) : request'[i].kind = request[i].kind
    BY <1>3, <1>4 DEF EffectsOf
  <2>3. \A t \in Slots : Answers(request, since, t, memory[t])
    BY <1>6, OrderBySlot DEF IInv
  <2>4. \A t \in Slots : Answers(request', since, t, memory[t])
    BY <2>1, <2>2, <2>3, SameEffects
  <2>5. stage' \in {"open", "closing"} => \A t \in Slots : Answers(request', since', t, memory'[t])
    BY <1>6, <2>4
  <2> HIDE DEF new
  <2> QED BY <2>5 DEF InCallOrder, Answers, LiveOf, LastOf, ResetsOf, EffectsOf, Effects, Resets
<1> QED BY <1>7, <1>8, <1>10, <1>11, <1>12, <1>13 DEF IInv

\* Settling the running write answers it, and it alone.
LEMMA SettleEffect ==
  ASSUME IInv, chain # <<>>, NEW outcome \in {"done", "unchanged", "missing", "failed"}, Settle(outcome),
         UNCHANGED <<stage, unit, setting, todo, copying, since>>
  PROVE  /\ request' \in Seq(Request) /\ Len(request') = Len(request)
         /\ request'[chain[1]] = [Running EXCEPT !.outcome = outcome]
         /\ \A i \in 1..Len(request) : i # chain[1] => request'[i] = request[i]
         /\ chain' \in Seq(1..Len(request')) /\ step' = "idle"
         /\ ChainIsQueue' /\ ChainInUse'
<1>1. /\ request \in Seq(Request) /\ chain \in Seq(1..Len(request)) /\ Len(request) \in Nat
      /\ since \in Nat
  BY Shapes DEF IInv, TypeOK
<1>2. Len(chain) \in Nat \ {0} /\ chain[1] \in 1..Len(request) /\ chain[1] = Answered + 1 /\ Running \in Request
      /\ since < chain[1]
  BY RunningWrite
<1> DEFINE new == [Running EXCEPT !.outcome = outcome]
<1>3. new \in Request /\ new.outcome = outcome
  BY <1>2 DEF Request
<1>4. request' = [request EXCEPT ![chain[1]] = new] /\ chain' = Tail(chain) /\ step' = "idle"
  BY DEF Settle, Running
<1> HIDE DEF new
<1>5. /\ request' \in Seq(Request) /\ Len(request') = Len(request) /\ request'[chain[1]] = new
      /\ \A i \in 1..Len(request) : i # chain[1] => request'[i] = request[i]
  BY <1>1, <1>2, <1>3, <1>4, ExceptSeq
<1>6. /\ chain' \in Seq(1..Len(request')) /\ Len(chain') = Len(chain) - 1
      /\ \A i \in 1..Len(chain') : chain'[i] = chain[i + 1]
  BY <1>1, <1>4, <1>5, HeadTailProperties
<1>7. ChainIsQueue'
  <2>1. Answered' = Answered + 1 /\ Answered \in Nat
    BY <1>1, <1>2, <1>5, <1>6 DEF Answered, IInv, ChainIsQueue
  <2>2. \A i \in 1..Len(chain') : chain'[i] = Answered' + i
    <3>1. ASSUME NEW i \in 1..Len(chain') PROVE chain'[i] = Answered' + i
      <4>1. i + 1 \in 1..Len(chain)
        BY <1>2, <1>6
      <4>2. chain[i + 1] = Answered + (i + 1)
        BY <4>1 DEF IInv, ChainIsQueue
      <4> QED BY <1>6, <2>1, <4>2
    <3> QED BY <3>1
  <2>3. \A i \in 1..Len(request') : request'[i].outcome = "queued" <=> i > Answered'
    BY <1>1, <1>2, <1>3, <1>5, <2>1 DEF IInv, ChainIsQueue
  <2>4. since' <= Answered' /\ Len(chain') <= Len(request')
    BY <1>1, <1>2, <1>5, <1>6, <2>1 DEF IInv, ChainIsQueue
  <2> QED BY <2>2, <2>3, <2>4 DEF ChainIsQueue
<1>8. ChainInUse'
  BY <1>4 DEF IInv, ChainInUse
<1> QED BY <1>4, <1>5, <1>6, <1>7, <1>8 DEF new

\* A write that is rejected or had nothing to do leaves what reads answer.
LEMMA RejectKeeps ==
  ASSUME IInv, chain # <<>>, NEW outcome \in {"unchanged", "missing", "failed"}, Settle(outcome),
         UNCHANGED <<disk, file, stage, unit, loading, memory, since>>
  PROVE  IInv'
<1>1. UNCHANGED <<stage, unit, setting, todo, copying, since>>
  BY DEF loading
<1>2. /\ request' \in Seq(Request) /\ Len(request') = Len(request)
      /\ request'[chain[1]] = [Running EXCEPT !.outcome = outcome]
      /\ \A i \in 1..Len(request) : i # chain[1] => request'[i] = request[i]
      /\ chain' \in Seq(1..Len(request')) /\ step' = "idle"
      /\ ChainIsQueue' /\ ChainInUse'
  BY <1>1, SettleEffect
<1>3. TypeOK'
  BY <1>1, <1>2 DEF IInv, TypeOK
<1>4. NothingForeseen' /\ Shown'
  BY <1>2 DEF IInv, NothingForeseen, Carries, Shown
<1>5. InCallOrder'
  <2>1. /\ chain[1] \in 1..Len(request) /\ Running \in Request /\ Running.outcome = "queued"
        /\ Len(request) \in Nat /\ since \in Nat
    BY RunningWrite, Shapes DEF IInv, ChainIsQueue, Running, Answered
  <2>2. request'[chain[1]].outcome = outcome /\ request'[chain[1]].kind = Running.kind
    BY <1>2, <2>1 DEF Request
  <2>3. \A i \in 1..Len(request) :
          /\ request'[i].kind = request[i].kind
          /\ request'[i].outcome = "done" <=> request[i].outcome = "done"
          /\ request[i].outcome = "done" => request'[i].slot = request[i].slot
    BY <1>2, <2>1, <2>2 DEF Running
  <2>6. ASSUME NEW t \in Slots
        PROVE  /\ EffectsOf(request', since, t) = EffectsOf(request, since, t)
               /\ \A i \in EffectsOf(request, since, t) : request'[i].kind = request[i].kind
    BY <1>2, <2>1, <2>3 DEF EffectsOf
  <2>4. stage \in {"open", "closing"} => \A t \in Slots : Answers(request, since, t, memory[t])
    BY OrderBySlot DEF IInv
  <2>5. stage' \in {"open", "closing"} => \A t \in Slots : Answers(request', since', t, memory'[t])
    BY <1>1, <1>2, <2>4, <2>6, SameEffects
  <2> QED BY <2>5 DEF InCallOrder, Answers, LiveOf, LastOf, ResetsOf, EffectsOf, Effects, Resets
<1> QED BY <1>2, <1>3, <1>4, <1>5 DEF IInv

\* The write that becomes visible is the newest effect on its slot.
LEMMA ApplyKeeps ==
  ASSUME IInv, Apply
  PROVE  IInv'
<1>1. /\ chain # <<>> /\ step = "durable" /\ Settle("done")
      /\ memory' = [memory EXCEPT ![Running.slot] = Content]
      /\ UNCHANGED <<disk, file, stage, unit, setting, todo, copying, since>>
      /\ Running.kind # "put" => memory[Running.slot] # Absent
      /\ stage \in {"open", "closing"}
  BY DEF IInv, ChainInUse, Apply, loading, TypeOK
<1>2. /\ request' \in Seq(Request) /\ Len(request') = Len(request)
      /\ request'[chain[1]] = [Running EXCEPT !.outcome = "done"]
      /\ \A i \in 1..Len(request) : i # chain[1] => request'[i] = request[i]
      /\ chain' \in Seq(1..Len(request')) /\ step' = "idle"
      /\ ChainIsQueue' /\ ChainInUse'
  BY <1>1, SettleEffect
<1>3. /\ chain[1] \in 1..Len(request) /\ Running \in Request /\ Running.slot \in Slots /\ Running.outcome = "queued"
      /\ since < chain[1] /\ Len(request) \in Nat /\ since \in Nat /\ chain[1] = Answered + 1 /\ chain[1] \in 1..MaxWrites
  BY <1>1, RunningWrite, Shapes DEF IInv, ChainIsQueue, Running, Answered
<1>4. Content \in Contents /\ (Content \in Records => Content \subseteq 1..Len(request))
  BY <1>1, ContentIsDocument
<1>5. /\ memory' \in [Slots -> Contents] /\ \A t \in Slots : memory'[t] \notin {Foreign, Invalid}
      /\ Carries(memory)'
  BY <1>1, <1>2, <1>3, <1>4, StorageAssumption DEF IInv, TypeOK, Contents, NothingForeseen, Carries
<1>6. TypeOK'
  BY <1>1, <1>2, <1>5 DEF IInv, TypeOK
<1>7. NothingForeseen' /\ Shown'
  BY <1>1, <1>2, <1>5 DEF IInv, NothingForeseen, Carries, Shown
<1>8. InCallOrder'
  <2>1. \A t \in Slots : Answers(request, since, t, memory[t])
    BY <1>1, OrderBySlot DEF IInv
  <2>2. /\ request'[chain[1]].outcome = "done" /\ request'[chain[1]].kind = Running.kind
        /\ request'[chain[1]].slot = Running.slot
    BY <1>2, <1>3 DEF Request
  <2>3. ASSUME NEW t \in Slots
        PROVE  /\ t # Running.slot => EffectsOf(request', since, t) = EffectsOf(request, since, t)
               /\ t = Running.slot => EffectsOf(request', since, t) = EffectsOf(request, since, t) \cup {chain[1]}
               /\ chain[1] \notin EffectsOf(request, since, t)
               /\ EffectsOf(request, since, t) \subseteq 1..Len(request)
               /\ \A i \in EffectsOf(request, since, t) : request'[i].kind = request[i].kind
    <3>0. Len(request') = Len(request)
      BY <1>2
    <3>1. \A i \in 1..Len(request) : i # chain[1] => request'[i] = request[i]
      BY <1>2
    <3>2. request[chain[1]].outcome = "queued" /\ request[chain[1]].kind = request'[chain[1]].kind
      BY <1>3, <2>2 DEF Running
    <3>3. ASSUME t # Running.slot PROVE EffectsOf(request', since, t) = EffectsOf(request, since, t)
      BY <1>3, <2>2, <3>0, <3>1, <3>2, <3>3 DEF EffectsOf
    <3>4. ASSUME t = Running.slot PROVE EffectsOf(request', since, t) = EffectsOf(request, since, t) \cup {chain[1]}
      <4>1. chain[1] \in EffectsOf(request', since, t)
        BY <1>3, <2>2, <3>0, <3>4 DEF EffectsOf
      <4>2. \A i \in 1..Len(request) : i # chain[1] =>
              (i \in EffectsOf(request', since, t) <=> i \in EffectsOf(request, since, t))
        BY <3>0, <3>1 DEF EffectsOf
      <4>3. EffectsOf(request', since, t) \subseteq 1..Len(request) /\ EffectsOf(request, since, t) \subseteq 1..Len(request)
        BY <1>3, <3>0 DEF EffectsOf
      <4> QED BY <4>1, <4>2, <4>3
    <3>5. chain[1] \notin EffectsOf(request, since, t) /\ EffectsOf(request, since, t) \subseteq 1..Len(request)
      BY <1>3, <3>2 DEF EffectsOf
    <3>6. \A i \in EffectsOf(request, since, t) : request'[i].kind = request[i].kind
      BY <3>1, <3>5
    <3> QED BY <3>3, <3>4, <3>5, <3>6
  <2>4. \A t \in Slots : \A i \in EffectsOf(request, since, t) : i < chain[1]
    BY <1>3, Shapes DEF EffectsOf, IInv, ChainIsQueue, Answered
  <2>5. ASSUME NEW t \in Slots, t # Running.slot PROVE Answers(request', since, t, memory'[t])
    <3>1. memory'[t] = memory[t]
      BY <1>1, <2>5 DEF IInv, TypeOK
    <3> QED BY <2>1, <2>3, <2>5, <3>1, SameEffects
  <2>6. Answers(request', since, Running.slot, memory'[Running.slot])
    <3> DEFINE s == Running.slot
               n == chain[1]
    <3>1. memory'[s] = Content
      BY <1>1, <1>3 DEF IInv, TypeOK
    <3>2. Content # Absent \/ Running.kind = "delete"
      <4>1. {n} \in Records /\ Current(s) \cup {n} \in Records
        <5>1. memory[s] \in Contents
          BY <1>3 DEF IInv, TypeOK
        <5> QED BY <1>3, <5>1 DEF Current, Contents, Records
      <4> QED BY <4>1, StorageAssumption DEF Content
    <3>3. /\ request'[n].kind = "put" => Content = {n} /\ Content # Absent
          /\ request'[n].kind = "update" => Content = memory[s] \cup {n} /\ Content # Absent /\ memory[s] # Absent
          /\ request'[n].kind = "delete" => Content = Absent
      BY <1>1, <2>2, <3>2 DEF Content, Current
    <3>4. n \in Nat /\ n > since /\ request'[n].kind \in {"put", "update", "delete"} /\ since \in Nat
      BY <1>3, <2>2 DEF Request
    <3>5. /\ EffectsOf(request, since, s) \subseteq Int /\ n \notin EffectsOf(request, since, s)
          /\ EffectsOf(request', since, s) = EffectsOf(request, since, s) \cup {n}
          /\ \A i \in EffectsOf(request, since, s) : i < n /\ request'[i].kind = request[i].kind
          /\ Answers(request, since, s, memory[s])
      BY <1>3, <2>1, <2>3, <2>4
    <3> HIDE DEF s, n
    <3>6. Answers(request', since, s, Content)
      BY <3>3, <3>4, <3>5, NewestEffect
    <3> QED BY <3>1, <3>6 DEF s
  <2>7. stage' \in {"open", "closing"} => \A t \in Slots : Answers(request', since', t, memory'[t])
    BY <1>1, <2>5, <2>6
  <2> QED BY <2>7 DEF InCallOrder, Answers, LiveOf, LastOf, ResetsOf, EffectsOf, Effects, Resets
<1> QED BY <1>2, <1>6, <1>7, <1>8 DEF IInv
-----------------------------------------------------------------------------
(* The other steps                                                             *)

\* A process that is lost answers nobody: its queued writes are lost with it.
LEMMA ForgetKeeps ==
  ASSUME IInv, Forget, UNCHANGED disk, file' \in {file, disk}
  PROVE  IInv'
<1>1. /\ request \in Seq(Request) /\ Len(request) \in Nat /\ DOMAIN request = 1..Len(request)
      /\ since \in 0..Len(request)
  BY Shapes DEF IInv, TypeOK
<1>2. /\ request' = [i \in DOMAIN request |-> IF request[i].outcome = "queued"
                                              THEN [request[i] EXCEPT !.outcome = "lost"] ELSE request[i]]
      /\ chain' = <<>> /\ step' = "idle" /\ stage' = "free" /\ unit' = "none" /\ todo' = {} /\ copying' = NoKey
      /\ UNCHANGED <<setting, memory, since>>
  BY DEF Forget
<1>3. \A i \in 1..Len(request) : request'[i] \in Request /\ request'[i].outcome # "queued"
  BY <1>1, <1>2, Shapes DEF IInv, Request
<1>4. request' \in Seq(Request) /\ Len(request') = Len(request)
  <2>1. request' \in [1..Len(request) -> Request]
    BY <1>1, <1>2, <1>3
  <2> QED BY <1>1, <2>1
<1>5. Len(chain') = 0 /\ chain' \in Seq(1..Len(request'))
  BY <1>2, EmptySeq
<1>6. TypeOK'
  BY <1>1, <1>2, <1>4, <1>5 DEF IInv, TypeOK
<1>7. ChainIsQueue'
  <2>1. Answered' = Len(request)
    BY <1>1, <1>4, <1>5 DEF Answered
  <2> QED BY <1>1, <1>2, <1>3, <1>4, <1>5, <2>1 DEF ChainIsQueue
<1>8. ChainInUse' /\ Shown' /\ InCallOrder'
  BY <1>2 DEF ChainInUse, Shown, InCallOrder
<1>9. NothingForeseen'
  BY <1>2, <1>4 DEF IInv, NothingForeseen, Carries
<1> QED BY <1>6, <1>7, <1>8, <1>9 DEF IInv

\* What a domain serves when it opens is on top of no write of its own.
LEMMA ActivateKeeps ==
  ASSUME IInv, Activate
  PROVE  IInv'
<1>1. /\ stage = "opening" /\ stage' = "open" /\ memory' = Readable /\ since' = Len(request)
      /\ \A s \in Slots : file[s] # Invalid
      /\ UNCHANGED <<disk, file, unit, setting, todo, copying, request, chain, step>>
  BY DEF Activate, Loaded, loading, queue
<1>2. chain = <<>> /\ Len(chain) = 0 /\ step = "idle" /\ Len(request) \in Nat
  BY <1>1, Shapes, EmptySeq DEF IInv, ChainInUse
<1>3. /\ memory' \in [Slots -> Contents] /\ \A s \in Slots : memory'[s] \notin {Foreign, Invalid}
      /\ Carries(memory)' /\ Carries(file)' /\ Carries(disk)'
  <2>1. file \in [Slots -> Documents] /\ Carries(file) /\ Carries(disk)
    BY DEF IInv, TypeOK, NothingForeseen
  <2>2. \A s \in Slots : memory'[s] = IF file[s] \in {Foreign, Invalid} THEN Absent ELSE file[s]
    BY <1>1 DEF Readable
  <2>3. \A s \in Slots : memory'[s] \in Contents /\ memory'[s] \notin {Foreign, Invalid}
    BY <2>1, <2>2, StorageAssumption DEF Contents, Documents
  <2>4. \A s \in Slots : memory'[s] \in Records => memory'[s] \subseteq 1..Len(request)
    BY <2>1, <2>2, StorageAssumption DEF Carries
  <2>5. memory' = [s \in Slots |-> memory'[s]]
    BY <1>1 DEF Readable
  <2> QED BY <1>1, <2>1, <2>3, <2>4, <2>5 DEF Carries
<1>4. TypeOK'
  BY <1>1, <1>2, <1>3 DEF IInv, TypeOK
<1>5. ChainIsQueue'
  BY <1>1, <1>2 DEF IInv, ChainIsQueue, Answered
<1>6. ChainInUse' /\ Shown' /\ NothingForeseen'
  BY <1>1, <1>2, <1>3 DEF IInv, ChainInUse, Shown, NothingForeseen
<1>7. InCallOrder'
  <2>1. ASSUME NEW s \in Slots PROVE Answers(request', since', s, memory'[s])
    <3>1. EffectsOf(request', since', s) = {}
      BY <1>1, <1>2 DEF EffectsOf
    <3>2. LastOf(request', since', s) = {} /\ LiveOf(request', since', s) = {}
      BY <3>1 DEF LastOf, LiveOf, ResetsOf
    <3>3. memory'[s] # Absent => memory'[s] \subseteq 1..Len(request)
      BY <1>1, <1>3 DEF Carries, Contents
    <3> QED BY <1>1, <3>2, <3>3 DEF Answers
  <2> QED BY <2>1 DEF InCallOrder, Answers, LiveOf, LastOf, ResetsOf, EffectsOf, Effects, Resets
<1> QED BY <1>4, <1>5, <1>6, <1>7 DEF IInv

\* Opening, closing and the system's own writing leave the queue alone.
LEMMA SurroundingsKeep ==
  ASSUME IInv,
         \/ Open \/ ImportSync \/ OpenFails \/ Close \/ Release \/ CloseBackend \/ WriteBack
         \/ \E k \in Keys : Import(k) \/ Backup(k)
  PROVE  IInv'
<1>1. /\ UNCHANGED <<request, chain, since, memory, setting, step>>
      /\ stage' \in {"open", "closing"} => stage \in {"open", "closing"}
  BY DEF Open, ImportSync, OpenFails, Close, Release, CloseBackend, WriteBack, Import, Backup, queue, loading
<1>2. ChainIsQueue' /\ InCallOrder' /\ Running' = Running /\ Content' = Content
  BY <1>1, QueueKept
<1>3. ChainInUse'
  BY <1>1, <1>2 DEF IInv, ChainInUse, Open, ImportSync, OpenFails, Close, Release, CloseBackend, WriteBack, Import, Backup
<1>4. /\ file' \in [Slots -> Documents] /\ Carries(file)'
      /\ step # "idle" => file' = file
  <2>1. CASE UNCHANGED file
    BY <1>1, <2>1 DEF IInv, TypeOK, NothingForeseen, Carries
  <2>2. CASE \E k \in Keys : Import(k) \/ Backup(k)
    <3>1. PICK k \in Keys, d \in {Absent, {}} : file' = [file EXCEPT ![k] = d] /\ stage = "opening"
      BY <2>2 DEF Import, Backup, Loaded
    <3>2. {} \in Records /\ Absent \notin Records
      BY StorageAssumption DEF Records
    <3>3. step = "idle"
      BY <3>1 DEF IInv, ChainInUse
    <3> QED BY <1>1, <3>1, <3>2, <3>3 DEF IInv, TypeOK, Documents, NothingForeseen, Carries, Slots
  <2> QED BY <2>1, <2>2 DEF Open, ImportSync, OpenFails, Close, Release, CloseBackend, WriteBack
<1>5. /\ disk' \in [Slots -> Documents] /\ Carries(disk)'
      /\ \A s \in Slots : disk'[s] \in {file[s], disk[s]}
  <2>1. CASE UNCHANGED disk
    BY <1>1, <2>1 DEF IInv, TypeOK, NothingForeseen, Carries
  <2>2. CASE \E slots \in {Directory(copying)} \cup {{s} : s \in Slots} \cup {Slots} : disk' = Synced(slots)
    BY <1>1, <2>2, SyncedIsDocuments DEF Carries
  <2> QED BY <2>1, <2>2 DEF Open, ImportSync, OpenFails, Close, Release, CloseBackend, WriteBack, Import, Backup
<1>6. TypeOK'
  <2>1. /\ stage' \in {"free", "opening", "open", "closing"} /\ unit' \in {"none", "open", "closed"}
        /\ todo' \subseteq Keys /\ copying' \in Keys \cup {NoKey}
    BY Shapes DEF IInv, TypeOK, Open, ImportSync, OpenFails, Close, Release, CloseBackend, WriteBack, Import, Backup,
       queue, loading, Legacy
  <2> QED BY <1>1, <1>4, <1>5, <2>1 DEF IInv, TypeOK
<1>7. NothingForeseen'
  BY <1>1, <1>4, <1>5 DEF IInv, NothingForeseen, Carries
<1>8. Shown'
  <2>1. step \in {"renamed", "durable"} => Running.slot \in Slots /\ file' = file
    BY <1>4, RunningWrite DEF IInv, ChainInUse
  <2> QED BY <1>1, <1>2, <1>5, <2>1 DEF IInv, Shown, PerRecord
<1> QED BY <1>2, <1>3, <1>6, <1>7, <1>8 DEF IInv

\* The running write goes to the documents, which then show it.
LEMMA WritingKeeps ==
  ASSUME IInv, Start \/ Publish \/ Sync
  PROVE  IInv'
<1>1. /\ UNCHANGED <<request, chain, since, memory, setting, todo, copying, stage, unit>>
      /\ chain # <<>> /\ (Running.kind # "put" => memory[Running.slot] # Absent)
      /\ step' # "idle"
  BY RunningWrite DEF IInv, ChainInUse, Start, Publish, Sync, CanStart, loading, Request
<1>2. ChainIsQueue' /\ InCallOrder' /\ Running' = Running /\ Content' = Content
  BY <1>1, QueueKept
<1>3. /\ Running.slot \in Slots /\ Content \in Contents
      /\ Content \in Records => Content \subseteq 1..Len(request)
  BY <1>1, RunningWrite, ContentIsDocument
<1>4. ChainInUse'
  BY <1>1, <1>2 DEF IInv, ChainInUse
<1>5. CASE Start
  <2>1. UNCHANGED <<disk, file>> /\ step' = "writing"
    BY <1>5 DEF Start
  <2> QED BY <1>1, <1>2, <1>4, <2>1 DEF IInv, TypeOK, NothingForeseen, Carries, Shown
<1>6. CASE Publish
  <2> DEFINE base == IF PerRecord THEN file ELSE memory
  <2>1. /\ file' = [base EXCEPT ![Running.slot] = Content] /\ UNCHANGED disk
        /\ step' = IF PerRecord /\ Running.kind = "delete" THEN "durable" ELSE "renamed"
    BY <1>6 DEF Publish
  <2>2. base \in [Slots -> Documents] /\ Carries(base)
    BY DEF IInv, TypeOK, NothingForeseen, Contents, Documents
  <2> HIDE DEF base
  <2>3. /\ file' \in [Slots -> Documents] /\ Carries(file)' /\ file'[Running.slot] = Content
    BY <1>1, <1>3, <2>1, <2>2 DEF Carries, Contents, Documents
  <2>4. step' = "durable" => Content = Absent /\ PerRecord
    BY <2>1 DEF Content
  <2>5. Shown'
    BY <1>1, <1>2, <2>1, <2>3, <2>4 DEF Shown, PerRecord
  <2>6. TypeOK'
    BY <1>1, <2>1, <2>3 DEF IInv, TypeOK
  <2>7. NothingForeseen'
    BY <1>1, <2>1, <2>3 DEF IInv, NothingForeseen, Carries
  <2> QED BY <1>2, <1>4, <2>5, <2>6, <2>7 DEF IInv
<1>7. CASE Sync
  <2>1. disk' = Synced(Directory(Running.slot)) /\ UNCHANGED file /\ step = "renamed" /\ step' = "durable"
    BY <1>7 DEF Sync
  <2>2. Running.slot \in Directory(Running.slot)
    BY <1>3 DEF Directory, Slots
  <2>3. disk' \in [Slots -> Documents] /\ Carries(disk)' /\ disk'[Running.slot] = file[Running.slot]
    BY <1>1, <1>3, <2>1, <2>2, SyncedIsDocuments DEF Carries
  <2>4. Shown'
    BY <1>1, <1>2, <2>1, <2>3 DEF IInv, Shown
  <2>5. TypeOK' /\ NothingForeseen'
    BY <1>1, <2>1, <2>3 DEF IInv, TypeOK, NothingForeseen, Carries
  <2> QED BY <1>2, <1>4, <2>4, <2>5 DEF IInv
<1> QED BY <1>5, <1>6, <1>7
-----------------------------------------------------------------------------
(* The invariant and what follows from it                                      *)

\* An open store has no writes yet.
LEMMA InitInvariant == Init => IInv
<1> SUFFICES ASSUME Init PROVE IInv
  OBVIOUS
<1>1. /\ setting \in Settings /\ file \in [Slots -> {Absent, {}, Foreign, Invalid}] /\ disk = file
      /\ memory = Readable /\ request = <<>> /\ chain = <<>> /\ since = 0 /\ step = "idle"
      /\ stage = "free" /\ unit = "none" /\ todo = {} /\ copying = NoKey
  BY DEF Init
<1>2. Len(request) = 0 /\ Len(chain) = 0 /\ request \in Seq(Request) /\ chain \in Seq(1..Len(request))
  BY <1>1, EmptySeq
<1>3. {} \in Records /\ setting.writes \in Nat
  BY <1>1, StorageAssumption DEF Records
<1>4. /\ file \in [Slots -> Documents]
      /\ memory \in [Slots -> Contents] /\ \A s \in Slots : memory[s] \in {Absent, {}}
  BY <1>1, <1>3 DEF Readable, Documents, Contents
<1>5. TypeOK
  <2>1. \A s \in Slots : memory[s] \notin {Foreign, Invalid}
    BY <1>3, <1>4, StorageAssumption
  <2>2. since \in 0..Len(request) /\ Len(request) <= setting.writes
    BY <1>1, <1>2, <1>3
  <2> QED BY <1>1, <1>2, <1>4, <2>1, <2>2 DEF TypeOK
<1>6. ChainIsQueue /\ ChainInUse /\ Shown /\ InCallOrder
  BY <1>1, <1>2 DEF ChainIsQueue, ChainInUse, Shown, InCallOrder, Answered
<1>7. NothingForeseen
  BY <1>1, <1>4, StorageAssumption DEF NothingForeseen, Carries
<1> QED BY <1>5, <1>6, <1>7 DEF IInv

\* Every step keeps the invariant.
LEMMA NextInvariant == IInv /\ [Next]_vars => IInv'
<1> SUFFICES ASSUME IInv, [Next]_vars PROVE IInv'
  OBVIOUS
<1>1. CASE \/ Open \/ ImportSync \/ OpenFails \/ Close \/ Release \/ CloseBackend \/ WriteBack
           \/ \E k \in Keys : Import(k) \/ Backup(k)
  BY <1>1, SurroundingsKeep
<1>2. CASE Activate
  BY <1>2, ActivateKeeps
<1>3. CASE \E kind \in {"put", "delete", "update"}, s \in Slots : Enqueue(kind, s)
  BY <1>3, EnqueueKeeps
<1>4. CASE Vacuous \/ Refuse \/ Fail
  <2>1. chain # <<>>
    BY <1>4 DEF Vacuous, Refuse, Fail, CanStart, IInv, ChainInUse
  <2>2. PICK outcome \in {"unchanged", "missing", "failed"} : Settle(outcome)
    BY <1>4 DEF Vacuous, Refuse, Fail
  <2>3. UNCHANGED <<disk, file, stage, unit, loading, memory, since>>
    BY <1>4 DEF Vacuous, Refuse, Fail
  <2> QED BY <2>1, <2>2, <2>3, RejectKeeps
<1>5. CASE Start \/ Publish \/ Sync
  BY <1>5, WritingKeeps
<1>6. CASE Apply
  BY <1>6, ApplyKeeps
<1>7. CASE Crash \/ LosePower
  BY <1>7, ForgetKeeps DEF Crash, LosePower
<1>8. CASE UNCHANGED vars
  <2>1. ChainIsQueue' /\ InCallOrder' /\ Running' = Running /\ Content' = Content
    BY <1>8, QueueKept DEF vars
  <2>2. TypeOK' /\ NothingForeseen'
    BY <1>8 DEF vars, IInv, TypeOK, NothingForeseen, Carries
  <2>3. ChainInUse' /\ Shown'
    BY <1>8, <2>1 DEF vars, IInv, ChainInUse, Shown, PerRecord
  <2> QED BY <2>1, <2>2, <2>3 DEF IInv
<1> QED BY <1>1, <1>2, <1>3, <1>4, <1>5, <1>6, <1>7, <1>8 DEF Next, ChainStep

\* So it always holds.
LEMMA Invariance == Spec => []IInv
BY InitInvariant, NextInvariant, PTL DEF Spec

\* Every reachable state is typed; in particular no document is served that a
\* schema refuses.
THEOREM StorageTypes == Spec => []TypeOK
<1>1. IInv => TypeOK
  BY DEF IInv
<1> QED BY <1>1, Invariance, PTL

\* Reads answer the acknowledged calls in the order they were made, for any
\* number of writes, keys, failures, closes and crashes.
THEOREM CallsKeepOrder == Spec => []InCallOrder
<1>1. IInv => InCallOrder
  BY DEF IInv
<1> QED BY <1>1, Invariance, PTL

\* No write is left unanswered behind a close.
THEOREM CloseDrains == Spec => []ClosedIsDrained
<1>1. ASSUME IInv PROVE ClosedIsDrained
  <2>1. SUFFICES ASSUME stage = "free", NEW i \in 1..Len(request) PROVE request[i].outcome # "queued"
    BY <1>1, Shapes DEF ClosedIsDrained, IInv
  <2>2. Len(chain) = 0 /\ Len(request) \in Nat
    BY <1>1, <2>1, Shapes, EmptySeq DEF IInv, ChainInUse
  <2> QED BY <1>1, <2>1, <2>2 DEF IInv, ChainIsQueue, Answered
<1> QED BY <1>1, Invariance, PTL

\* A write is visible only after its document says the same, and is synced.
THEOREM WrittenFirst == Spec => VisibleIsWritten
<1>1. ASSUME IInv, [Next]_vars
      PROVE  [stage = "open" /\ stage' = "open" =>
                \A s \in Slots : memory'[s] # memory[s] =>
                  /\ file'[s] = memory'[s]
                  /\ memory'[s] # Absent \/ ~ PerRecord => disk'[s] = memory'[s]]_vars
  <2>1. SUFFICES ASSUME stage = "open", stage' = "open", NEW s \in Slots, memory'[s] # memory[s]
                 PROVE  /\ file'[s] = memory'[s]
                        /\ memory'[s] # Absent \/ ~ PerRecord => disk'[s] = memory'[s]
    OBVIOUS
  <2>2. Apply
    BY <1>1, <2>1 DEF Next, vars, Open, ImportSync, Activate, Loaded, OpenFails, Import, Backup, Enqueue, ChainStep,
       Vacuous, Refuse, Start, Publish, Sync, Fail, Close, Release, CloseBackend, Crash, LosePower, Forget, WriteBack
  <2>3. /\ step = "durable" /\ memory' = [memory EXCEPT ![Running.slot] = Content] /\ UNCHANGED <<disk, file>>
        /\ Running.slot \in Slots /\ memory \in [Slots -> Contents]
    BY <1>1, <2>2, RunningWrite DEF Apply, IInv, ChainInUse, TypeOK
  <2>4. s = Running.slot /\ memory'[s] = Content
    BY <2>1, <2>3
  <2> QED BY <1>1, <2>3, <2>4 DEF IInv, Shown
<1> QED BY <1>1, Invariance, PTL DEF Spec, VisibleIsWritten
-----------------------------------------------------------------------------
(* What a reopening finds                                                      *)

Reads(d) == IF d \in {Foreign, Invalid} THEN Absent ELSE d

\* a write of s was rejected, or lost with the process
Rejected(s) == \E i \in DOMAIN request : request[i].slot = s /\ request[i].outcome \in {"failed", "lost"}

\* the running write has replaced the document of s
Published(s) == step \in {"renamed", "durable"} /\ Running.slot = s

\* what the next opening may show of s is not what was read last
Excused(s) ==
  \/ Unsettled(s)
  \/ memory[s] = Absent /\ PerRecord /\ (PowerLoss \/ s \in Legacy)
  \/ memory[s] = {} /\ PerRecord /\ PowerLoss /\ s \in Legacy

\* Records are imported into nothing.
ImportsAreNew ==
  /\ todo # {} => stage = "opening" /\ PerRecord
  /\ todo \subseteq Legacy
  /\ \A k \in todo : file[k] = Absent

\* The document says what was read last, and so does what a loss of power leaves.
FileRecalls(s) == Reads(file[s]) = memory[s] \/ Excused(s) \/ Published(s)
DiskRecalls(s) == Reads(disk[s]) = memory[s] \/ Excused(s) \/ Published(s)

\* What is on the disk lags behind only by what an opening may not hold on to:
\* rejected writes, removals and imports.
DiskFollows(s) ==
  \/ Reads(disk[s]) = Reads(file[s])
  \/ Rejected(s) \/ Published(s)
  \/ PerRecord /\ (Reads(file[s]) = Absent \/ (file[s] = {} /\ s \in Legacy))

Recalled ==
  /\ ImportsAreNew
  /\ \A s \in Slots : FileRecalls(s)
  /\ PowerLoss => \A s \in Slots : DiskRecalls(s) /\ DiskFollows(s)

\* What a step without a say in what was read may do to a document, to what a
\* loss of power leaves of it, and to the writes of it.
Moved(s) ==
  \/ UNCHANGED <<file[s], disk[s]>>
  \/ file'[s] = file[s] /\ disk'[s] = file[s]
  \/ file'[s] = disk[s] /\ disk'[s] = disk[s] /\ PowerLoss
  \/ Published(s)' /\ UNCHANGED disk[s]
  \/ ~ PerRecord /\ file'[s] = memory[s] /\ UNCHANGED disk[s]
  \/ file[s] = Invalid /\ file'[s] = Absent /\ UNCHANGED disk[s]
  \/ PerRecord /\ s \in Legacy /\ file[s] = Absent /\ file'[s] = {} /\ UNCHANGED disk[s]

Remembers(s) ==
  /\ Unsettled(s) => Unsettled(s)'
  /\ Rejected(s) => Rejected(s)'
  /\ Published(s) => Published(s)' \/ (Unsettled(s)' /\ Rejected(s)')

\* What was read last can still be found after such a step.
LEMMA MovesRecall ==
  ASSUME IInv, NEW s \in Slots, UNCHANGED <<setting, memory>>, Moved(s), Remembers(s), FileRecalls(s),
         PowerLoss => DiskRecalls(s) /\ DiskFollows(s)
  PROVE  FileRecalls(s)' /\ (PowerLoss' => DiskRecalls(s)' /\ DiskFollows(s)')
<1>1. PowerLoss' = PowerLoss /\ PerRecord' = PerRecord /\ Legacy' = Legacy /\ memory'[s] = memory[s]
  BY DEF PowerLoss, PerRecord, Legacy
<1>2. Excused(s) => Excused(s)'
  BY <1>1 DEF Excused, Remembers
<1>3. Unsettled(s)' => Excused(s)'
  BY DEF Excused
<1>4. Excused(s) \/ Published(s) => Excused(s)' \/ Published(s)'
  BY <1>2, <1>3 DEF Remembers
<1>5. Rejected(s) \/ Published(s) => Rejected(s)' \/ Published(s)'
  BY DEF Remembers
<1>6. Reads(memory[s]) = memory[s] /\ Reads(Absent) = Absent /\ Reads(Invalid) = Absent
  BY StorageAssumption DEF IInv, TypeOK, Reads
<1>7. \A t : Reads(t)' = Reads(t)
  BY DEF Reads
<1>8. CASE UNCHANGED <<file[s], disk[s]>>
  BY <1>1, <1>4, <1>5, <1>8 DEF FileRecalls, DiskRecalls, DiskFollows, Reads
<1>9. CASE file'[s] = file[s] /\ disk'[s] = file[s]
  BY <1>1, <1>4, <1>9 DEF FileRecalls, DiskRecalls, DiskFollows, Reads
<1>10. CASE file'[s] = disk[s] /\ disk'[s] = disk[s] /\ PowerLoss
  BY <1>1, <1>4, <1>10 DEF FileRecalls, DiskRecalls, DiskFollows, Reads
<1>11. CASE Published(s)' /\ UNCHANGED disk[s]
  BY <1>11 DEF FileRecalls, DiskRecalls, DiskFollows
<1>12. CASE ~ PerRecord /\ file'[s] = memory[s] /\ UNCHANGED disk[s]
  <2>1. PowerLoss => Reads(disk[s]) = memory[s] \/ Unsettled(s) \/ Published(s)
    BY <1>12 DEF DiskRecalls, Excused
  <2>2. Unsettled(s) => Rejected(s)
    BY DEF Unsettled, Rejected
  <2>3. FileRecalls(s)'
    BY <1>1, <1>6, <1>12 DEF FileRecalls, Reads
  <2>4. PowerLoss => DiskRecalls(s)'
    BY <1>1, <1>4, <1>12 DEF DiskRecalls, Reads
  <2>5. PowerLoss => DiskFollows(s)'
    BY <1>1, <1>5, <1>6, <1>12, <2>1, <2>2 DEF DiskFollows, Reads
  <2> QED BY <1>1, <2>3, <2>4, <2>5
<1>13. CASE file[s] = Invalid /\ file'[s] = Absent /\ UNCHANGED disk[s]
  BY <1>1, <1>4, <1>5, <1>6, <1>13 DEF FileRecalls, DiskRecalls, DiskFollows, Reads
<1>14. CASE PerRecord /\ s \in Legacy /\ file[s] = Absent /\ file'[s] = {} /\ UNCHANGED disk[s]
  <2>1. memory[s] = Absent \/ Excused(s) \/ Published(s)
    BY <1>6, <1>14 DEF FileRecalls
  <2>2. Excused(s) \/ Published(s)
    BY <1>14, <2>1 DEF Excused
  <2>3. FileRecalls(s)'
    BY <1>4, <2>2 DEF FileRecalls
  <2>4. PowerLoss => DiskRecalls(s)'
    BY <1>4, <2>2 DEF DiskRecalls
  <2>5. DiskFollows(s)'
    BY <1>1, <1>14 DEF DiskFollows
  <2> QED BY <1>1, <2>3, <2>4, <2>5
<1> QED BY <1>8, <1>9, <1>10, <1>11, <1>12, <1>13, <1>14 DEF Moved

\* An answer is no rejection unless it says so, and takes none back.
LEMMA SettleRemembers ==
  ASSUME IInv, chain # <<>>, NEW o, Settle(o), UNCHANGED <<setting, since>>, NEW s \in Slots
  PROVE  /\ Unsettled(s) => Unsettled(s)'
         /\ Rejected(s) => Rejected(s)'
         /\ o = "failed" /\ Running.slot = s => Unsettled(s)' /\ Rejected(s)'
         /\ ~ Published(s)'
<1>1. /\ chain[1] \in 1..Len(request) /\ DOMAIN request = 1..Len(request) /\ since < chain[1]
      /\ request[chain[1]] \in Request /\ request[chain[1]].outcome = "queued"
  <2>1. chain[1] \in 1..Len(request) /\ chain[1] = Answered + 1 /\ since < chain[1]
    BY RunningWrite
  <2>2. Answered \in Int
    BY Shapes DEF IInv, Answered
  <2> QED BY <2>1, <2>2, Shapes DEF IInv, ChainIsQueue
<1>2. request' = [request EXCEPT ![chain[1]].outcome = o] /\ step' = "idle"
  BY DEF Settle
<1>3. /\ DOMAIN request' = DOMAIN request
      /\ \A i \in DOMAIN request : i # chain[1] => request'[i] = request[i]
      /\ request'[chain[1]].slot = request[chain[1]].slot /\ request'[chain[1]].outcome = o
  BY <1>1, <1>2 DEF Request
<1>4. Unsettled(s) => Unsettled(s)'
  BY <1>1, <1>3 DEF Unsettled, PowerLoss
<1>5. Rejected(s) => Rejected(s)'
  BY <1>1, <1>3 DEF Rejected
<1>6. ASSUME o = "failed", Running.slot = s PROVE Unsettled(s)' /\ Rejected(s)'
  <2>1. request'[chain[1]].slot = s /\ request'[chain[1]].outcome = "failed" /\ chain[1] \in DOMAIN request'
    BY <1>1, <1>3, <1>6 DEF Running
  <2>2. chain[1] > since'
    BY <1>1, Shapes DEF IInv
  <2> DEFINE n == chain[1]
  <2> HIDE DEF n
  <2>3. request'[n].slot = s /\ request'[n].outcome = "failed" /\ n \in DOMAIN request' /\ n > since'
    BY <2>1, <2>2 DEF n
  <2> QED BY <2>3 DEF Unsettled, Rejected
<1> QED BY <1>2, <1>4, <1>5, <1>6 DEF Published

\* A lost process loses what it had published.
LEMMA ForgetRemembers ==
  ASSUME IInv, Forget, NEW s \in Slots
  PROVE  Remembers(s)
<1>1. /\ request' = [i \in DOMAIN request |-> IF request[i].outcome = "queued"
                                              THEN [request[i] EXCEPT !.outcome = "lost"] ELSE request[i]]
      /\ step' = "idle" /\ UNCHANGED <<setting, since>>
  BY DEF Forget
<1>2. /\ DOMAIN request' = DOMAIN request
      /\ \A i \in DOMAIN request : request'[i] = IF request[i].outcome = "queued"
                                                 THEN [request[i] EXCEPT !.outcome = "lost"] ELSE request[i]
  BY <1>1
<1>3. \A i \in DOMAIN request : request[i] \in Request
  BY Shapes DEF IInv
<1>4. Unsettled(s) => Unsettled(s)'
  BY <1>1, <1>2 DEF Unsettled, PowerLoss
<1>5. Rejected(s) => Rejected(s)'
  BY <1>2 DEF Rejected
<1>6. ASSUME Published(s) PROVE Unsettled(s)' /\ Rejected(s)'
  <2>1. chain # <<>> /\ Running.slot = s
    BY <1>6 DEF Published, IInv, ChainInUse
  <2>2. chain[1] \in 1..Len(request) /\ chain[1] = Answered + 1 /\ since < chain[1]
    BY <2>1, RunningWrite
  <2>3. Answered \in Int /\ DOMAIN request = 1..Len(request) /\ since \in Nat
    BY Shapes DEF IInv, Answered
  <2>4. request[chain[1]].outcome = "queued" /\ request[chain[1]].slot = s
    BY <2>1, <2>2, <2>3 DEF IInv, ChainIsQueue, Running
  <2> DEFINE n == chain[1]
  <2>5. n \in DOMAIN request /\ n > since /\ request[n].outcome = "queued" /\ request[n].slot = s
    BY <2>2, <2>3, <2>4
  <2> HIDE DEF n
  <2>6. n \in DOMAIN request' /\ n > since' /\ request'[n].outcome = "lost" /\ request'[n].slot = s
    BY <1>1, <1>2, <1>3, <2>5 DEF Request
  <2> QED BY <2>6 DEF Unsettled, Rejected
<1> QED BY <1>4, <1>5, <1>6 DEF Remembers
\* A first start shows what is there.
LEMMA InitRecalled == Init => Recalled
<1> SUFFICES ASSUME Init PROVE Recalled
  OBVIOUS
<1>1. disk = file /\ memory = Readable /\ todo = {}
  BY DEF Init
<1>2. \A s \in Slots : Reads(file[s]) = memory[s] /\ Reads(disk[s]) = memory[s]
  BY <1>1 DEF Readable, Reads
<1> QED BY <1>1, <1>2 DEF Recalled, ImportsAreNew, FileRecalls, DiskRecalls, DiskFollows

\* A legacy file is imported where there is no document at all, key by key.
LEMMA ImportsStayNew ==
  ASSUME IInv, ImportsAreNew, [Next]_vars
  PROVE  ImportsAreNew'
<1>1. file \in [Slots -> Documents] /\ memory \in [Slots -> Contents]
  BY DEF IInv, TypeOK
<1>2. PerRecord' = PerRecord /\ Legacy' = Legacy /\ Legacy \subseteq Keys
  BY Shapes DEF IInv, PerRecord, Legacy, Next, vars, Open, ImportSync, Activate, OpenFails, Import, Backup, Enqueue,
     ChainStep, Vacuous, Refuse, Start, Publish, Sync, Fail, Apply, Close, Release, CloseBackend, Crash, LosePower,
     Forget, WriteBack, loading
<1>3. CASE Open
  <2>1. todo' = (IF PerRecord /\ ~ HasDocuments THEN Legacy ELSE {}) /\ UNCHANGED file /\ stage' = "opening"
    BY <1>3 DEF Open
  <2> QED BY <1>2, <2>1 DEF ImportsAreNew, HasDocuments, Slots
<1>4. CASE \E k \in Keys : Import(k)
  <2>1. PICK k \in Keys : Import(k)
    BY <1>4
  <2>2. /\ file' = [file EXCEPT ![k] = {}] /\ todo' = todo \ {k} /\ k \in todo /\ UNCHANGED stage
    BY <2>1 DEF Import
  <2>3. \A j \in todo' : j # k /\ file'[j] = file[j]
    BY <1>1, <2>2
  <2> QED BY <1>2, <2>2, <2>3 DEF ImportsAreNew
<1>5. CASE \/ Activate \/ OpenFails \/ Crash \/ LosePower \/ Close \/ Release
           \/ \E k \in Keys : Backup(k)
           \/ \E kind \in {"put", "delete", "update"}, s \in Slots : Enqueue(kind, s)
  <2>1. todo' = {}
    BY <1>5 DEF ImportsAreNew, Activate, Loaded, loading, OpenFails, Crash, LosePower, Forget, Close, Release, Backup, Enqueue
  <2> QED BY <2>1 DEF ImportsAreNew
<1>6. CASE ChainStep
  <2>1. chain # <<>>
    BY <1>6 DEF ChainStep, Vacuous, Refuse, Start, Publish, Sync, Fail, Apply, CanStart, IInv, ChainInUse
  <2>2. todo = {} /\ UNCHANGED todo
    BY <1>6, <2>1 DEF IInv, ChainInUse, ImportsAreNew, ChainStep, Vacuous, Refuse, Start, Publish, Sync, Fail, Apply, loading
  <2> QED BY <2>2 DEF ImportsAreNew
<1>7. CASE ImportSync \/ CloseBackend \/ WriteBack \/ UNCHANGED vars
  <2>1. UNCHANGED <<todo, stage, file>>
    BY <1>7 DEF ImportSync, CloseBackend, WriteBack, vars, loading
  <2> QED BY <1>2, <2>1 DEF ImportsAreNew
<1> QED BY <1>3, <1>4, <1>5, <1>6, <1>7 DEF Next
-----------------------------------------------------------------------------
(* What each step does to what a reopening finds                               *)

\* Away from the queue documents move, and nothing is forgotten.
LEMMA SurroundingsMove ==
  ASSUME IInv, ImportsAreNew, NEW s \in Slots,
         \/ Open \/ ImportSync \/ OpenFails \/ Close \/ Release \/ CloseBackend \/ WriteBack
         \/ \E k \in Keys : Import(k) \/ Backup(k)
         \/ UNCHANGED vars
  PROVE  UNCHANGED <<setting, memory>> /\ Moved(s) /\ Remembers(s)
<1>1. UNCHANGED <<setting, memory, request, since, chain, step>>
  BY DEF Open, ImportSync, OpenFails, Close, Release, CloseBackend, WriteBack, Import, Backup, vars, loading, queue
<1>2. Remembers(s)
  BY <1>1 DEF Remembers, Unsettled, Rejected, Published, Running, PowerLoss
<1>3. file \in [Slots -> Documents]
  BY DEF IInv, TypeOK
<1>4. ASSUME UNCHANGED <<file, disk>> PROVE Moved(s)
  BY <1>4 DEF Moved
<1>5. ASSUME UNCHANGED file, NEW slots, disk' = Synced(slots) PROVE Moved(s)
  <2>1. disk'[s] = file[s] \/ disk'[s] = disk[s]
    BY <1>5 DEF Synced
  <2> QED BY <1>5, <2>1 DEF Moved
<1>6. ASSUME \E k \in Keys : Import(k) PROVE Moved(s)
  <2>1. PICK k \in Keys : Import(k)
    BY <1>6
  <2>2. file' = [file EXCEPT ![k] = {}] /\ k \in todo /\ UNCHANGED disk
    BY <2>1 DEF Import
  <2>3. PerRecord /\ k \in Legacy /\ file[k] = Absent
    BY <2>2 DEF ImportsAreNew
  <2> QED BY <1>3, <2>2, <2>3 DEF Moved
<1>7. ASSUME \E k \in Keys : Backup(k) PROVE Moved(s)
  <2>1. PICK k \in Keys : file' = [file EXCEPT ![k] = Absent] /\ file[k] = Invalid /\ UNCHANGED disk
    BY <1>7 DEF Backup
  <2> QED BY <1>3, <2>1 DEF Moved
<1>8. ASSUME \/ Open \/ ImportSync \/ OpenFails \/ Close \/ Release \/ CloseBackend \/ WriteBack \/ UNCHANGED vars
      PROVE  Moved(s)
  BY <1>4, <1>5, <1>8 DEF Open, ImportSync, OpenFails, Close, Release, CloseBackend, WriteBack, vars
<1> QED BY <1>1, <1>2, <1>6, <1>7, <1>8

\* A new request was not answered yet, and does not change the running one.
LEMMA EnqueueMoves ==
  ASSUME IInv, NEW kind \in {"put", "delete", "update"}, NEW t \in Slots, Enqueue(kind, t), NEW s \in Slots
  PROVE  UNCHANGED <<setting, memory>> /\ Moved(s) /\ Remembers(s)
<1> DEFINE new == [kind |-> kind, slot |-> t, outcome |-> "queued"]
<1>1. /\ request' = Append(request, new) /\ chain' = Append(chain, Len(request) + 1)
      /\ UNCHANGED <<setting, memory, file, disk, step, since>>
  BY DEF Enqueue, loading
<1>2. request \in Seq(Request) /\ chain \in Seq(1..Len(request)) /\ DOMAIN request = 1..Len(request) /\ Len(request) \in Nat
  BY Shapes DEF IInv, TypeOK
<1>3. new \in Request
  BY DEF Request
<1> HIDE DEF new
<1>4. /\ DOMAIN request \subseteq DOMAIN request' /\ \A i \in DOMAIN request : request'[i] = request[i]
  BY <1>1, <1>2, <1>3
<1>5. Unsettled(s) => Unsettled(s)'
  BY <1>1, <1>4 DEF Unsettled, PowerLoss
<1>6. Rejected(s) => Rejected(s)'
  BY <1>4 DEF Rejected
<1>7. chain # <<>> => Running' = Running
  <2>1. SUFFICES ASSUME chain # <<>> PROVE Running' = Running
    OBVIOUS
  <2>2. Len(chain) \in Nat \ {0} /\ chain[1] \in 1..Len(request)
    BY <2>1, RunningWrite
  <2>3. chain'[1] = chain[1]
    BY <1>1, <1>2, <2>2
  <2> QED BY <1>2, <1>4, <2>2, <2>3 DEF Running
<1>8. Published(s) => Published(s)'
  BY <1>1, <1>7 DEF Published, IInv, ChainInUse
<1> QED BY <1>1, <1>5, <1>6, <1>8 DEF Moved, Remembers

\* A write that ends without an effect was not published, or is rejected.
LEMMA RejectMoves ==
  ASSUME IInv, Vacuous \/ Refuse \/ Fail, NEW s \in Slots
  PROVE  UNCHANGED <<setting, memory>> /\ Moved(s) /\ Remembers(s)
<1>1. chain # <<>> /\ UNCHANGED <<setting, memory, file, disk, since>>
  BY DEF Vacuous, Refuse, Fail, CanStart, IInv, ChainInUse, loading
<1>2. PICK o : Settle(o) /\ (step = "idle" \/ o = "failed")
  BY DEF Vacuous, Refuse, Fail, CanStart
<1>3. Remembers(s)
  BY <1>1, <1>2, SettleRemembers DEF Remembers, Published
<1> QED BY <1>1, <1>3 DEF Moved

\* The running write replaces its own document, and with it those that are kept
\* in the same file by what reads answer.
LEMMA WritingMoves ==
  ASSUME IInv, Start \/ Publish \/ Sync, NEW s \in Slots
  PROVE  UNCHANGED <<setting, memory>> /\ Moved(s) /\ Remembers(s)
<1>1. UNCHANGED <<setting, memory, request, since, chain>>
  BY DEF Start, Publish, Sync, loading
<1>2. Running' = Running /\ PerRecord' = PerRecord /\ file \in [Slots -> Documents] /\ memory \in [Slots -> Contents]
  BY <1>1 DEF Running, PerRecord, IInv, TypeOK
<1>3. Remembers(s)
  BY <1>1, <1>2 DEF Remembers, Unsettled, Rejected, Published, PowerLoss, Start, Publish, Sync, CanStart
<1>4. CASE Start
  BY <1>1, <1>3, <1>4 DEF Moved, Start
<1>5. CASE Publish
  <2>1. /\ file' = [(IF PerRecord THEN file ELSE memory) EXCEPT ![Running.slot] = Content] /\ UNCHANGED disk
        /\ step' \in {"renamed", "durable"}
    BY <1>5 DEF Publish
  <2>2. s = Running.slot => Published(s)'
    BY <1>2, <2>1 DEF Published
  <2>3. s # Running.slot => file'[s] = IF PerRecord THEN file[s] ELSE memory[s]
    BY <1>2, <2>1
  <2> QED BY <1>1, <1>3, <2>1, <2>2, <2>3 DEF Moved
<1>6. CASE Sync
  <2>1. disk' = Synced(Directory(Running.slot)) /\ UNCHANGED file
    BY <1>6 DEF Sync
  <2>2. disk'[s] = file[s] \/ disk'[s] = disk[s]
    BY <2>1 DEF Synced
  <2> QED BY <1>1, <1>3, <2>1, <2>2 DEF Moved
<1> QED BY <1>4, <1>5, <1>6
-----------------------------------------------------------------------------
(* The steps that change what was read                                         *)

\* An acknowledged write is read from then on, and its document says the same.
LEMMA ApplyRecalls ==
  ASSUME IInv, Recalled, Apply, NEW s \in Slots
  PROVE  FileRecalls(s)' /\ (PowerLoss' => DiskRecalls(s)' /\ DiskFollows(s)')
<1>1. /\ chain # <<>> /\ step = "durable" /\ Settle("done") /\ UNCHANGED <<setting, file, disk, since>>
      /\ memory' = [memory EXCEPT ![Running.slot] = Content]
  BY DEF Apply, IInv, ChainInUse, loading
<1>2. /\ Unsettled(s) => Unsettled(s)'
      /\ Rejected(s) => Rejected(s)'
  BY <1>1, SettleRemembers
<1>3. PowerLoss' = PowerLoss /\ PerRecord' = PerRecord /\ Legacy' = Legacy
  BY <1>1 DEF PowerLoss, PerRecord, Legacy
<1>4. memory \in [Slots -> Contents] /\ Running.slot \in Slots /\ Content \in Contents
  BY <1>1, RunningWrite, ContentIsDocument DEF IInv, TypeOK
<1>5. CASE s = Running.slot
  <2>1. memory'[s] = Content /\ file'[s] = Content
    BY <1>1, <1>4, <1>5 DEF IInv, Shown
  <2>2. Reads(Content) = Content
    BY <1>4, StorageAssumption DEF Reads, Contents
  <2>3. FileRecalls(s)'
    BY <2>1, <2>2 DEF FileRecalls, Reads
  <2>4. CASE Content # Absent \/ ~ PerRecord
    <3>1. disk'[s] = Content
      BY <1>1, <1>5, <2>4 DEF IInv, Shown
    <3> QED BY <2>1, <2>2, <2>3, <3>1 DEF DiskRecalls, DiskFollows, Reads
  <2>5. CASE Content = Absent /\ PerRecord
    <3>1. PowerLoss' => Excused(s)'
      BY <1>3, <2>1, <2>5 DEF Excused
    <3>2. DiskFollows(s)'
      BY <1>3, <2>1, <2>2, <2>5 DEF DiskFollows, Reads
    <3> QED BY <2>3, <3>1, <3>2 DEF DiskRecalls
  <2> QED BY <2>4, <2>5
<1>6. CASE s # Running.slot
  <2>1. memory'[s] = memory[s] /\ ~ Published(s)
    BY <1>1, <1>4, <1>6 DEF Published
  <2>2. Excused(s) => Excused(s)'
    BY <1>2, <1>3, <2>1 DEF Excused
  <2>3. FileRecalls(s)'
    BY <1>1, <2>1, <2>2 DEF Recalled, FileRecalls, Reads
  <2>4. PowerLoss => DiskRecalls(s)'
    BY <1>1, <2>1, <2>2 DEF Recalled, DiskRecalls, Reads
  <2>5. PowerLoss => DiskFollows(s)'
    BY <1>1, <1>2, <1>3, <2>1 DEF Recalled, DiskFollows, Reads
  <2> QED BY <1>3, <2>3, <2>4, <2>5
<1> QED BY <1>5, <1>6

\* What an opening shows is what the documents say.
LEMMA ActivateRecalls ==
  ASSUME IInv, Recalled, Activate, NEW s \in Slots
  PROVE  FileRecalls(s)' /\ (PowerLoss' => DiskRecalls(s)' /\ DiskFollows(s)')
<1>1. /\ stage = "opening" /\ memory' = Readable
      /\ UNCHANGED <<disk, file, setting, request, chain, step>>
  BY DEF Activate, Loaded, loading, queue
<1>2. ~ Published(s)
  BY <1>1 DEF Published, IInv, ChainInUse
<1>3. PowerLoss' = PowerLoss /\ PerRecord' = PerRecord /\ Legacy' = Legacy
  BY <1>1 DEF PowerLoss, PerRecord, Legacy
<1>4. Reads(file[s]) = memory'[s]
  BY <1>1 DEF Readable, Reads
<1>5. Rejected(s) => Rejected(s)'
  BY <1>1 DEF Rejected
<1>6. PowerLoss /\ Rejected(s) => Unsettled(s)'
  BY <1>1, <1>3 DEF Rejected, Unsettled
<1>7. FileRecalls(s)'
  BY <1>1, <1>4 DEF FileRecalls, Reads
<1>8. PowerLoss => DiskFollows(s)
  BY DEF Recalled
<1>9. PowerLoss => DiskFollows(s)'
  BY <1>1, <1>2, <1>3, <1>5, <1>8 DEF DiskFollows, Reads
<1>10. ASSUME PowerLoss PROVE DiskRecalls(s)'
  <2>1. CASE Reads(disk[s]) = Reads(file[s])
    BY <1>1, <1>4, <2>1 DEF DiskRecalls, Reads
  <2>2. CASE Rejected(s)
    BY <1>6, <1>10, <2>2 DEF DiskRecalls, Excused
  <2>3. CASE PerRecord /\ Reads(file[s]) = Absent
    BY <1>3, <1>4, <1>10, <2>3 DEF DiskRecalls, Excused
  <2>4. CASE PerRecord /\ file[s] = {} /\ s \in Legacy
    <3>1. {} \in Records
      BY DEF Records
    <3>2. memory'[s] = {}
      BY <1>4, <2>4, <3>1, StorageAssumption DEF Reads
    <3> QED BY <1>3, <1>10, <2>4, <3>2 DEF DiskRecalls, Excused
  <2> QED BY <1>2, <1>8, <1>10, <2>1, <2>2, <2>3, <2>4 DEF DiskFollows
<1> QED BY <1>3, <1>7, <1>9, <1>10
-----------------------------------------------------------------------------
(* The second invariant and what follows from it                               *)

\* Every step leaves what was read last to be found.
LEMMA NextRecalls == IInv /\ Recalled /\ [Next]_vars => Recalled'
<1> SUFFICES ASSUME IInv, Recalled, [Next]_vars PROVE Recalled'
  OBVIOUS
<1>1. ImportsAreNew'
  BY ImportsStayNew DEF Recalled
<1>2. ASSUME NEW s \in Slots
      PROVE  FileRecalls(s)' /\ (PowerLoss' => DiskRecalls(s)' /\ DiskFollows(s)')
  <2>1. CASE Apply
    BY <2>1, ApplyRecalls
  <2>2. CASE Activate
    BY <2>2, ActivateRecalls
  <2>3. CASE UNCHANGED <<setting, memory>> /\ Moved(s) /\ Remembers(s)
    BY <2>3, MovesRecall DEF Recalled
  <2>4. CASE Crash \/ LosePower
    <3>1. UNCHANGED <<setting, memory>> /\ Remembers(s)
      BY <2>4, ForgetRemembers DEF Crash, LosePower, Forget
    <3>2. Moved(s)
      BY <2>4 DEF Crash, LosePower, Moved
    <3> QED BY <2>3, <3>1, <3>2
  <2>5. CASE \/ Open \/ ImportSync \/ OpenFails \/ Close \/ Release \/ CloseBackend \/ WriteBack
             \/ \E k \in Keys : Import(k) \/ Backup(k)
             \/ UNCHANGED vars
    BY <2>3, <2>5, SurroundingsMove DEF Recalled
  <2>6. CASE \E kind \in {"put", "delete", "update"}, t \in Slots : Enqueue(kind, t)
    BY <2>3, <2>6, EnqueueMoves
  <2>7. CASE Vacuous \/ Refuse \/ Fail
    BY <2>3, <2>7, RejectMoves
  <2>8. CASE Start \/ Publish \/ Sync
    BY <2>3, <2>8, WritingMoves
  <2> QED BY <2>1, <2>2, <2>4, <2>5, <2>6, <2>7, <2>8 DEF Next, ChainStep
<1> QED BY <1>1, <1>2 DEF Recalled

\* A reopening shows what was last read, whatever happened in between: of any
\* number of writes, closes, crashes and losses of power.
THEOREM ReopeningRecalls == Spec => ReopenShowsAcknowledged
<1>1. Spec => [](IInv /\ Recalled)
  BY InitInvariant, NextInvariant, InitRecalled, NextRecalls, PTL DEF Spec
<1>2. ASSUME IInv, Recalled, [Next]_vars
      PROVE  [stage = "opening" /\ stage' = "open" =>
                \A s \in Slots : memory'[s] # memory[s] =>
                  \/ Unsettled(s)
                  \/ memory[s] = Absent /\ PerRecord /\ (PowerLoss \/ s \in Legacy)
                  \/ memory[s] = {} /\ PerRecord /\ PowerLoss /\ s \in Legacy]_vars
  <2>1. SUFFICES ASSUME stage = "opening", stage' = "open", NEW s \in Slots, memory'[s] # memory[s]
                 PROVE  Excused(s)
    BY DEF Excused
  <2>2. Activate
    BY <1>2, <2>1 DEF Next, vars, Open, ImportSync, OpenFails, Import, Backup, Enqueue, ChainStep,
       Vacuous, Refuse, Start, Publish, Sync, Fail, Apply, Close, Release, CloseBackend, Crash, LosePower, Forget, WriteBack
  <2>3. memory'[s] = Reads(file[s])
    BY <2>2 DEF Activate, Readable, Reads
  <2>4. ~ Published(s)
    BY <1>2, <2>1 DEF Published, IInv, ChainInUse
  <2>5. FileRecalls(s)
    BY <1>2 DEF Recalled
  <2> QED BY <2>1, <2>3, <2>4, <2>5 DEF FileRecalls
<1> QED BY <1>1, <1>2, PTL DEF Spec, ReopenShowsAcknowledged
=============================================================================
