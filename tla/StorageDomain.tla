---------------------------- MODULE StorageDomain ----------------------------
(***************************************************************************)
(* One open domain of packages/storage/storage-domain over a unit of the    *)
(* JSON backend (packages/storage/storage-json), in either of its layouts.  *)
(* The single writer's chain, the file operations of the unit between their *)
(* awaits, opening with the import of a legacy file, close, crashes of the  *)
(* process and losses of power.                                             *)
(*                                                                          *)
(*  - A record is the set of the writes it carries: put replaces it by its  *)
(*    own, update adds itself to what it finds.  Any lost, repeated or       *)
(*    misplaced write then shows.                                            *)
(*  - A unit has one table, whose keys are Keys, and the global slot.        *)
(*  - Directory entries are what a file operation changes: file is what the  *)
(*    system shows, disk what a loss of power leaves.  An entry reaches the  *)
(*    disk when its directory is synced, or by itself at any time.  A        *)
(*    temporary file is never seen.  (Windows syncs no directory: POSIX.)    *)
(*  - The unit's own memory in the single layout, set before and rolled back *)
(*    after a failed publication, is the domain's: writes do not overlap.    *)
(***************************************************************************)
EXTENDS Naturals, Sequences, FiniteSets

CONSTANTS
  Keys, Global,    \* the record keys, and the slot of the global singleton
  Absent,          \* no document, or a global that was never written
  Foreign,         \* a record's document that reads as absent: malformed, another version
  Invalid,         \* a document its schema refuses
  NoKey,
  Settings,        \* the units and the surroundings to look at
  MaxWrites        \* bound of the model on the writes ever requested

Slots    == Keys \cup {Global}
Records  == SUBSET (1..MaxWrites)
Contents == {Absent} \cup Records
Documents == {Absent, Foreign, Invalid} \cup Records

ASSUME StorageAssumption ==
  /\ Global \notin Keys /\ NoKey \notin Slots
  /\ Settings \subseteq [
       layout : {"per-record", "single"},
       legacy : SUBSET Keys,    \* the keys that an acceptable legacy file holds
       skip   : BOOLEAN,        \* invalidRecords: 'backup-and-skip'
       aged   : BOOLEAN,        \* whether documents are there at the first start
       power  : BOOLEAN,        \* whether power may be lost
       writes : 0..MaxWrites]   \* bound of the model in this setting
  /\ MaxWrites \in Nat
  /\ \A r \in Records : r \notin {Absent, Foreign, Invalid}
  /\ Absent # Foreign /\ Absent # Invalid /\ Foreign # Invalid

VARIABLES
  setting,         \* one of Settings, for good
  disk, file,      \* the documents
  stage,           \* the domain's name: free, reserved by open, in use, closing
  unit,            \* whether the backend unit accepts calls
  todo, copying,   \* the import: records left, and the one not synced yet
  memory,          \* what reads answer; kept while closed: what they last did
  request,         \* every write requested, in the order of the calls
  since,           \* how many of them precede this opening
  chain,           \* the write chain: numbers of requests, the running one first
  step             \* how far the running write came

vars == <<setting, disk, file, stage, unit, todo, copying, memory, request, since, chain, step>>
loading == <<setting, todo, copying>>
PerRecord == setting.layout = "per-record"
Legacy    == setting.legacy
PowerLoss == setting.power
queue == <<request, chain, step>>

Request == [kind : {"put", "delete", "update"}, slot : Slots,
            outcome : {"queued", "done", "unchanged", "missing", "failed", "lost"}]

TypeOK ==
  /\ setting \in Settings
  /\ disk \in [Slots -> Documents]
  /\ file \in [Slots -> Documents]
  /\ stage \in {"free", "opening", "open", "closing"}
  /\ unit \in {"none", "open", "closed"}
  /\ todo \subseteq Keys /\ copying \in Keys \cup {NoKey}
  /\ \A t \in Slots : memory[t] \notin {Foreign, Invalid}   \* only parsed records are served
  /\ memory \in [Slots -> Contents]
  /\ request \in Seq(Request) /\ Len(request) <= setting.writes
  /\ since \in 0..Len(request)
  /\ chain \in Seq(1..Len(request))
  /\ step \in {"idle", "writing", "renamed", "durable"}
-----------------------------------------------------------------------------
(* Opening (DomainFacility.open, loadPerRecordState)                         *)

Readable == [s \in Slots |-> IF file[s] \in {Foreign, Invalid} THEN Absent ELSE file[s]]

\* any document path, whatever it holds, suppresses the import
HasDocuments == \E s \in Slots : file[s] # Absent

\* (as if every opening imported the legacy file)
OpenImporting ==
  /\ stage = "free"
  /\ stage' = "opening" /\ unit' = "open"
  /\ todo' = IF PerRecord THEN Legacy ELSE {}
  /\ UNCHANGED <<setting, disk, file, copying, memory, since, queue>>

Open ==
  /\ stage = "free"
  /\ stage' = "opening" /\ unit' = "open"
  /\ todo' = IF PerRecord /\ ~ HasDocuments THEN Legacy ELSE {}
  /\ UNCHANGED <<setting, disk, file, copying, memory, since, queue>>

\* writeAtomic of one legacy record: renamed into place, then synced
Import(k) ==
  /\ stage = "opening" /\ copying = NoKey /\ k \in todo
  /\ file' = [file EXCEPT ![k] = {}]
  /\ todo' = todo \ {k} /\ copying' = k
  /\ UNCHANGED <<setting, disk, stage, unit, memory, since, queue>>

\* the slots whose directory entries lie in one directory with that of s
Directory(s) ==
  IF ~ PerRecord THEN Slots ELSE IF s = Global THEN {Global} ELSE Keys

Synced(slots) == [s \in Slots |-> IF s \in slots THEN file[s] ELSE disk[s]]

ImportSync ==
  /\ stage = "opening" /\ copying # NoKey
  /\ disk' = Synced(Directory(copying))
  /\ copying' = NoKey
  /\ UNCHANGED <<setting, file, stage, unit, todo, memory, since, queue>>

Loaded == stage = "opening" /\ todo = {} /\ copying = NoKey

\* backupRecord: a record that its schema refuses is moved aside
Backup(k) ==
  /\ Loaded /\ PerRecord /\ setting.skip /\ unit = "open"
  /\ file[k] = Invalid
  /\ file' = [file EXCEPT ![k] = Absent]
  /\ UNCHANGED <<disk, stage, unit, loading, memory, since, queue>>

\* (as if documents were served unparsed)
ActivateUnchecked ==
  /\ Loaded
  /\ stage' = "open"
  /\ memory' = file
  /\ since' = Len(request)
  /\ UNCHANGED <<disk, file, unit, loading, queue>>

Activate ==
  /\ Loaded /\ \A s \in Slots : file[s] # Invalid
  /\ stage' = "open"
  /\ memory' = Readable
  /\ since' = Len(request)
  /\ UNCHANGED <<disk, file, unit, loading, queue>>

\* an invalid record that stays, or a file operation that failed: the unit is
\* closed and the name released
OpenFails ==
  /\ stage = "opening"
  /\ stage' = "free" /\ unit' = "none"
  /\ todo' = {} /\ copying' = NoKey
  /\ UNCHANGED <<setting, disk, file, memory, since, queue>>
-----------------------------------------------------------------------------
(* Writes                                                                    *)

Enqueue(kind, s) ==
  /\ stage = "open"
  /\ s = Global => kind = "put"
  /\ Len(request) < setting.writes
  /\ request' = Append(request, [kind |-> kind, slot |-> s, outcome |-> "queued"])
  /\ chain' = Append(chain, Len(request) + 1)
  /\ UNCHANGED <<disk, file, stage, unit, loading, memory, since, step>>

Running == request[chain[1]]

\* (as if update transformed the document on the medium)
CurrentDocument(s) == IF file[s] \in {Absent, Foreign, Invalid} THEN {} ELSE file[s]

\* the record that update transforms, read in the write's own slot
Current(s) == IF memory[s] = Absent THEN {} ELSE memory[s]

Content ==
  IF Running.kind = "delete" THEN Absent
  ELSE IF Running.kind = "update" THEN Current(Running.slot) \cup {chain[1]}
  ELSE {chain[1]}

Settle(outcome) ==
  /\ request' = [request EXCEPT ![chain[1]].outcome = outcome]
  /\ chain' = Tail(chain)
  /\ step' = "idle"

\* decided in the slot: a record that is not there needs no deletion and
\* admits no update
Vacuous ==
  /\ chain # <<>> /\ step = "idle"
  /\ Running.kind \in {"delete", "update"} /\ memory[Running.slot] = Absent
  /\ Settle(IF Running.kind = "delete" THEN "unchanged" ELSE "missing")
  /\ UNCHANGED <<disk, file, stage, unit, loading, memory, since>>

CanStart ==
  /\ chain # <<>> /\ step = "idle"
  /\ Running.kind \in {"delete", "update"} => memory[Running.slot] # Absent

\* (as if a closed unit never answered)
RefuseThrown ==
  /\ CanStart
  /\ Running.kind = "update"
  /\ Settle("failed")
  /\ UNCHANGED <<disk, file, stage, unit, loading, memory, since>>

\* the transform of update throws, or the backend closed the unit
Refuse ==
  /\ CanStart
  /\ Running.kind = "update" \/ unit = "closed"
  /\ Settle("failed")
  /\ UNCHANGED <<disk, file, stage, unit, loading, memory, since>>

Start ==
  /\ CanStart /\ unit = "open"
  /\ step' = "writing"
  /\ UNCHANGED <<disk, file, stage, unit, loading, memory, since, request, chain>>

\* (as if a publication carried nothing but its own record)
PublishAlone ==
  /\ step = "writing"
  /\ file' = [[s \in Slots |-> Absent] EXCEPT ![Running.slot] = Content]
  /\ step' = IF PerRecord /\ Running.kind = "delete" THEN "durable" ELSE "renamed"
  /\ UNCHANGED <<disk, stage, unit, loading, memory, since, request, chain>>

\* rename of the document, or of the whole unit's; rm of a record's, which
\* syncs no directory
Publish ==
  /\ step = "writing"
  /\ file' = [(IF PerRecord THEN file ELSE memory) EXCEPT ![Running.slot] = Content]
  /\ step' = IF PerRecord /\ Running.kind = "delete" THEN "durable" ELSE "renamed"
  /\ UNCHANGED <<disk, stage, unit, loading, memory, since, request, chain>>

Sync ==
  /\ step = "renamed"
  /\ disk' = Synced(Directory(Running.slot))
  /\ step' = "durable"
  /\ UNCHANGED <<file, stage, unit, loading, memory, since, request, chain>>

\* any file operation may fail, the sync after the rename too
Fail ==
  /\ step \in {"writing", "renamed"}
  /\ Settle("failed")
  /\ UNCHANGED <<disk, file, stage, unit, loading, memory, since>>

\* (as if memory were written before the backend answered)
ApplyEarly ==
  /\ step \in {"renamed", "durable"}
  /\ memory' = [memory EXCEPT ![Running.slot] = Content]
  /\ Settle("done")
  /\ UNCHANGED <<disk, file, stage, unit, loading, since>>

\* memory and the domain/changed event after the unit acknowledged
Apply ==
  /\ step = "durable"
  /\ memory' = [memory EXCEPT ![Running.slot] = Content]
  /\ Settle("done")
  /\ UNCHANGED <<disk, file, stage, unit, loading, since>>
-----------------------------------------------------------------------------
(* Closing, and the ends that nobody asks for                                *)

Close ==
  /\ stage = "open"
  /\ stage' = "closing"
  /\ UNCHANGED <<disk, file, unit, loading, memory, since, queue>>

\* (as if a unit were only released while it is open)
ReleaseOpen ==
  /\ stage = "closing" /\ chain = <<>> /\ unit = "open"
  /\ stage' = "free" /\ unit' = "none"
  /\ UNCHANGED <<disk, file, loading, memory, since, queue>>

\* (as if close released the unit without waiting for the chain)
ReleaseAtOnce ==
  /\ stage = "closing"
  /\ stage' = "free" /\ unit' = "none"
  /\ UNCHANGED <<disk, file, loading, memory, since, queue>>

\* the chain has drained: the unit is closed, then the name is free
Release ==
  /\ stage = "closing" /\ chain = <<>>
  /\ stage' = "free" /\ unit' = "none"
  /\ UNCHANGED <<disk, file, loading, memory, since, queue>>

\* the backend's own close, under a domain that is still in use or loading
CloseBackend ==
  /\ stage # "free" /\ unit = "open"
  /\ unit' = "closed"
  /\ UNCHANGED <<disk, file, stage, loading, memory, since, queue>>

\* everything in memory is gone with the process
Forget ==
  /\ stage' = "free" /\ unit' = "none"
  /\ todo' = {} /\ copying' = NoKey
  /\ request' = [i \in DOMAIN request |->
                   IF request[i].outcome = "queued" THEN [request[i] EXCEPT !.outcome = "lost"]
                                                    ELSE request[i]]
  /\ chain' = <<>> /\ step' = "idle"
  /\ UNCHANGED <<setting, memory, since>>

Crash ==
  /\ stage # "free"
  /\ Forget
  /\ UNCHANGED <<disk, file>>

LosePower ==
  /\ PowerLoss
  /\ Forget
  /\ file' = disk
  /\ UNCHANGED disk

\* the system writes directories back in its own time
WriteBack ==
  /\ \E s \in Slots : disk' = Synced(IF PerRecord THEN {s} ELSE Slots)
  /\ disk' # disk
  /\ UNCHANGED <<file, stage, unit, loading, memory, since, queue>>
-----------------------------------------------------------------------------
Init ==
  /\ setting \in Settings
  /\ file \in IF setting.aged THEN [Slots -> {Absent, {}, Foreign, Invalid}] ELSE {[s \in Slots |-> Absent]}
  /\ disk = file
  /\ ~ PerRecord => \A s \in Slots : file[s] # Foreign
  /\ stage = "free" /\ unit = "none"
  /\ todo = {} /\ copying = NoKey
  /\ memory = Readable
  /\ request = <<>> /\ since = 0 /\ chain = <<>> /\ step = "idle"

ChainStep == Vacuous \/ Refuse \/ Start \/ Publish \/ Sync \/ Fail \/ Apply

Next ==
  \/ Open \/ ImportSync \/ Activate \/ OpenFails
  \/ \E k \in Keys : Import(k) \/ Backup(k)
  \/ \E kind \in {"put", "delete", "update"}, s \in Slots : Enqueue(kind, s)
  \/ ChainStep
  \/ Close \/ Release \/ CloseBackend
  \/ Crash \/ LosePower \/ WriteBack

Spec == Init /\ [][Next]_vars

\* every file operation answers, with a result or an error, and a promise that
\* settled runs what awaits it
FairSpec == Spec /\ WF_vars(ChainStep) /\ WF_vars(Release)
-----------------------------------------------------------------------------
(* Properties                                                                *)

Effects(s) == {i \in (since + 1)..Len(request) :
                 request[i].slot = s /\ request[i].outcome = "done"}
Resets(s)  == {i \in Effects(s) : request[i].kind # "update"}

\* What reads answer is exactly what the acknowledged calls since the opening
\* make of it in the order they were made: no update is lost to another one,
\* overtakes a put or a delete, or survives its own rejection.
InCallOrder ==
  stage \in {"open", "closing"} =>
    \A s \in Slots :
      LET last == {i \in Resets(s) : \A j \in Resets(s) : j <= i}
          live == {i \in Effects(s) : \A j \in last : i >= j}
      IN  IF \E i \in last : request[i].kind = "delete" THEN memory[s] = Absent
          ELSE (IF memory[s] = Absent THEN {} ELSE memory[s]) \ (1..since) = live

\* Nothing that was accepted is dropped by close: when the name is free again
\* every write was answered, or the process was lost.
ClosedIsDrained ==
  stage = "free" => \A i \in DOMAIN request : request[i].outcome # "queued"

\* A write becomes visible only when the document says the same, and has been
\* synced unless it is the removal of one.
VisibleIsWritten ==
  [][stage = "open" /\ stage' = "open" =>
       \A s \in Slots : memory'[s] # memory[s] =>
         /\ file'[s] = memory'[s]
         /\ memory'[s] # Absent \/ ~ PerRecord => disk'[s] = memory'[s]]_vars

\* a write of s since the opening that was rejected, or lost with the process;
\* what a reopening showed of it may still be unsynced, and go with the power
Unsettled(s) ==
  \E i \in DOMAIN request :
    /\ request[i].slot = s /\ request[i].outcome \in {"failed", "lost"}
    /\ i > since \/ PowerLoss

\* Reopening shows every record as it was last read, unless a write of it was
\* rejected or lost.  What it may bring back is a record that was not there:
\* one of a legacy file, imported whenever no document is left, and one whose
\* removal was not synced before power was lost.  What power may take is a
\* record as it was imported, by an opening that failed before the sync: the
\* document of another slot then keeps it from being imported again.
ReopenShowsAcknowledged ==
  [][stage = "opening" /\ stage' = "open" =>
       \A s \in Slots : memory'[s] # memory[s] =>
         \/ Unsettled(s)
         \/ memory[s] = Absent /\ PerRecord /\ (PowerLoss \/ s \in Legacy)
         \/ memory[s] = {} /\ PerRecord /\ PowerLoss /\ s \in Legacy]_vars

\* Every accepted write is answered, whatever the writes before it came to and
\* whoever closes the domain or its backend (under FairSpec).
WritesSettle ==
  \A i \in 1..MaxWrites :
    (i \in DOMAIN request /\ request[i].outcome = "queued")
      ~> (i \in DOMAIN request /\ request[i].outcome # "queued")

\* close ends: it waits for a chain that can only become shorter (FairSpec).
CloseEnds == stage = "closing" ~> stage = "free"
-----------------------------------------------------------------------------
(* A claim of the comments that the code does not keep                       *)

\* per-record-unit.ts:9: a failed write leaves both the file and memory
\* unchanged, so no document carries a rejected write.
RejectedLeavesNoTrace ==
  \A i \in DOMAIN request : request[i].outcome = "failed" =>
    \A s \in Slots : file[s] \notin {Absent, Foreign, Invalid} => i \notin file[s]
=============================================================================
