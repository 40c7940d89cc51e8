--------------------------------- MODULE Cas ---------------------------------
(***************************************************************************)
(* The content-addressed store of one node and the maintenance that works  *)
(* on it beside each other: compaction (Store.Ingest swaps a payload file  *)
(* for a hard link to its blob), the reachability collector (GCProtected), *)
(* the scrubber with its local erasure repair (Scrubber.Run,               *)
(* LocalErasureRepair), the erasure encoder (EncodeFile, ProtectPaths,     *)
(* protectErasure) and the cold tier (CopyTier).  They are commands, jobs  *)
(* and console operations of several processes, and nothing locks the      *)
(* store: only the steps inside one file system call are atomic.           *)
(*                                                                         *)
(* A file is an inode, a name is a link to it.  The content of an inode is *)
(* an object and whether it still is that object; its SHA-256 is the       *)
(* object, and no known digest when the bytes are damaged.                 *)
(***************************************************************************)
EXTENDS Naturals, FiniteSets

CONSTANTS
  Paths,         \* payload files of the backup tree
  Objects,       \* what payload files may hold; an object is its own digest
  Ingesters,     \* compactions that may overlap
  Inodes,        \* bound: files alive at once
  DataShards,    \* storage.erasure.data_shards
  ParityShards,  \* storage.erasure.parity_shards
  SampleObjects, \* storage.scrub.sample_objects
  Beside,        \* compaction may run while a backup writes payloads
  MaxWrites,     \* bound: payload downloads
  MaxFaults,     \* bound: files that rot, processes killed, copies that fail
  None           \* no file, no digest, no erasure set

ASSUME CasAssumption ==
  /\ Inodes \subseteq Nat
  /\ DataShards \in Nat /\ DataShards >= 2
  /\ ParityShards \in Nat \ {0}
  /\ SampleObjects \in Nat \ {0}
  /\ Beside \in BOOLEAN
  /\ {MaxWrites, MaxFaults} \subseteq Nat
  /\ None \notin Inodes \cup Objects

VARIABLES
  content,   \* what each inode holds
  file,      \* payload path -> inode
  wrote,     \* payload path -> object its checksum sidecar records
  blob,      \* sha256/<digest> -> inode
  leftover,  \* a temporary file of a killed process lies in the store
  spoilt,    \* history: a file was left as a repair had it truncated
  set,       \* the erasure directory of each object
  cold,      \* the cold-tier copy of each object
  ingest,    \* the compactions under way
  gc,        \* the collector
  scrub,     \* the scrubber
  budget     \* writes, rots and other faults used up

vars == <<content, file, wrote, blob, leftover, spoilt, set, cold, ingest, gc, scrub, budget>>

-----------------------------------------------------------------------------
(* Files and digests                                                       *)

Content == [obj : Objects, state : {"ok", "rotten", "torn"}]
Is(o) == [obj |-> o, state |-> "ok"]

\* HashFile of an inode with this content.
Digest(c) == IF c.state = "ok" THEN c.obj ELSE None

\* os.Stat tells files apart by length only: rot keeps it, a torn write does not.
SameSize(c, d) == c.obj = d.obj /\ "torn" \notin {c.state, d.state}

NoIngest == [step |-> "idle", path |-> None, digest |-> None, tmp |-> None]
IngestAt(s, p, d, i) == [step |-> s, path |-> p, digest |-> d, tmp |-> i]

Total == DataShards + ParityShards

\* An erasure directory: what its manifest was made of, and the shards that
\* verify.
ErasureSet == [of : Content, valid : 0 .. Total]

ASSUME NoneIsNoSet == None \notin ErasureSet

CasTypeOK ==
  /\ content \in [Inodes -> Content \cup {None}]
  /\ file \in [Paths -> Inodes \cup {None}]
  /\ wrote \in [Paths -> Objects \cup {None}]
  /\ blob \in [Objects -> Inodes \cup {None}]
  /\ {leftover, spoilt} \subseteq BOOLEAN
  /\ set \in [Objects -> ErasureSet \cup {None}]
  /\ cold \in [Objects -> Content \cup {None}]
  /\ ingest \in [Ingesters -> [step : {"idle", "hashed", "copied", "swap"},
                               path : Paths \cup {None}, digest : Objects \cup {None},
                               tmp : Inodes \cup {None}]]
  /\ gc \in [on : BOOLEAN, todo : SUBSET Paths, reachable : SUBSET Objects]
  /\ scrub \in [step : {"idle", "check", "rebuild", "open", "write"}, todo : SUBSET Objects,
                digest : Objects \cup {None}, inode : Inodes \cup {None}]
  /\ budget \in [writes : 0 .. MaxWrites, rots : 0 .. MaxFaults, faults : 0 .. MaxFaults]

CasInit ==
  /\ content = [i \in Inodes |-> None]
  /\ file = [p \in Paths |-> None]
  /\ wrote = [p \in Paths |-> None]
  /\ blob = [o \in Objects |-> None]
  /\ leftover = FALSE
  /\ spoilt = FALSE
  /\ set = [o \in Objects |-> None]
  /\ cold = [o \in Objects |-> None]
  /\ ingest = [a \in Ingesters |-> NoIngest]
  /\ gc = [on |-> FALSE, todo |-> {}, reachable |-> {}]
  /\ scrub = [step |-> "idle", todo |-> {}, digest |-> None, inode |-> None]
  /\ budget = [writes |-> 0, rots |-> 0, faults |-> 0]

\* Inodes with a name or an open descriptor.
Alive == ({file[p] : p \in Paths} \cup {blob[o] : o \in Objects}
          \cup {ingest[a].tmp : a \in Ingesters} \cup {scrub.inode}) \ {None}

\* A new file; which free number it gets does not matter.
NewInode == CHOOSE i \in Inodes \ Alive : \A j \in Inodes \ Alive : i <= j
CanCreate == Inodes \ Alive # {}

\* What an action leaves on disk: a file without a name or descriptor is gone.
Data(c) == content' = [i \in Inodes |-> IF i \in Alive' THEN c[i] ELSE None]

\* A walk of the store meets a name that is not a digest and gives up.
Littered ==
  leftover \/ scrub.step \in {"open", "write"} \/ \E a \in Ingesters : ingest[a].step = "copied"

-----------------------------------------------------------------------------
(* The backup writes payloads: a temporary file renamed over the path.     *)

WritePayload(p, o) ==
  /\ budget.writes < MaxWrites
  /\ Beside \/ \A a \in Ingesters : ingest[a] = NoIngest
  /\ CanCreate
  /\ file' = [file EXCEPT ![p] = NewInode]
  /\ wrote' = [wrote EXCEPT ![p] = o]
  /\ budget' = [budget EXCEPT !.writes = @ + 1]
  /\ UNCHANGED <<blob, leftover, spoilt, set, cold, ingest, gc, scrub>>
  /\ Data([content EXCEPT ![NewInode] = Is(o)])

\* Retention removes a payload with its sidecar.
RemovePayload(p) ==
  /\ file[p] # None
  /\ Beside \/ \A a \in Ingesters : ingest[a] = NoIngest
  /\ file' = [file EXCEPT ![p] = None]
  /\ wrote' = [wrote EXCEPT ![p] = None]
  /\ UNCHANGED <<blob, leftover, spoilt, set, cold, ingest, gc, scrub, budget>>
  /\ Data(content)

-----------------------------------------------------------------------------
(* Compact: Ingest of one payload file after another                       *)

IngestHash(a, p) ==
  /\ ingest[a].step = "idle"
  /\ file[p] # None
  /\ ingest' = [ingest EXCEPT ![a] = IngestAt("hashed", p, Digest(content[file[p]]), None)]
  /\ UNCHANGED <<content, file, wrote, blob, leftover, spoilt, set, cold, gc, scrub, budget>>

\* os.Stat of the blob finds it with the right size, or with another.
IngestFound(a) ==
  LET d == ingest[a].digest IN
  /\ ingest[a].step = "hashed"
  /\ d # None
  /\ blob[d] # None
  /\ ingest' = [ingest EXCEPT ![a] = IF SameSize(content[blob[d]], Is(d))
                                       THEN [@ EXCEPT !.step = "swap"] ELSE NoIngest]
  /\ UNCHANGED <<content, file, wrote, blob, leftover, spoilt, set, cold, gc, scrub, budget>>

\* There is no such blob: the file is opened again and copied to a temporary
\* file of the store.  Damaged bytes have a blob of their own, which nothing
\* else has; those of a file that a repair has truncated are kept that way.
IngestCopy(a) ==
  LET p == ingest[a].path
      d == ingest[a].digest
  IN
  /\ ingest[a].step = "hashed"
  /\ (d # None => blob[d] = None)
  /\ IF file[p] = None
       THEN /\ ingest' = [ingest EXCEPT ![a] = NoIngest]
            /\ UNCHANGED <<content, spoilt>>
       ELSE /\ CanCreate
            /\ content' = [content EXCEPT ![NewInode] = content[file[p]]]
            /\ ingest' = [ingest EXCEPT ![a] = [@ EXCEPT !.step = "copied", !.tmp = NewInode]]
            /\ spoilt' = (spoilt \/ content[file[p]].state = "torn")
  /\ UNCHANGED <<file, wrote, blob, leftover, set, cold, gc, scrub, budget>>

\* The temporary file becomes the blob.  A blob of damaged bytes keeps its
\* inode here: only the path that had those bytes will link to it.
IngestRename(a) ==
  LET d == ingest[a].digest IN
  /\ ingest[a].step = "copied"
  /\ IF d = None
       THEN /\ ingest' = [ingest EXCEPT ![a] = [@ EXCEPT !.step = "swap"]]
            /\ UNCHANGED blob
       ELSE /\ ingest' = [ingest EXCEPT ![a] = [@ EXCEPT !.step = "swap", !.tmp = None]]
            /\ blob' = [blob EXCEPT ![d] = ingest[a].tmp]
  /\ UNCHANGED <<file, wrote, leftover, spoilt, set, cold, gc, scrub, budget>>
  /\ Data(content)

\* The blob an ingest links its path to, None when it is gone.
Linked(a) == IF ingest[a].digest = None THEN ingest[a].tmp ELSE blob[ingest[a].digest]

\* Mutant: the path is replaced whether or not the link was made.
IngestSwapBlindly(a) ==
  /\ ingest[a].step = "swap"
  /\ file' = [file EXCEPT ![ingest[a].path] = Linked(a)]
  /\ ingest' = [ingest EXCEPT ![a] = NoIngest]
  /\ UNCHANGED <<wrote, blob, leftover, spoilt, set, cold, gc, scrub, budget>>
  /\ Data(content)

\* os.Link(blob, swap) and os.Rename(swap, path); without a link the path
\* keeps its file.
IngestSwap(a) ==
  /\ ingest[a].step = "swap"
  /\ file' = IF Linked(a) = None THEN file
             ELSE [file EXCEPT ![ingest[a].path] = Linked(a)]
  /\ ingest' = [ingest EXCEPT ![a] = NoIngest]
  /\ UNCHANGED <<wrote, blob, leftover, spoilt, set, cold, gc, scrub, budget>>
  /\ Data(content)

-----------------------------------------------------------------------------
(* GCProtected: hash every payload, then remove what none of them is       *)

GCStart ==
  /\ ~gc.on
  /\ gc' = [on |-> TRUE, todo |-> {p \in Paths : file[p] # None}, reachable |-> {}]
  /\ UNCHANGED <<content, file, wrote, blob, leftover, spoilt, set, cold, ingest, scrub, budget>>

\* WalkDir meets the payloads in one order.
GCScan(p) ==
  /\ gc.todo # {}
  /\ p = CHOOSE q \in gc.todo : TRUE
  /\ gc' = [gc EXCEPT !.todo = @ \ {p},
                      !.reachable = @ \cup (IF file[p] = None THEN {}
                                            ELSE {Digest(content[file[p]])} \ {None})]
  /\ UNCHANGED <<content, file, wrote, blob, leftover, spoilt, set, cold, ingest, scrub, budget>>

GCRemove(o) ==
  /\ gc.on /\ gc.todo = {}
  /\ blob[o] # None
  /\ o \notin gc.reachable
  /\ blob' = [blob EXCEPT ![o] = None]
  /\ UNCHANGED <<file, wrote, leftover, spoilt, set, cold, ingest, gc, scrub, budget>>
  /\ Data(content)

\* The walk is over, or it met a name that is not a digest.
GCEnd ==
  /\ gc.on /\ gc.todo = {}
  /\ Littered \/ \A o \in Objects : blob[o] = None \/ o \in gc.reachable
  /\ gc' = [on |-> FALSE, todo |-> {}, reachable |-> {}]
  /\ UNCHANGED <<content, file, wrote, blob, leftover, spoilt, set, cold, ingest, scrub, budget>>

-----------------------------------------------------------------------------
(* Scrubber.Run and LocalErasureRepair                                     *)

Scrub(s, T, d, i) == [step |-> s, todo |-> T, digest |-> d, inode |-> i]

\* ListObjects, and the sample of the day: SampleObjects of them.
ScrubStart ==
  /\ scrub.step = "idle"
  /\ ~Littered
  /\ \E T \in SUBSET {o \in Objects : blob[o] # None} :
       /\ T # {}
       /\ \/ T = {o \in Objects : blob[o] # None} /\ Cardinality(T) <= SampleObjects
          \/ Cardinality(T) = SampleObjects
       /\ scrub' = Scrub("check", T, None, None)
  /\ UNCHANGED <<content, file, wrote, blob, leftover, spoilt, set, cold, ingest, gc, budget>>

GoOn(T) == Scrub(IF T = {} THEN "idle" ELSE "check", T, None, None)

\* Mutant: damage is looked for in the length.
DamagedBySize(o) == blob[o] = None \/ ~SameSize(content[blob[o]], Is(o))

\* HashFile of the sampled name: the bytes are wrong, or the blob is gone.
Damaged(o) == blob[o] = None \/ Digest(content[blob[o]]) # o

ScrubCheck(o) ==
  LET rest == scrub.todo \ {o} IN
  /\ scrub.step = "check"
  /\ o \in scrub.todo
  /\ scrub' = IF Damaged(o) THEN Scrub("rebuild", rest, o, None) ELSE GoOn(rest)
  /\ UNCHANGED <<content, file, wrote, blob, leftover, spoilt, set, cold, ingest, gc, budget>>

\* Reconstruct makes the object the manifest was made of, from DataShards
\* shards that verify.  Mutant: it is not compared with the digest.
RebuildsUnchecked(o) == set[o] # None /\ set[o].valid >= DataShards

Rebuilds(o) == set[o] # None /\ set[o].valid >= DataShards /\ Digest(set[o].of) = o

\* The rebuilt copy, a temporary file of the store, is verified.
ScrubRebuild ==
  /\ scrub.step = "rebuild"
  /\ scrub' = IF Rebuilds(scrub.digest) THEN [scrub EXCEPT !.step = "open"] ELSE GoOn(scrub.todo)
  /\ UNCHANGED <<content, file, wrote, blob, leftover, spoilt, set, cold, ingest, gc, budget>>

\* The name is opened with O_TRUNC, without O_CREATE, and without a look at
\* the file it has by now.
ScrubOpen ==
  LET i == blob[scrub.digest] IN
  /\ scrub.step = "open"
  /\ IF i = None
       THEN /\ scrub' = GoOn(scrub.todo)
            /\ UNCHANGED content
       ELSE /\ scrub' = [scrub EXCEPT !.step = "write", !.inode = i]
            /\ content' = [content EXCEPT ![i].state = "torn"]
  /\ UNCHANGED <<file, wrote, blob, leftover, spoilt, set, cold, ingest, gc, budget>>

\* The copy into the truncated inode, through its open descriptor.
ScrubWrite ==
  /\ scrub.step = "write"
  /\ scrub' = GoOn(scrub.todo)
  /\ UNCHANGED <<file, wrote, blob, leftover, spoilt, set, cold, ingest, gc, budget>>
  /\ Data([content EXCEPT ![scrub.inode] = set[scrub.digest].of])

\* The copy fails, as on a full disk, and the next object has its turn.
ScrubWriteFails ==
  /\ scrub.step = "write"
  /\ budget.rots + budget.faults < MaxFaults
  /\ scrub' = GoOn(scrub.todo)
  /\ spoilt' = TRUE
  /\ budget' = [budget EXCEPT !.faults = @ + 1]
  /\ UNCHANGED <<file, wrote, blob, leftover, set, cold, ingest, gc>>
  /\ Data(content)

-----------------------------------------------------------------------------
(* Erasure sets and the cold tier                                          *)

\* EncodeFile of a blob, staged and renamed.  An existing directory is kept;
\* the manifest names the bytes that were there, whatever the blob is called.
Protect(o) ==
  /\ ~Littered
  /\ blob[o] # None
  /\ set[o] = None
  /\ set' = [set EXCEPT ![o] = [of |-> content[blob[o]], valid |-> Total]]
  /\ UNCHANGED <<content, file, wrote, blob, leftover, spoilt, cold, ingest, gc, scrub, budget>>

\* copyVerified: the temporary copy must hash to the digest.
Tier(o) ==
  /\ ~Littered
  /\ blob[o] # None
  /\ cold[o] = None
  /\ Digest(content[blob[o]]) = o
  /\ cold' = [cold EXCEPT ![o] = content[blob[o]]]
  /\ UNCHANGED <<content, file, wrote, blob, leftover, spoilt, set, ingest, gc, scrub, budget>>

-----------------------------------------------------------------------------
(* Faults                                                                  *)

Rot(i) ==
  /\ i \in Alive
  /\ content[i].state = "ok"
  /\ budget.rots + budget.faults < MaxFaults
  /\ content' = [content EXCEPT ![i].state = "rotten"]
  /\ budget' = [budget EXCEPT !.rots = @ + 1]
  /\ UNCHANGED <<file, wrote, blob, leftover, spoilt, set, cold, ingest, gc, scrub>>

RotShard(o) ==
  /\ set[o] # None
  /\ set[o].valid > 0
  /\ budget.rots + budget.faults < MaxFaults
  /\ set' = [set EXCEPT ![o].valid = @ - 1]
  /\ budget' = [budget EXCEPT !.rots = @ + 1]
  /\ UNCHANGED <<content, file, wrote, blob, leftover, spoilt, cold, ingest, gc, scrub>>

\* A killed process runs no deferred os.Remove: its temporary file stays.  At
\* any other step there is none, and nothing is lost.
KillIngest(a) ==
  /\ ingest[a].step = "copied"
  /\ budget.rots + budget.faults < MaxFaults
  /\ leftover' = TRUE
  /\ ingest' = [ingest EXCEPT ![a] = NoIngest]
  /\ budget' = [budget EXCEPT !.faults = @ + 1]
  /\ UNCHANGED <<file, wrote, blob, spoilt, set, cold, gc, scrub>>
  /\ Data(content)

KillScrub ==
  /\ scrub.step \in {"open", "write"}
  /\ budget.rots + budget.faults < MaxFaults
  /\ leftover' = TRUE
  /\ spoilt' = (spoilt \/ scrub.step = "write")
  /\ scrub' = Scrub("idle", {}, None, None)
  /\ budget' = [budget EXCEPT !.faults = @ + 1]
  /\ UNCHANGED <<file, wrote, blob, set, cold, ingest, gc>>
  /\ Data(content)

CasNext ==
  \/ \E p \in Paths, o \in Objects : WritePayload(p, o)
  \/ \E p \in Paths : RemovePayload(p) \/ GCScan(p)
  \/ \E a \in Ingesters, p \in Paths : IngestHash(a, p)
  \/ \E a \in Ingesters : \/ IngestFound(a) \/ IngestCopy(a) \/ IngestRename(a)
                          \/ IngestSwap(a) \/ KillIngest(a)
  \/ GCStart \/ GCEnd
  \/ ScrubStart \/ ScrubRebuild \/ ScrubOpen \/ ScrubWrite \/ ScrubWriteFails \/ KillScrub
  \/ \E o \in Objects : GCRemove(o) \/ ScrubCheck(o) \/ Protect(o) \/ Tier(o) \/ RotShard(o)
  \/ \E i \in Inodes : Rot(i)

\* A compaction that runs goes on.  The maintenance reconciler queues a scrub
\* job every interval, whatever became of the last one; a compaction at work
\* only delays it.
CasFairness ==
  /\ \A a \in Ingesters :
       WF_vars(IngestFound(a) \/ IngestCopy(a) \/ IngestRename(a) \/ IngestSwap(a))
  /\ SF_vars(ScrubStart)
  /\ WF_vars(\E o \in Objects : ScrubCheck(o))
  /\ WF_vars(ScrubRebuild)
  /\ WF_vars(ScrubOpen)
  /\ WF_vars(ScrubWrite \/ ScrubWriteFails)

CasSpec == CasInit /\ [][CasNext]_vars /\ CasFairness

-----------------------------------------------------------------------------
(* Properties                                                              *)

\* A file whose bytes are not in order before anything rots: the one a repair
\* is rewriting at this moment, or one that was left as a repair had it, by a
\* kill, a failed copy or a compaction that copied it in between (spoilt).
Rewritten(i) == scrub.step = "write" /\ scrub.inode = i

\* As long as no file rots, every payload is there and reads as its sidecar
\* says, and every blob is the object it is named after, through every overlap
\* of ingest, collector, repair and kill, but for the file a repair has open:
\* in particular a blob the collector takes away between the os.Stat and the
\* os.Link of Ingest costs no payload.  Cold copies are true even afterwards
\* (copyVerified).
DeliversUntilRot ==
  /\ budget.rots = 0 /\ ~spoilt =>
       /\ \A p \in Paths : wrote[p] # None =>
            /\ file[p] # None
            /\ content[file[p]] = Is(wrote[p]) \/ Rewritten(file[p])
       /\ \A o \in Objects : blob[o] # None =>
            content[blob[o]] = Is(o) \/ Rewritten(blob[o])
  /\ \A o \in Objects : cold[o] \in {None, Is(o)}

\* What the maintenance does to a file that others may be linked to, it does
\* with the object in hand.  The file changes by rot, by a repair that has
\* rebuilt the very object it is of before it truncates, or by that repair's
\* copy, which makes it the object it is of.
RepairsHoldTheObject ==
  [][\A i \in Alive : i \in Alive' /\ content'[i] # content[i] =>
       LET o == content[i].obj IN
       \/ budget'.rots > budget.rots
       \/ scrub'.inode = i /\ scrub'.digest = o /\ set[o] # None /\ set[o].of = Is(o)
       \/ scrub.inode = i /\ content'[i] = Is(o)]_vars

\* "reconstructs a corrupted CAS object": a repair truncates no file that is in
\* order (repair.go:15).  False: the name may have another file since the hash
\* check, so that the repair of a blob that was collected truncates the one a
\* compaction has just made and linked to a payload.
RepairsOnlyDamaged ==
  [][\A i \in Alive : i \in Alive' /\ content[i].state = "ok" /\ budget'.rots = budget.rots
                     => content'[i] = content[i]]_vars

\* Scrubbing heals: a damaged blob with a sound erasure set is whole again,
\* unless the collector took it, its shards rotted too, or a killed process
\* left a temporary file in the store, which stops every later scrub.
RotHealed ==
  \A o \in Objects :
    LET wrong == blob[o] # None /\ content[blob[o]] # Is(o) IN
    (wrong /\ Rebuilds(o)) ~> (~wrong \/ ~Rebuilds(o) \/ leftover)

\* Store.Ingest replaces the original "when safe": the path reads after the
\* swap what it read before.
CompactionKeepsPayload ==
  [][\A p \in Paths : file[p] # None /\ file'[p] # None /\ budget' = budget
                        /\ content[file[p]].state = "ok"
       => content'[file'[p]] = content[file[p]]]_vars

-----------------------------------------------------------------------------
(* The inductive invariant behind the safety properties, for a store that  *)
(* no backup writes to during a compaction                                 *)

\* What has a name or a descriptor has bytes.
AliveHasContent == \A i \in Alive : content[i] \in Content

\* Damaged or not, a file is of the object that its name promises.
NamesAreTrue ==
  /\ \A p \in Paths : /\ file[p] # None <=> wrote[p] # None
                      /\ file[p] # None => content[file[p]].obj = wrote[p]
  /\ \A o \in Objects : blob[o] # None => content[blob[o]].obj = o

\* A compaction has read the digest of the payload its path has all along, or
\* that it is damaged, and what it holds in its temporary file is of that
\* payload.
IngestIsTrue(a) ==
  ingest[a].step # "idle" =>
    /\ ingest[a].path \in Paths
    /\ file[ingest[a].path] # None
    /\ ingest[a].digest \in {None, wrote[ingest[a].path]}
    /\ ingest[a].step = "copied" \/ (ingest[a].step = "swap" /\ ingest[a].digest = None)
         => ingest[a].tmp # None /\ content[ingest[a].tmp].obj = wrote[ingest[a].path]

\* A repair has rebuilt the object before it opens the file, and writes it into
\* the file it has truncated.
ScrubIsTrue ==
  /\ scrub.step \in {"open", "write"} =>
       /\ scrub.digest \in Objects
       /\ set[scrub.digest] # None
       /\ set[scrub.digest].of = Is(scrub.digest)
  /\ scrub.step = "rebuild" => scrub.digest \in Objects
  /\ scrub.step = "write" =>
       /\ scrub.inode # None
       /\ content[scrub.inode] = [obj |-> scrub.digest, state |-> "torn"]
  /\ scrub.step # "write" => scrub.inode = None

ColdIsTrue == \A o \in Objects : cold[o] \in {None, Is(o)}

WholeUntilRot ==
  budget.rots = 0 /\ ~spoilt => \A i \in Alive : content[i].state = "ok" \/ Rewritten(i)

CasInv ==
  /\ CasTypeOK
  /\ AliveHasContent
  /\ NamesAreTrue
  /\ \A a \in Ingesters : IngestIsTrue(a)
  /\ ScrubIsTrue
  /\ ColdIsTrue
  /\ WholeUntilRot

=============================================================================
