------------------------------ MODULE CasProofs ------------------------------
(***************************************************************************)
(* Proofs about the content-addressed store of Cas, for any number of      *)
(* payloads, objects, overlapping compactions, files, rots and kills, as   *)
(* long as no backup writes payloads during a compaction: until a file     *)
(* rots, payloads and blobs are what their names say, but for the file a   *)
(* repair has open or left so, and a repair writes to a file only what the *)
(* file is of.                                                             *)
(***************************************************************************)
EXTENDS Cas, WellFoundedInduction, NaturalsInduction, TLAPS

-----------------------------------------------------------------------------
(* Files                                                                   *)

\* Names and descriptors are of files.
LEMMA AliveIsFile == /\ CasTypeOK => Alive \subseteq Inodes
                     /\ CasTypeOK' => Alive' \subseteq Inodes
  BY DEF CasTypeOK, Alive

\* What is named or open is alive.
LEMMA NamedIsAlive ==
  /\ \A p \in Paths : file[p] # None => file[p] \in Alive
  /\ \A o \in Objects : blob[o] # None => blob[o] \in Alive
  /\ \A a \in Ingesters : ingest[a].tmp # None => ingest[a].tmp \in Alive
  /\ scrub.inode # None => scrub.inode \in Alive
  BY DEF Alive

\* Only those are.
LEMMA AliveIsNamed ==
  \A i \in Alive : /\ i # None
                   /\ \/ \E p \in Paths : i = file[p]
                      \/ \E o \in Objects : i = blob[o]
                      \/ \E a \in Ingesters : i = ingest[a].tmp
                      \/ i = scrub.inode
  BY DEF Alive

\* A new file is none that anybody has.
LEMMA NewIsFree ==
  ASSUME CanCreate
  PROVE  NewInode \in Inodes \ Alive
  <1> DEFINE T == Inodes \ Alive
             R == OpToRel(<, Nat)
  <1>1. T \in SUBSET Nat /\ T # {}
    BY CasAssumption DEF CanCreate
  <1>2. IsWellFoundedOn(R, Nat)
    BY NatLessThanWellFounded
  <1>3. \A x, y \in Nat : x < y => <<x, y>> \in R
    BY DEF OpToRel
  <1> HIDE DEF R, T
  <1>4. PICK x \in T : \A y \in T : <<y, x>> \notin R
    BY <1>1, <1>2, WFMin
  <1>5. ASSUME NEW y \in T PROVE x <= y
    <2>1. x \in Nat /\ y \in Nat /\ ~(y < x)
      BY <1>1, <1>3, <1>4
    <2> QED
      BY <2>1
  <1>6. \E i \in T : \A j \in T : i <= j
    BY <1>5
  <1> QED
    BY <1>6 DEF NewInode, T

\* What is left on disk.
LEMMA DataOf ==
  ASSUME NEW c \in [Inodes -> Content \cup {None}], Data(c)
  PROVE  /\ content' \in [Inodes -> Content \cup {None}]
         /\ \A i \in Inodes : i \in Alive' => content'[i] = c[i]
  BY DEF Data

\* Contents compare by object and state.
LEMMA ContentFacts ==
  /\ \A o \in Objects : Is(o) \in Content /\ Is(o).obj = o /\ Is(o).state = "ok"
  /\ \A c \in Content : /\ c.obj \in Objects
                        /\ c.state = "ok" => c = Is(c.obj)
                        /\ c.state = "ok" => Digest(c) = c.obj
                        /\ Digest(c) \in {None, c.obj}
                        /\ Digest(c) # None => c = Is(c.obj)
  <1>1. \A o \in Objects : Is(o) \in Content /\ Is(o).obj = o /\ Is(o).state = "ok"
    BY DEF Is, Content
  <1>2. ASSUME NEW c \in Content
        PROVE  /\ c.obj \in Objects
               /\ c.state = "ok" => c = Is(c.obj)
    BY DEF Is, Content
  <1> QED
    BY <1>1, <1>2, CasAssumption DEF Digest

-----------------------------------------------------------------------------
(* What a step leaves alone                                                *)

\* No file that stays has other bytes, or is of another object.
Same == \A i \in Alive : i \in Alive' => content'[i] = content[i]
SameObjects == \A i \in Alive : i \in Alive' => content'[i].obj = content[i].obj

\* Without new files and new bytes the files stay as good as they were, as
\* long as a repair under way goes on.
LEMMA FilesKept ==
  ASSUME CasInv, Alive' \subseteq Alive, Same, budget'.rots = budget.rots, spoilt => spoilt',
         scrub' = scrub \/ spoilt' \/ scrub.step # "write"
  PROVE  AliveHasContent' /\ WholeUntilRot'
  <1>1. AliveHasContent'
    BY DEF CasInv, AliveHasContent, Same
  <1>2. ASSUME budget'.rots = 0, ~spoilt', NEW i \in Alive'
        PROVE  content'[i].state = "ok" \/ Rewritten(i)'
    <2>1. content'[i] = content[i] /\ (content[i].state = "ok" \/ Rewritten(i))
      BY <1>2 DEF CasInv, WholeUntilRot, Same
    <2> QED
      BY <1>2, <2>1 DEF Rewritten
  <1> QED
    BY <1>1, <1>2 DEF WholeUntilRot

\* With a new file of good bytes, too.
LEMMA FilesAdded ==
  ASSUME CasInv, NEW n, Alive' \subseteq Alive \cup {n}, n \notin Alive, Same,
         budget'.rots = budget.rots, content'[n] \in Content, spoilt => spoilt', scrub' = scrub,
         budget.rots = 0 /\ ~spoilt' => content'[n].state = "ok"
  PROVE  AliveHasContent' /\ WholeUntilRot'
  <1>1. AliveHasContent'
    BY DEF CasInv, AliveHasContent, Same
  <1>2. ASSUME budget'.rots = 0, ~spoilt', NEW i \in Alive'
        PROVE  content'[i].state = "ok" \/ Rewritten(i)'
    <2>1. i # n => content'[i] = content[i] /\ (content[i].state = "ok" \/ Rewritten(i))
      BY <1>2 DEF CasInv, WholeUntilRot, Same
    <2> QED
      BY <1>2, <2>1 DEF Rewritten
  <1> QED
    BY <1>1, <1>2 DEF WholeUntilRot

LEMMA NamesKept ==
  ASSUME CasInv, UNCHANGED <<file, wrote, blob>>, SameObjects
  PROVE  NamesAreTrue'
  <1>1. \A p \in Paths : file[p] # None => file[p] \in Alive /\ file[p] \in Alive'
    BY NamedIsAlive DEF Alive
  <1>2. \A o \in Objects : blob[o] # None => blob[o] \in Alive /\ blob[o] \in Alive'
    BY NamedIsAlive DEF Alive
  <1> QED
    BY <1>1, <1>2 DEF CasInv, NamesAreTrue, SameObjects

LEMMA IngestKept ==
  ASSUME CasInv, NEW a \in Ingesters, ingest'[a] = ingest[a], wrote' = wrote, SameObjects,
         \A p \in Paths : file[p] # None => file'[p] # None
  PROVE  IngestIsTrue(a)'
  <1>1. ingest[a].tmp # None => ingest[a].tmp \in Alive /\ ingest[a].tmp \in Alive'
    BY NamedIsAlive DEF Alive
  <1> QED
    BY <1>1 DEF CasInv, IngestIsTrue, SameObjects

LEMMA ScrubKept ==
  ASSUME CasInv, scrub' = scrub, Same,
         \A o \in Objects : set[o] # None => set'[o] # None /\ set'[o].of = set[o].of
  PROVE  ScrubIsTrue'
  <1>1. scrub.inode # None => scrub.inode \in Alive /\ scrub.inode \in Alive'
    BY NamedIsAlive DEF Alive
  <1> QED
    BY <1>1 DEF CasInv, ScrubIsTrue, Same

\* The compactions but one.
LEMMA IngestOthers ==
  ASSUME CasInv, NEW a \in Ingesters, NEW s, ingest' = [ingest EXCEPT ![a] = s],
         wrote' = wrote, SameObjects, \A p \in Paths : file[p] # None => file'[p] # None,
         IngestIsTrue(a)'
  PROVE  \A b \in Ingesters : IngestIsTrue(b)'
  <1>1. ASSUME NEW b \in Ingesters, b # a PROVE IngestIsTrue(b)'
    <2>1. ingest'[b] = ingest[b]
      BY <1>1 DEF CasInv, CasTypeOK
    <2> QED
      BY <2>1, IngestKept
  <1> QED
    BY <1>1

-----------------------------------------------------------------------------
(* Payloads come and go                                                    *)

LEMMA WriteKeeps ==
  ASSUME CasInv, ~Beside, NEW p \in Paths, NEW o \in Objects, WritePayload(p, o)
  PROVE  CasInv'
  <1> DEFINE n == NewInode
  <1>1. n \in Inodes /\ n \notin Alive /\ n # None
    BY NewIsFree, CasAssumption DEF WritePayload
  <1>2. /\ \A a \in Ingesters : ingest[a] = NoIngest
        /\ file' = [file EXCEPT ![p] = n] /\ wrote' = [wrote EXCEPT ![p] = o]
        /\ UNCHANGED <<blob, leftover, spoilt, set, cold, ingest, gc, scrub>>
        /\ Data([content EXCEPT ![n] = Is(o)])
        /\ budget' = [budget EXCEPT !.writes = @ + 1] /\ budget.writes < MaxWrites
    BY DEF WritePayload
  <1> HIDE DEF n
  <1>3. [content EXCEPT ![n] = Is(o)] \in [Inodes -> Content \cup {None}]
    BY ContentFacts DEF CasInv, CasTypeOK
  <1>4. /\ content' \in [Inodes -> Content \cup {None}]
        /\ \A i \in Inodes : i \in Alive' => content'[i] = [content EXCEPT ![n] = Is(o)][i]
    BY <1>2, <1>3, DataOf
  <1>5. budget' \in [writes : 0 .. MaxWrites, rots : 0 .. MaxFaults, faults : 0 .. MaxFaults]
        /\ budget'.rots = budget.rots
    BY <1>2, CasAssumption DEF CasInv, CasTypeOK
  <1>6. CasTypeOK'
    BY <1>1, <1>2, <1>4, <1>5 DEF CasInv, CasTypeOK
  <1>7. \A q \in Paths : file'[q] = (IF q = p THEN n ELSE file[q])
                          /\ wrote'[q] = (IF q = p THEN o ELSE wrote[q])
    BY <1>2 DEF CasInv, CasTypeOK
  <1>8. Alive' \subseteq Alive \cup {n} /\ n \in Alive'
    BY <1>1, <1>2, <1>7 DEF Alive
  <1>9. Same /\ content'[n] = Is(o)
    <2>1. \A i \in Alive' : i \in Inodes
      BY <1>6, AliveIsFile
    <2>2. \A i \in Inodes : [content EXCEPT ![n] = Is(o)][i] = IF i = n THEN Is(o) ELSE content[i]
      BY <1>1 DEF CasInv, CasTypeOK
    <2> QED
      BY <1>1, <1>4, <1>8, <2>1, <2>2 DEF Same
  <1>10. AliveHasContent' /\ WholeUntilRot'
    BY <1>1, <1>2, <1>5, <1>8, <1>9, FilesAdded, ContentFacts
  <1>11. NamesAreTrue'
    <2>1. ASSUME NEW q \in Paths
          PROVE  /\ file'[q] # None <=> wrote'[q] # None
                 /\ file'[q] # None => content'[file'[q]].obj = wrote'[q]
      <3>1. CASE q = p
        BY <1>1, <1>7, <1>9, <3>1, ContentFacts, CasAssumption
      <3>2. CASE q # p
        <4>1. file[q] # None => file[q] \in Alive /\ file[q] \in Alive'
          BY <1>7, <3>2, NamedIsAlive DEF Alive
        <4> QED
          BY <1>7, <1>9, <3>2, <4>1 DEF CasInv, NamesAreTrue, Same
      <3> QED
        BY <3>1, <3>2
    <2>2. ASSUME NEW q \in Objects, blob'[q] # None PROVE content'[blob'[q]].obj = q
      <3>1. blob[q] \in Alive /\ blob[q] \in Alive'
        BY <1>2, <2>2, NamedIsAlive DEF Alive
      <3> QED
        BY <1>2, <1>9, <2>2, <3>1 DEF CasInv, NamesAreTrue, Same
    <2> QED
      BY <2>1, <2>2 DEF NamesAreTrue
  <1>12. \A a \in Ingesters : IngestIsTrue(a)'
    BY <1>2 DEF IngestIsTrue, NoIngest
  <1>13. ScrubIsTrue'
    BY <1>2, <1>9, ScrubKept
  <1>14. ColdIsTrue'
    BY <1>2 DEF CasInv, ColdIsTrue
  <1> QED
    BY <1>6, <1>10, <1>11, <1>12, <1>13, <1>14 DEF CasInv

\* Steps that only take names away: the bytes that are left are the same.
LEMMA DataKept ==
  ASSUME CasInv, Data(content),
         \A p \in Paths : file'[p] \in Alive \cup {None},
         \A o \in Objects : blob'[o] \in Alive \cup {None},
         \A a \in Ingesters : ingest'[a].tmp \in Alive \cup {None},
         scrub'.inode \in Alive \cup {None}
  PROVE  /\ content' \in [Inodes -> Content \cup {None}]
         /\ Alive' \subseteq Alive
         /\ Same /\ SameObjects
  <1>1. Alive' \subseteq Alive
    BY DEF Alive
  <1>2. content \in [Inodes -> Content \cup {None}] /\ Alive \subseteq Inodes
    BY AliveIsFile DEF CasInv, CasTypeOK
  <1>3. /\ content' \in [Inodes -> Content \cup {None}]
        /\ \A i \in Inodes : i \in Alive' => content'[i] = content[i]
    BY <1>2, DataOf
  <1> QED
    BY <1>1, <1>2, <1>3 DEF Same, SameObjects

\* Where the names and descriptors of the store are.
LEMMA WhereNames ==
  ASSUME CasInv
  PROVE  /\ \A p \in Paths : file[p] \in Alive \cup {None}
         /\ \A o \in Objects : blob[o] \in Alive \cup {None}
         /\ \A a \in Ingesters : ingest[a].tmp \in Alive \cup {None}
         /\ scrub.inode \in Alive \cup {None}
  BY NamedIsAlive

LEMMA RemoveKeeps ==
  ASSUME CasInv, ~Beside, NEW p \in Paths, RemovePayload(p)
  PROVE  CasInv'
  <1>1. /\ \A a \in Ingesters : ingest[a] = NoIngest
        /\ file' = [file EXCEPT ![p] = None] /\ wrote' = [wrote EXCEPT ![p] = None]
        /\ UNCHANGED <<blob, leftover, spoilt, set, cold, ingest, gc, scrub, budget>>
        /\ Data(content)
    BY DEF RemovePayload
  <1>2. \A q \in Paths : file'[q] = (IF q = p THEN None ELSE file[q])
                          /\ wrote'[q] = (IF q = p THEN None ELSE wrote[q])
    BY <1>1 DEF CasInv, CasTypeOK
  <1>3. /\ content' \in [Inodes -> Content \cup {None}] /\ Alive' \subseteq Alive
        /\ Same /\ SameObjects
    BY <1>1, <1>2, DataKept, WhereNames
  <1>4. CasTypeOK'
    BY <1>1, <1>3 DEF CasInv, CasTypeOK
  <1>5. AliveHasContent' /\ WholeUntilRot'
    BY <1>1, <1>3, FilesKept
  <1>6. NamesAreTrue'
    <2>1. ASSUME NEW q \in Paths
          PROVE  /\ file'[q] # None <=> wrote'[q] # None
                 /\ file'[q] # None => content'[file'[q]].obj = wrote'[q]
      <3>1. q # p /\ file[q] # None => file[q] \in Alive /\ file[q] \in Alive'
        BY <1>2, NamedIsAlive DEF Alive
      <3> QED
        BY <1>2, <1>3, <3>1 DEF CasInv, NamesAreTrue, Same
    <2>2. ASSUME NEW q \in Objects, blob'[q] # None PROVE content'[blob'[q]].obj = q
      <3>1. blob[q] \in Alive /\ blob[q] \in Alive'
        BY <1>1, <2>2, NamedIsAlive DEF Alive
      <3> QED
        BY <1>1, <1>3, <2>2, <3>1 DEF CasInv, NamesAreTrue, Same
    <2> QED
      BY <2>1, <2>2 DEF NamesAreTrue
  <1>7. \A a \in Ingesters : IngestIsTrue(a)'
    BY <1>1 DEF IngestIsTrue, NoIngest
  <1>8. ScrubIsTrue'
    BY <1>1, <1>3, ScrubKept
  <1>9. ColdIsTrue'
    BY <1>1 DEF CasInv, ColdIsTrue
  <1> QED
    BY <1>4, <1>5, <1>6, <1>7, <1>8, <1>9 DEF CasInv

-----------------------------------------------------------------------------
(* Compaction                                                              *)

\* Steps that leave files and names alone.
LEMMA QuietFiles ==
  ASSUME CasInv, UNCHANGED <<content, file, wrote, blob>>,
         \A a \in Ingesters : ingest'[a].tmp \in Alive \cup {None},
         scrub'.inode \in Alive \cup {None}, spoilt => spoilt',
         scrub' = scrub \/ spoilt' \/ scrub.step # "write"
  PROVE  /\ Same /\ SameObjects /\ AliveHasContent' /\ NamesAreTrue'
         /\ budget'.rots = budget.rots => WholeUntilRot'
  <1>1. Alive' \subseteq Alive
    BY WhereNames DEF Alive
  <1>2. Same /\ SameObjects
    BY DEF Same, SameObjects
  <1>3. AliveHasContent'
    BY <1>1 DEF CasInv, AliveHasContent
  <1>4. budget'.rots = budget.rots => WholeUntilRot'
    BY <1>1, <1>2, FilesKept
  <1> QED
    BY <1>2, <1>3, <1>4, NamesKept

\* A compaction that moves on, everything else being the same.
LEMMA IngestMoves ==
  ASSUME CasInv, NEW a \in Ingesters, NEW s, ingest' = [ingest EXCEPT ![a] = s],
         UNCHANGED <<content, file, wrote, blob, leftover, spoilt, set, cold, gc, scrub, budget>>,
         s \in [step : {"idle", "hashed", "copied", "swap"}, path : Paths \cup {None},
                digest : Objects \cup {None}, tmp : Inodes \cup {None}],
         s.tmp \in Alive \cup {None},
         IngestIsTrue(a)'
  PROVE  CasInv'
  <1>1. \A b \in Ingesters : ingest'[b].tmp \in Alive \cup {None}
    BY WhereNames DEF CasInv, CasTypeOK
  <1>2. /\ Same /\ SameObjects /\ AliveHasContent' /\ NamesAreTrue'
        /\ WholeUntilRot'
    BY <1>1, QuietFiles, WhereNames
  <1>3. CasTypeOK'
    BY DEF CasInv, CasTypeOK
  <1>4. \A b \in Ingesters : IngestIsTrue(b)'
    BY <1>2, IngestOthers
  <1>5. ScrubIsTrue'
    BY <1>2, ScrubKept
  <1>6. ColdIsTrue'
    BY DEF CasInv, ColdIsTrue
  <1> QED
    BY <1>2, <1>3, <1>4, <1>5, <1>6 DEF CasInv

LEMMA HashKeeps ==
  ASSUME CasInv, NEW a \in Ingesters, NEW p \in Paths, IngestHash(a, p)
  PROVE  CasInv'
  <1> DEFINE d == Digest(content[file[p]])
             s == IngestAt("hashed", p, d, None)
  <1>1. content[file[p]] \in Content /\ content[file[p]].obj = wrote[p]
    BY NamedIsAlive DEF IngestHash, CasInv, AliveHasContent, NamesAreTrue
  <1>2. d \in {None, wrote[p]} /\ d \in Objects \cup {None}
    BY <1>1, ContentFacts
  <1>3. /\ ingest' = [ingest EXCEPT ![a] = s] /\ file[p] # None
        /\ UNCHANGED <<content, file, wrote, blob, leftover, spoilt, set, cold, gc, scrub, budget>>
    BY DEF IngestHash
  <1> HIDE DEF d
  <1>4. /\ s \in [step : {"idle", "hashed", "copied", "swap"}, path : Paths \cup {None},
                   digest : Objects \cup {None}, tmp : Inodes \cup {None}]
        /\ s.tmp = None /\ s.step = "hashed" /\ s.path = p /\ s.digest = d
    BY <1>2 DEF IngestAt
  <1> HIDE DEF s
  <1>5. IngestIsTrue(a)'
    <2>1. ingest'[a] = s
      BY <1>3 DEF CasInv, CasTypeOK
    <2> QED
      BY <1>2, <1>3, <1>4, <2>1 DEF IngestIsTrue
  <1> QED
    BY <1>3, <1>4, <1>5, IngestMoves

LEMMA FoundKeeps ==
  ASSUME CasInv, NEW a \in Ingesters, IngestFound(a)
  PROVE  CasInv'
  <1>1. ingest[a] \in [step : {"idle", "hashed", "copied", "swap"}, path : Paths \cup {None},
                       digest : Objects \cup {None}, tmp : Inodes \cup {None}]
    BY DEF CasInv, CasTypeOK
  <1>2. PICK s : /\ ingest' = [ingest EXCEPT ![a] = s]
                 /\ s = [ingest[a] EXCEPT !.step = "swap"] \/ s = NoIngest
    BY DEF IngestFound
  <1>3. /\ ingest[a].step = "hashed" /\ ingest[a].digest # None
        /\ UNCHANGED <<content, file, wrote, blob, leftover, spoilt, set, cold, gc, scrub, budget>>
    BY DEF IngestFound
  <1>4. ingest'[a] = s
    BY <1>2 DEF CasInv, CasTypeOK
  <1>5. CASE s = NoIngest
    <2>1. /\ s.tmp = None /\ s.step = "idle"
          /\ s \in [step : {"idle", "hashed", "copied", "swap"}, path : Paths \cup {None},
                    digest : Objects \cup {None}, tmp : Inodes \cup {None}]
      BY <1>5 DEF NoIngest
    <2>2. IngestIsTrue(a)'
      BY <1>4, <2>1 DEF IngestIsTrue
    <2> QED
      BY <1>2, <1>3, <2>1, <2>2, IngestMoves
  <1>6. CASE s = [ingest[a] EXCEPT !.step = "swap"]
    <2>1. /\ s.tmp = ingest[a].tmp /\ s.step = "swap" /\ s.path = ingest[a].path
          /\ s.digest = ingest[a].digest
          /\ s \in [step : {"idle", "hashed", "copied", "swap"}, path : Paths \cup {None},
                    digest : Objects \cup {None}, tmp : Inodes \cup {None}]
      BY <1>1, <1>6
    <2>2. IngestIsTrue(a)'
      BY <1>3, <1>4, <2>1 DEF CasInv, IngestIsTrue
    <2>3. s.tmp \in Alive \cup {None}
      BY <2>1, WhereNames
    <2> QED
      BY <1>2, <1>3, <2>1, <2>2, <2>3, IngestMoves
  <1> QED
    BY <1>2, <1>5, <1>6

\* Where a compaction is, as a record.
IngestState == [step : {"idle", "hashed", "copied", "swap"}, path : Paths \cup {None},
                digest : Objects \cup {None}, tmp : Inodes \cup {None}]

\* The idle compaction.
LEMMA NoIngestIsTrue ==
  /\ NoIngest \in IngestState /\ NoIngest.tmp = None
  /\ \A a \in Ingesters : ingest'[a] = NoIngest => IngestIsTrue(a)'
  BY DEF NoIngest, IngestState, IngestIsTrue

LEMMA CopyKeeps ==
  ASSUME CasInv, NEW a \in Ingesters, IngestCopy(a)
  PROVE  CasInv'
  <1> DEFINE p == ingest[a].path
             n == NewInode
  <1>1. /\ ingest[a].step = "hashed" /\ p \in Paths /\ file[p] # None
        /\ ingest[a].digest \in {None, wrote[p]} /\ ingest[a] \in IngestState
    BY DEF IngestCopy, CasInv, CasTypeOK, IngestIsTrue, IngestState
  <1>2. /\ CanCreate
        /\ content' = [content EXCEPT ![n] = content[file[p]]]
        /\ ingest' = [ingest EXCEPT ![a] = [ingest[a] EXCEPT !.step = "copied", !.tmp = n]]
        /\ spoilt' = (spoilt \/ content[file[p]].state = "torn")
        /\ UNCHANGED <<file, wrote, blob, leftover, set, cold, gc, scrub, budget>>
    BY <1>1 DEF IngestCopy
  <1>3. n \in Inodes /\ n \notin Alive /\ n # None
    BY <1>2, NewIsFree, CasAssumption
  <1>4. file[p] \in Alive /\ content[file[p]] \in Content /\ content[file[p]].obj = wrote[p]
    BY <1>1, NamedIsAlive DEF CasInv, AliveHasContent, NamesAreTrue
  <1> HIDE DEF n, p
  <1>5. PICK s : /\ ingest' = [ingest EXCEPT ![a] = s]
                 /\ s = [ingest[a] EXCEPT !.step = "copied", !.tmp = n]
    BY <1>2
  <1>6. s \in IngestState /\ s.step = "copied" /\ s.tmp = n /\ s.path = p
        /\ s.digest = ingest[a].digest
    BY <1>1, <1>3, <1>5 DEF IngestState, p
  <1>7. /\ content' \in [Inodes -> Content \cup {None}] /\ content'[n] = content[file[p]]
        /\ \A i \in Inodes : i # n => content'[i] = content[i]
    BY <1>2, <1>3, <1>4 DEF CasInv, CasTypeOK
  <1>8. CasTypeOK'
    <2>1. spoilt' \in BOOLEAN
      BY <1>2 DEF CasInv, CasTypeOK
    <2> QED
      BY <1>2, <1>5, <1>6, <1>7, <2>1 DEF CasInv, CasTypeOK, IngestState
  <1>9. \A b \in Ingesters : ingest'[b] = IF b = a THEN s ELSE ingest[b]
    BY <1>5 DEF CasInv, CasTypeOK
  <1>10. Alive' \subseteq Alive \cup {n}
    BY <1>2, <1>6, <1>9 DEF Alive
  <1>11. Same /\ SameObjects
    BY <1>3, <1>7, AliveIsFile DEF CasInv, Same, SameObjects
  <1>12. AliveHasContent' /\ WholeUntilRot'
    <2>0. Rewritten(file[p]) => content[file[p]].state = "torn"
      BY DEF CasInv, ScrubIsTrue, Rewritten
    <2>1. budget.rots = 0 /\ ~spoilt' => content'[n].state = "ok"
      BY <1>2, <1>4, <1>7, <2>0 DEF CasInv, WholeUntilRot
    <2> QED
      BY <1>2, <1>3, <1>4, <1>7, <1>10, <1>11, <2>1, FilesAdded
  <1>13. NamesAreTrue'
    BY <1>2, <1>11, NamesKept
  <1>14. IngestIsTrue(a)'
    <2>1. ingest'[a] = s
      BY <1>9
    <2>2. file'[p] # None /\ s.digest \in {None, wrote'[p]} /\ content'[n].obj = wrote'[p]
      BY <1>1, <1>2, <1>4, <1>6, <1>7
    <2> QED
      BY <1>1, <1>3, <1>6, <2>1, <2>2 DEF IngestIsTrue
  <1>15. \A b \in Ingesters : IngestIsTrue(b)'
    BY <1>2, <1>5, <1>11, <1>14, IngestOthers
  <1>16. ScrubIsTrue'
    BY <1>2, <1>11, ScrubKept
  <1>17. ColdIsTrue'
    BY <1>2 DEF CasInv, ColdIsTrue
  <1> QED
    BY <1>8, <1>12, <1>13, <1>15, <1>16, <1>17 DEF CasInv

\* A temporary file that becomes a blob, or a blob that a path is linked to,
\* leaves the bytes alone.
LEMMA RenameKeeps ==
  ASSUME CasInv, NEW a \in Ingesters, IngestRename(a)
  PROVE  CasInv'
  <1> DEFINE d == ingest[a].digest
             t == ingest[a].tmp
             p == ingest[a].path
  <1>1. /\ ingest[a].step = "copied" /\ p \in Paths /\ file[p] # None
        /\ d \in {None, wrote[p]} /\ ingest[a] \in IngestState
        /\ t # None /\ content[t].obj = wrote[p]
    BY DEF IngestRename, CasInv, CasTypeOK, IngestIsTrue, IngestState
  <1>2. /\ UNCHANGED <<file, wrote, leftover, spoilt, set, cold, gc, scrub, budget>>
        /\ Data(content)
    BY DEF IngestRename
  <1>3. t \in Alive /\ d \in Objects \cup {None} /\ t \in Inodes
    BY <1>1, NamedIsAlive DEF IngestState
  <1>4. PICK s : /\ ingest' = [ingest EXCEPT ![a] = s]
                 /\ \/ /\ d = None /\ UNCHANGED blob
                       /\ s = [ingest[a] EXCEPT !.step = "swap"]
                    \/ /\ d # None /\ blob' = [blob EXCEPT ![d] = t]
                       /\ s = [ingest[a] EXCEPT !.step = "swap", !.tmp = None]
    BY DEF IngestRename
  <1>5. s \in IngestState /\ s.step = "swap" /\ s.path = p /\ s.digest = d
        /\ s.tmp \in {t, None} /\ (d = None => s.tmp = t)
    BY <1>1, <1>4 DEF IngestState
  <1>6. \A b \in Ingesters : ingest'[b] = IF b = a THEN s ELSE ingest[b]
    BY <1>4 DEF CasInv, CasTypeOK
  <1>7. \A o \in Objects : blob'[o] = IF o = d THEN t ELSE blob[o]
    BY <1>3, <1>4, CasAssumption DEF CasInv, CasTypeOK
  <1> HIDE DEF d, t, p
  <1>8. /\ content' \in [Inodes -> Content \cup {None}] /\ Alive' \subseteq Alive
        /\ Same /\ SameObjects
    <2>1. \A b \in Ingesters : ingest'[b].tmp \in Alive \cup {None}
      BY <1>3, <1>5, <1>6, WhereNames
    <2>2. \A o \in Objects : blob'[o] \in Alive \cup {None}
      BY <1>3, <1>7, WhereNames
    <2> QED
      BY <1>2, <2>1, <2>2, WhereNames, DataKept
  <1>9. CasTypeOK'
    <2>1. blob' \in [Objects -> Inodes \cup {None}]
      BY <1>3, <1>4 DEF CasInv, CasTypeOK
    <2> QED
      BY <1>2, <1>4, <1>5, <1>8, <2>1 DEF CasInv, CasTypeOK, IngestState
  <1>10. AliveHasContent' /\ WholeUntilRot'
    BY <1>2, <1>8, FilesKept
  <1>11. NamesAreTrue'
    <2>1. ASSUME NEW q \in Paths
          PROVE  /\ file'[q] # None <=> wrote'[q] # None
                 /\ file'[q] # None => content'[file'[q]].obj = wrote'[q]
      <3>1. file[q] # None => file[q] \in Alive /\ file[q] \in Alive'
        BY <1>2, NamedIsAlive DEF Alive
      <3> QED
        BY <1>2, <1>8, <3>1 DEF CasInv, NamesAreTrue, SameObjects
    <2>2. ASSUME NEW o \in Objects, blob'[o] # None PROVE content'[blob'[o]].obj = o
      <3>1. blob'[o] \in Alive'
        BY <2>2 DEF Alive
      <3>2. CASE o = d
        <4>1. content'[t].obj = content[t].obj /\ blob'[o] = t
          BY <1>3, <1>7, <1>8, <3>1, <3>2 DEF SameObjects
        <4> QED
          BY <1>1, <3>2, <4>1, CasAssumption
      <3>3. CASE o # d
        <4>1. blob[o] \in Alive /\ blob'[o] = blob[o] /\ blob[o] # None
          BY <1>7, <2>2, <3>3, NamedIsAlive
        <4> QED
          BY <1>8, <3>1, <4>1 DEF CasInv, NamesAreTrue, SameObjects
      <3> QED
        BY <3>2, <3>3
    <2> QED
      BY <2>1, <2>2 DEF NamesAreTrue
  <1>12. IngestIsTrue(a)'
    <2>1. ingest'[a] = s
      BY <1>6
    <2>2. ASSUME d = None PROVE s.tmp # None /\ content'[s.tmp].obj = wrote[p]
      <3>1. t \in Alive'
        BY <1>1, <1>5, <2>1, <2>2 DEF Alive
      <3> QED
        BY <1>1, <1>3, <1>5, <1>8, <2>2, <3>1 DEF SameObjects
    <2> QED
      BY <1>1, <1>2, <1>5, <2>1, <2>2 DEF IngestIsTrue
  <1>13. \A b \in Ingesters : IngestIsTrue(b)'
    BY <1>2, <1>4, <1>8, <1>12, IngestOthers
  <1>14. ScrubIsTrue'
    BY <1>2, <1>8, ScrubKept
  <1>15. ColdIsTrue'
    BY <1>2 DEF CasInv, ColdIsTrue
  <1> QED
    BY <1>9, <1>10, <1>11, <1>13, <1>14, <1>15 DEF CasInv

\* What a compaction links its path to is of the payload the path has.
LEMMA LinkedIsTrue ==
  ASSUME CasInv, NEW a \in Ingesters, ingest[a].step = "swap", Linked(a) # None
  PROVE  /\ ingest[a].path \in Paths /\ file[ingest[a].path] # None
         /\ Linked(a) \in Alive /\ content[Linked(a)].obj = wrote[ingest[a].path]
  <1>1. /\ ingest[a].path \in Paths /\ file[ingest[a].path] # None
        /\ ingest[a].digest \in {None, wrote[ingest[a].path]}
        /\ ingest[a].digest \in Objects \cup {None}
        /\ ingest[a].digest = None => content[ingest[a].tmp].obj = wrote[ingest[a].path]
    BY DEF CasInv, CasTypeOK, IngestIsTrue
  <1>2. CASE ingest[a].digest = None
    BY <1>1, <1>2, NamedIsAlive DEF Linked
  <1>3. CASE ingest[a].digest # None
    BY <1>1, <1>3, NamedIsAlive DEF Linked, CasInv, NamesAreTrue
  <1> QED
    BY <1>2, <1>3

LEMMA SwapKeeps ==
  ASSUME CasInv, NEW a \in Ingesters, IngestSwap(a)
  PROVE  CasInv'
  <1> DEFINE p == ingest[a].path
             l == Linked(a)
  <1>1. /\ ingest[a].step = "swap" /\ ingest' = [ingest EXCEPT ![a] = NoIngest]
        /\ file' = IF l = None THEN file ELSE [file EXCEPT ![p] = l]
        /\ UNCHANGED <<wrote, blob, leftover, spoilt, set, cold, gc, scrub, budget>>
        /\ Data(content)
    BY DEF IngestSwap
  <1>2. l # None => /\ p \in Paths /\ file[p] # None
                    /\ l \in Alive /\ content[l].obj = wrote[p]
    BY <1>1, LinkedIsTrue
  <1> HIDE DEF p, l
  <1>3. \A q \in Paths : file'[q] = IF l # None /\ q = p THEN l ELSE file[q]
    BY <1>1, <1>2 DEF CasInv, CasTypeOK
  <1>4. \A b \in Ingesters : ingest'[b] = IF b = a THEN NoIngest ELSE ingest[b]
    BY <1>1 DEF CasInv, CasTypeOK
  <1>5. /\ content' \in [Inodes -> Content \cup {None}] /\ Alive' \subseteq Alive
        /\ Same /\ SameObjects
    <2>1. \A b \in Ingesters : ingest'[b].tmp \in Alive \cup {None}
      BY <1>4, WhereNames, NoIngestIsTrue
    <2>2. \A q \in Paths : file'[q] \in Alive \cup {None}
      BY <1>2, <1>3, WhereNames
    <2> QED
      BY <1>1, <2>1, <2>2, WhereNames, DataKept
  <1>6. CasTypeOK'
    <2>1. file' \in [Paths -> Inodes \cup {None}]
      BY <1>1, <1>2, AliveIsFile DEF CasInv, CasTypeOK
    <2>2. ingest' \in [Ingesters -> IngestState]
      BY <1>1, NoIngestIsTrue DEF CasInv, CasTypeOK, IngestState
    <2> QED
      BY <1>1, <1>5, <2>1, <2>2 DEF CasInv, CasTypeOK, IngestState
  <1>7. AliveHasContent' /\ WholeUntilRot'
    BY <1>1, <1>5, FilesKept
  <1>8. NamesAreTrue'
    <2>1. ASSUME NEW q \in Paths
          PROVE  /\ file'[q] # None <=> wrote'[q] # None
                 /\ file'[q] # None => content'[file'[q]].obj = wrote'[q]
      <3>1. file'[q] # None => file'[q] \in Alive'
        BY DEF Alive
      <3>2. CASE l # None /\ q = p
        BY <1>1, <1>2, <1>3, <1>5, <3>1, <3>2 DEF CasInv, NamesAreTrue, SameObjects
      <3>3. CASE ~(l # None /\ q = p)
        BY <1>1, <1>3, <1>5, <3>1, <3>3, NamedIsAlive DEF CasInv, NamesAreTrue, SameObjects
      <3> QED
        BY <3>2, <3>3
    <2>2. ASSUME NEW o \in Objects, blob'[o] # None PROVE content'[blob'[o]].obj = o
      <3>1. blob[o] \in Alive /\ blob[o] \in Alive'
        BY <1>1, <2>2, NamedIsAlive DEF Alive
      <3> QED
        BY <1>1, <1>5, <2>2, <3>1 DEF CasInv, NamesAreTrue, SameObjects
    <2> QED
      BY <2>1, <2>2 DEF NamesAreTrue
  <1>9. \A b \in Ingesters : IngestIsTrue(b)'
    <2>1. \A q \in Paths : file[q] # None => file'[q] # None
      BY <1>3
    <2>2. IngestIsTrue(a)'
      BY <1>4, NoIngestIsTrue
    <2> QED
      BY <1>1, <1>5, <2>1, <2>2, IngestOthers
  <1>10. ScrubIsTrue'
    BY <1>1, <1>5, ScrubKept
  <1>11. ColdIsTrue'
    BY <1>1 DEF CasInv, ColdIsTrue
  <1> QED
    BY <1>6, <1>7, <1>8, <1>9, <1>10, <1>11 DEF CasInv

LEMMA KillIngestKeeps ==
  ASSUME CasInv, NEW a \in Ingesters, KillIngest(a)
  PROVE  CasInv'
  <1>1. /\ ingest' = [ingest EXCEPT ![a] = NoIngest] /\ leftover' = TRUE
        /\ UNCHANGED <<file, wrote, blob, spoilt, set, cold, gc, scrub>>
        /\ budget' = [budget EXCEPT !.faults = @ + 1] /\ budget.rots + budget.faults < MaxFaults
        /\ Data(content)
    BY DEF KillIngest
  <1>2. budget' \in [writes : 0 .. MaxWrites, rots : 0 .. MaxFaults, faults : 0 .. MaxFaults]
        /\ budget'.rots = budget.rots
    BY <1>1, CasAssumption DEF CasInv, CasTypeOK
  <1>3. \A b \in Ingesters : ingest'[b] = IF b = a THEN NoIngest ELSE ingest[b]
    BY <1>1 DEF CasInv, CasTypeOK
  <1>4. /\ content' \in [Inodes -> Content \cup {None}] /\ Alive' \subseteq Alive
        /\ Same /\ SameObjects
    <2>1. \A b \in Ingesters : ingest'[b].tmp \in Alive \cup {None}
      BY <1>3, WhereNames, NoIngestIsTrue
    <2> QED
      BY <1>1, <2>1, WhereNames, DataKept
  <1>5. CasTypeOK'
    <2>1. ingest' \in [Ingesters -> IngestState]
      BY <1>1, NoIngestIsTrue DEF CasInv, CasTypeOK, IngestState
    <2> QED
      BY <1>1, <1>2, <1>4, <2>1 DEF CasInv, CasTypeOK, IngestState
  <1>6. AliveHasContent' /\ WholeUntilRot' /\ NamesAreTrue'
    BY <1>1, <1>2, <1>4, FilesKept, NamesKept
  <1>7. \A b \in Ingesters : IngestIsTrue(b)'
    BY <1>1, <1>3, <1>4, NoIngestIsTrue, IngestOthers
  <1>8. ScrubIsTrue' /\ ColdIsTrue'
    BY <1>1, <1>4, ScrubKept DEF CasInv, ColdIsTrue
  <1> QED
    BY <1>5, <1>6, <1>7, <1>8 DEF CasInv

-----------------------------------------------------------------------------
(* The collector                                                           *)

LEMMA CollectKeeps ==
  ASSUME CasInv, GCStart \/ GCEnd \/ \E p \in Paths : GCScan(p)
  PROVE  CasInv'
  <1>1. UNCHANGED <<content, file, wrote, blob, leftover, spoilt, set, cold, ingest, scrub, budget>>
    BY DEF GCStart, GCEnd, GCScan
  <1>2. gc' \in [on : BOOLEAN, todo : SUBSET Paths, reachable : SUBSET Objects]
    <2>1. CASE GCStart \/ GCEnd
      <3>1. PICK b \in BOOLEAN, T \in SUBSET Paths :
              gc' = [on |-> b, todo |-> T, reachable |-> {}]
        BY <2>1 DEF GCStart, GCEnd
      <3> QED
        BY <3>1
    <2>2. ASSUME NEW p \in Paths, GCScan(p)
          PROVE  gc' \in [on : BOOLEAN, todo : SUBSET Paths, reachable : SUBSET Objects]
      <3> DEFINE D == IF file[p] = None THEN {} ELSE {Digest(content[file[p]])} \ {None}
      <3>1. D \subseteq Objects
        <4>1. file[p] # None => content[file[p]] \in Content
          BY NamedIsAlive DEF CasInv, AliveHasContent
        <4> QED
          BY <4>1, ContentFacts
      <3>2. gc' = [gc EXCEPT !.todo = @ \ {p}, !.reachable = @ \cup D]
        BY <2>2 DEF GCScan
      <3> HIDE DEF D
      <3> QED
        BY <3>1, <3>2 DEF CasInv, CasTypeOK
    <2> QED
      BY <2>1, <2>2
  <1>3. CasTypeOK'
    BY <1>1, <1>2 DEF CasInv, CasTypeOK
  <1>4. Same /\ SameObjects /\ AliveHasContent' /\ NamesAreTrue' /\ WholeUntilRot'
    BY <1>1, QuietFiles, WhereNames
  <1>5. \A b \in Ingesters : IngestIsTrue(b)'
    BY <1>1, <1>4, IngestKept
  <1>6. ScrubIsTrue' /\ ColdIsTrue'
    BY <1>1, <1>4, ScrubKept DEF CasInv, ColdIsTrue
  <1> QED
    BY <1>3, <1>4, <1>5, <1>6 DEF CasInv

LEMMA GCRemoveKeeps ==
  ASSUME CasInv, NEW o \in Objects, GCRemove(o)
  PROVE  CasInv'
  <1>1. /\ blob' = [blob EXCEPT ![o] = None]
        /\ UNCHANGED <<file, wrote, leftover, spoilt, set, cold, ingest, gc, scrub, budget>>
        /\ Data(content)
    BY DEF GCRemove
  <1>2. \A q \in Objects : blob'[q] = IF q = o THEN None ELSE blob[q]
    BY <1>1 DEF CasInv, CasTypeOK
  <1>3. /\ content' \in [Inodes -> Content \cup {None}] /\ Alive' \subseteq Alive
        /\ Same /\ SameObjects
    BY <1>1, <1>2, WhereNames, DataKept
  <1>4. CasTypeOK'
    BY <1>1, <1>3 DEF CasInv, CasTypeOK
  <1>5. AliveHasContent' /\ WholeUntilRot'
    BY <1>1, <1>3, FilesKept
  <1>6. NamesAreTrue'
    <2>1. ASSUME NEW q \in Paths
          PROVE  /\ file'[q] # None <=> wrote'[q] # None
                 /\ file'[q] # None => content'[file'[q]].obj = wrote'[q]
      <3>1. file[q] # None => file[q] \in Alive /\ file[q] \in Alive'
        BY <1>1, NamedIsAlive DEF Alive
      <3> QED
        BY <1>1, <1>3, <3>1 DEF CasInv, NamesAreTrue, SameObjects
    <2>2. ASSUME NEW q \in Objects, blob'[q] # None PROVE content'[blob'[q]].obj = q
      <3>1. blob'[q] = blob[q] /\ blob[q] \in Alive /\ blob'[q] \in Alive'
        BY <1>2, <2>2, NamedIsAlive DEF Alive
      <3> QED
        BY <1>3, <2>2, <3>1 DEF CasInv, NamesAreTrue, SameObjects
    <2> QED
      BY <2>1, <2>2 DEF NamesAreTrue
  <1>7. \A b \in Ingesters : IngestIsTrue(b)'
    BY <1>1, <1>3, IngestKept
  <1>8. ScrubIsTrue' /\ ColdIsTrue'
    BY <1>1, <1>3, ScrubKept DEF CasInv, ColdIsTrue
  <1> QED
    BY <1>4, <1>5, <1>6, <1>7, <1>8 DEF CasInv

-----------------------------------------------------------------------------
(* The scrubber and its repair                                             *)

\* Where a scrub is, as a record.
ScrubState == [step : {"idle", "check", "rebuild", "open", "write"}, todo : SUBSET Objects,
               digest : Objects \cup {None}, inode : Inodes \cup {None}]

LEMMA ScrubTyped ==
  ASSUME NEW st \in {"idle", "check", "rebuild", "open", "write"}, NEW T \in SUBSET Objects,
         NEW d \in Objects \cup {None}, NEW i \in Inodes \cup {None}
  PROVE  /\ Scrub(st, T, d, i) \in ScrubState
         /\ Scrub(st, T, d, i).step = st /\ Scrub(st, T, d, i).todo = T
         /\ Scrub(st, T, d, i).digest = d /\ Scrub(st, T, d, i).inode = i
  BY DEF Scrub, ScrubState

\* The scrub goes on to the next object, or is over.
LEMMA GoOnTyped ==
  ASSUME NEW T \in SUBSET Objects
  PROVE  /\ GoOn(T) \in ScrubState /\ GoOn(T).inode = None
         /\ GoOn(T).step \in {"idle", "check"}
  BY ScrubTyped DEF GoOn

\* A scrub that starts, or goes on without having a file open, touches none.
LEMMA ScrubMoves ==
  ASSUME CasInv, scrub' \in ScrubState, scrub.step # "write", scrub'.step # "write",
         scrub'.inode = None, ScrubIsTrue',
         UNCHANGED <<content, file, wrote, blob, leftover, spoilt, set, cold, ingest, gc, budget>>
  PROVE  CasInv'
  <1>1. Same /\ SameObjects /\ AliveHasContent' /\ NamesAreTrue' /\ WholeUntilRot'
    BY QuietFiles, WhereNames
  <1>2. CasTypeOK'
    BY DEF CasInv, CasTypeOK, ScrubState
  <1>3. \A b \in Ingesters : IngestIsTrue(b)'
    BY <1>1, IngestKept
  <1>4. ColdIsTrue'
    BY DEF CasInv, ColdIsTrue
  <1> QED
    BY <1>1, <1>2, <1>3, <1>4 DEF CasInv

LEMMA ScrubStartKeeps ==
  ASSUME CasInv, ScrubStart
  PROVE  CasInv'
  <1>1. PICK T \in SUBSET Objects : scrub' = Scrub("check", T, None, None)
    BY DEF ScrubStart
  <1>2. /\ UNCHANGED <<content, file, wrote, blob, leftover, spoilt, set, cold, ingest, gc, budget>>
        /\ scrub.step = "idle"
    BY DEF ScrubStart
  <1>3. scrub' \in ScrubState /\ scrub'.step = "check" /\ scrub'.inode = None
    BY <1>1, ScrubTyped
  <1>4. ScrubIsTrue'
    BY <1>3 DEF ScrubIsTrue
  <1> QED
    BY <1>2, <1>3, <1>4, ScrubMoves

LEMMA ScrubCheckKeeps ==
  ASSUME CasInv, NEW o \in Objects, ScrubCheck(o)
  PROVE  CasInv'
  <1> DEFINE rest == scrub.todo \ {o}
  <1>0. rest \in SUBSET Objects
    BY DEF CasInv, CasTypeOK
  <1>1. /\ UNCHANGED <<content, file, wrote, blob, leftover, spoilt, set, cold, ingest, gc, budget>>
        /\ scrub.step = "check"
        /\ scrub' = Scrub("rebuild", rest, o, None) \/ scrub' = GoOn(rest)
    BY DEF ScrubCheck
  <1> HIDE DEF rest
  <1>2. /\ scrub' \in ScrubState /\ scrub'.inode = None
        /\ \/ scrub'.step = "rebuild" /\ scrub'.digest = o
           \/ scrub'.step \in {"idle", "check"}
    BY <1>0, <1>1, ScrubTyped, GoOnTyped
  <1>3. ScrubIsTrue'
    BY <1>2 DEF ScrubIsTrue
  <1> QED
    BY <1>1, <1>2, <1>3, ScrubMoves

LEMMA ScrubRebuildKeeps ==
  ASSUME CasInv, ScrubRebuild
  PROVE  CasInv'
  <1> DEFINE d == scrub.digest
  <1>0. scrub.todo \in SUBSET Objects /\ scrub \in ScrubState /\ d \in Objects
        /\ scrub.inode = None
    BY DEF ScrubRebuild, CasInv, CasTypeOK, ScrubState, ScrubIsTrue
  <1>1. /\ UNCHANGED <<content, file, wrote, blob, leftover, spoilt, set, cold, ingest, gc, budget>>
        /\ scrub.step = "rebuild"
        /\ \/ scrub' = [scrub EXCEPT !.step = "open"] /\ Rebuilds(d)
           \/ scrub' = GoOn(scrub.todo)
    BY DEF ScrubRebuild
  <1>2. ASSUME Rebuilds(d) PROVE set[d] # None /\ set[d].of = Is(d)
    <2>1. set[d] # None /\ Digest(set[d].of) = d
      BY <1>2 DEF Rebuilds
    <2>2. set[d].of \in Content
      BY <1>0, <2>1 DEF CasInv, CasTypeOK, ErasureSet
    <2>3. d # None
      BY <1>0, CasAssumption
    <2> QED
      BY <2>1, <2>2, <2>3, ContentFacts
  <1>3. /\ scrub' \in ScrubState /\ scrub'.inode = None
        /\ \/ scrub'.step = "open" /\ scrub'.digest = d /\ Rebuilds(d)
           \/ scrub'.step \in {"idle", "check"}
    <2>1. CASE scrub' = [scrub EXCEPT !.step = "open"] /\ Rebuilds(d)
      BY <1>0, <2>1 DEF ScrubState
    <2>2. CASE scrub' = GoOn(scrub.todo)
      BY <1>0, <2>2, GoOnTyped
    <2> QED
      BY <1>1, <2>1, <2>2
  <1> HIDE DEF d
  <1>4. ScrubIsTrue'
    BY <1>0, <1>1, <1>2, <1>3 DEF ScrubIsTrue
  <1> QED
    BY <1>1, <1>3, <1>4, ScrubMoves

LEMMA ScrubOpenKeeps ==
  ASSUME CasInv, ScrubOpen
  PROVE  CasInv'
  <1> DEFINE o == scrub.digest
             i == blob[o]
  <1>0. /\ scrub.todo \in SUBSET Objects /\ scrub \in ScrubState /\ o \in Objects
        /\ set[o] # None /\ set[o].of = Is(o)
    BY DEF ScrubOpen, CasInv, CasTypeOK, ScrubState, ScrubIsTrue
  <1>1. /\ UNCHANGED <<file, wrote, blob, leftover, spoilt, set, cold, ingest, gc, budget>>
        /\ scrub.step = "open"
    BY DEF ScrubOpen
  <1>2. CASE i = None
    <2>1. UNCHANGED content /\ scrub' = GoOn(scrub.todo)
      BY <1>2 DEF ScrubOpen
    <2>2. scrub' \in ScrubState /\ scrub'.inode = None /\ scrub'.step \in {"idle", "check"}
      BY <1>0, <2>1, GoOnTyped
    <2>3. ScrubIsTrue'
      BY <2>2 DEF ScrubIsTrue
    <2> QED
      BY <1>1, <2>1, <2>2, <2>3, ScrubMoves
  <1>3. CASE i # None
    <2>1. /\ i \in Alive /\ i \in Inodes /\ content[i] \in Content /\ content[i].obj = o
      BY <1>0, <1>3, NamedIsAlive, AliveIsFile DEF CasInv, AliveHasContent, NamesAreTrue
    <2>2. /\ scrub' = [scrub EXCEPT !.step = "write", !.inode = i]
          /\ content' = [content EXCEPT ![i].state = "torn"]
      BY <1>3 DEF ScrubOpen
    <2> HIDE DEF i
    <2>3. /\ scrub' \in ScrubState /\ scrub'.inode = i /\ scrub'.digest = o
          /\ scrub'.step = "write"
      BY <1>0, <2>1, <2>2 DEF ScrubState
    <2> HIDE DEF o
    <2>4. [content[i] EXCEPT !.state = "torn"] = [obj |-> o, state |-> "torn"]
          /\ [obj |-> o, state |-> "torn"] \in Content
      BY <1>0, <2>1 DEF Content
    <2>5. /\ content' \in [Inodes -> Content \cup {None}]
          /\ content'[i] = [obj |-> o, state |-> "torn"]
          /\ \A j \in Inodes : j # i => content'[j] = content[j]
      BY <2>1, <2>2, <2>4 DEF CasInv, CasTypeOK
    <2>6. CasTypeOK'
      BY <1>1, <2>3, <2>5 DEF CasInv, CasTypeOK, ScrubState
    <2>7. Alive' \subseteq Alive
      BY <1>1, <2>1, <2>3 DEF Alive
    <2>8. SameObjects
      BY <2>1, <2>5, AliveIsFile DEF SameObjects, CasInv
    <2>9. AliveHasContent'
      BY <2>4, <2>5, <2>7, AliveIsFile DEF CasInv, AliveHasContent
    <2>10. NamesAreTrue'
      BY <1>1, <2>8, NamesKept
    <2>11. \A b \in Ingesters : IngestIsTrue(b)'
      BY <1>1, <2>8, IngestKept
    <2>12. ScrubIsTrue'
      BY <1>0, <1>1, <1>3, <2>3, <2>5 DEF ScrubIsTrue
    <2>13. WholeUntilRot'
      <3>1. ASSUME budget'.rots = 0, ~spoilt', NEW j \in Alive', j # i
            PROVE  content'[j].state = "ok"
        <4>1. content'[j] = content[j] /\ j \in Alive
          BY <2>5, <2>7, <3>1, AliveIsFile DEF CasInv
        <4> QED
          BY <1>1, <3>1, <4>1 DEF CasInv, WholeUntilRot, Rewritten
      <3>2. \A j \in Alive' : j = i => scrub'.step = "write" /\ scrub'.inode = j
        BY <2>3
      <3> QED
        BY <3>1, <3>2 DEF WholeUntilRot, Rewritten
    <2>14. ColdIsTrue'
      BY <1>1 DEF CasInv, ColdIsTrue
    <2> QED
      BY <2>6, <2>9, <2>10, <2>11, <2>12, <2>13, <2>14 DEF CasInv
  <1> QED
    BY <1>2, <1>3

\* What a repair is about to write, and where.
LEMMA WritesToTorn ==
  ASSUME CasInv, scrub.step = "write"
  PROVE  /\ scrub.digest \in Objects /\ scrub.inode \in Alive /\ scrub.inode \in Inodes
         /\ content[scrub.inode].obj = scrub.digest /\ content[scrub.inode].state = "torn"
         /\ set[scrub.digest].of = Is(scrub.digest)
  <1>1. /\ scrub.digest \in Objects /\ scrub.inode # None
        /\ content[scrub.inode] = [obj |-> scrub.digest, state |-> "torn"]
        /\ set[scrub.digest].of = Is(scrub.digest)
    BY DEF CasInv, ScrubIsTrue
  <1>2. scrub.inode \in Alive /\ scrub.inode \in Inodes
    BY <1>1, NamedIsAlive, AliveIsFile DEF CasInv
  <1>3. content[scrub.inode].obj = scrub.digest /\ content[scrub.inode].state = "torn"
    BY <1>1
  <1> QED
    BY <1>1, <1>2, <1>3

LEMMA ScrubWriteKeeps ==
  ASSUME CasInv, ScrubWrite
  PROVE  CasInv'
  <1> DEFINE i == scrub.inode
             o == scrub.digest
             c == [content EXCEPT ![i] = Is(o)]
  <1>1. /\ o \in Objects /\ i \in Alive /\ i \in Inodes /\ content[i].obj = o
        /\ set[o].of = Is(o)
    BY WritesToTorn DEF ScrubWrite
  <1>2. /\ UNCHANGED <<file, wrote, blob, leftover, spoilt, set, cold, ingest, gc, budget>>
        /\ Data(c)
        /\ scrub' = GoOn(scrub.todo)
    BY <1>1 DEF ScrubWrite
  <1>3. scrub' \in ScrubState /\ scrub'.inode = None /\ scrub'.step \in {"idle", "check"}
    <2>1. scrub.todo \in SUBSET Objects
      BY DEF CasInv, CasTypeOK
    <2> QED
      BY <1>2, <2>1, GoOnTyped
  <1>4. /\ c \in [Inodes -> Content \cup {None}]
        /\ c[i] = Is(o) /\ \A j \in Inodes : j # i => c[j] = content[j]
    BY <1>1, ContentFacts DEF CasInv, CasTypeOK
  <1>5. \A j \in Inodes : Rewritten(j) => j = i
    BY DEF Rewritten
  <1> HIDE DEF i, o, c
  <1>6. /\ content' \in [Inodes -> Content \cup {None}]
        /\ \A j \in Inodes : j \in Alive' => content'[j] = c[j]
    BY <1>2, <1>4, DataOf
  <1>7. CasTypeOK'
    BY <1>2, <1>3, <1>6 DEF CasInv, CasTypeOK, ScrubState
  <1>8. Alive' \subseteq Alive
    BY <1>2, <1>3 DEF Alive
  <1>9. SameObjects
    BY <1>1, <1>4, <1>6, AliveIsFile, ContentFacts DEF SameObjects, CasInv
  <1>10. AliveHasContent'
    BY <1>1, <1>4, <1>6, <1>8, AliveIsFile, ContentFacts DEF CasInv, AliveHasContent
  <1>11. NamesAreTrue'
    BY <1>2, <1>9, NamesKept
  <1>12. \A b \in Ingesters : IngestIsTrue(b)'
    BY <1>2, <1>9, IngestKept
  <1>13. ScrubIsTrue' /\ ColdIsTrue'
    BY <1>2, <1>3 DEF ScrubIsTrue, CasInv, ColdIsTrue
  <1>14. WholeUntilRot'
    <2>1. ASSUME budget'.rots = 0, ~spoilt', NEW j \in Alive'
          PROVE  content'[j].state = "ok"
      <3>1. j \in Inodes /\ j \in Alive /\ content'[j] = c[j]
        BY <1>6, <1>8, AliveIsFile DEF CasInv
      <3>2. CASE j = i
        BY <1>1, <1>4, <3>1, <3>2, ContentFacts
      <3>3. CASE j # i
        BY <1>2, <1>4, <1>5, <2>1, <3>1, <3>3 DEF CasInv, WholeUntilRot
      <3> QED
        BY <3>2, <3>3
    <2> QED
      BY <2>1 DEF WholeUntilRot
  <1> QED
    BY <1>7, <1>10, <1>11, <1>12, <1>13, <1>14 DEF CasInv

\* A repair that fails in its copy, or is killed.
LEMMA ScrubEndsKeeps ==
  ASSUME CasInv, ScrubWriteFails \/ KillScrub
  PROVE  CasInv'
  <1>0. scrub.todo \in SUBSET Objects
    BY DEF CasInv, CasTypeOK
  <1>1. /\ scrub' = Scrub("idle", {}, None, None) \/ scrub' = GoOn(scrub.todo)
        /\ leftover' \in BOOLEAN /\ spoilt' \in BOOLEAN
        /\ spoilt => spoilt'
        /\ spoilt' \/ scrub.step # "write"
        /\ UNCHANGED <<file, wrote, blob, set, cold, ingest, gc>>
        /\ budget' = [budget EXCEPT !.faults = @ + 1] /\ budget.rots + budget.faults < MaxFaults
        /\ Data(content)
    <2>1. spoilt \in BOOLEAN /\ leftover \in BOOLEAN
      BY DEF CasInv, CasTypeOK
    <2>2. CASE ScrubWriteFails
      BY <2>1, <2>2 DEF ScrubWriteFails
    <2>3. CASE KillScrub
      BY <2>1, <2>3 DEF KillScrub
    <2> QED
      BY <2>2, <2>3
  <1>2. budget' \in [writes : 0 .. MaxWrites, rots : 0 .. MaxFaults, faults : 0 .. MaxFaults]
        /\ budget'.rots = budget.rots
    BY <1>1, CasAssumption DEF CasInv, CasTypeOK
  <1>3. scrub' \in ScrubState /\ scrub'.inode = None /\ scrub'.step \in {"idle", "check"}
    BY <1>0, <1>1, ScrubTyped, GoOnTyped
  <1>4. /\ content' \in [Inodes -> Content \cup {None}] /\ Alive' \subseteq Alive
        /\ Same /\ SameObjects
    BY <1>1, <1>3, WhereNames, DataKept
  <1>5. CasTypeOK'
    BY <1>1, <1>2, <1>3, <1>4 DEF CasInv, CasTypeOK, ScrubState
  <1>6. AliveHasContent' /\ WholeUntilRot' /\ NamesAreTrue'
    BY <1>1, <1>2, <1>4, FilesKept, NamesKept
  <1>7. \A b \in Ingesters : IngestIsTrue(b)'
    BY <1>1, <1>4, IngestKept
  <1>8. ScrubIsTrue' /\ ColdIsTrue'
    BY <1>1, <1>3 DEF CasInv, ColdIsTrue, ScrubIsTrue
  <1> QED
    BY <1>5, <1>6, <1>7, <1>8 DEF CasInv

-----------------------------------------------------------------------------
(* Erasure sets, the cold tier and rot                                     *)

\* Erasure sets are made once, and keep what they were made of.
LEMMA SetsKept ==
  ASSUME CasInv, UNCHANGED <<content, file, wrote, blob, leftover, spoilt, ingest, gc, scrub>>,
         set' \in [Objects -> ErasureSet \cup {None}],
         \A o \in Objects : set[o] # None => set'[o] # None /\ set'[o].of = set[o].of,
         cold' \in [Objects -> Content \cup {None}], ColdIsTrue',
         budget' \in [writes : 0 .. MaxWrites, rots : 0 .. MaxFaults, faults : 0 .. MaxFaults],
         budget'.rots = budget.rots \/ budget'.rots # 0
  PROVE  CasInv'
  <1>1. Same /\ SameObjects /\ AliveHasContent' /\ NamesAreTrue'
        /\ (budget'.rots = budget.rots => WholeUntilRot')
    BY QuietFiles, WhereNames
  <1>2. WholeUntilRot'
    BY <1>1 DEF WholeUntilRot
  <1>3. CasTypeOK'
    BY DEF CasInv, CasTypeOK
  <1>4. \A b \in Ingesters : IngestIsTrue(b)'
    BY <1>1, IngestKept
  <1>5. ScrubIsTrue'
    BY <1>1, ScrubKept
  <1> QED
    BY <1>1, <1>2, <1>3, <1>4, <1>5 DEF CasInv

LEMMA ProtectKeeps ==
  ASSUME CasInv, NEW o \in Objects, Protect(o)
  PROVE  CasInv'
  <1> DEFINE e == [of |-> content[blob[o]], valid |-> Total]
  <1>1. content[blob[o]] \in Content
    BY NamedIsAlive DEF Protect, CasInv, AliveHasContent
  <1>2. Total \in 0 .. Total
    BY CasAssumption DEF Total
  <1>3. e \in ErasureSet
    BY <1>1, <1>2 DEF ErasureSet
  <1>4. /\ set[o] = None /\ set' = [set EXCEPT ![o] = e]
        /\ UNCHANGED <<content, file, wrote, blob, leftover, spoilt, cold, ingest, gc, scrub, budget>>
    BY DEF Protect
  <1> HIDE DEF e
  <1>5. /\ set' \in [Objects -> ErasureSet \cup {None}]
        /\ \A q \in Objects : set[q] # None => set'[q] # None /\ set'[q].of = set[q].of
    BY <1>3, <1>4 DEF CasInv, CasTypeOK
  <1>6. cold' \in [Objects -> Content \cup {None}] /\ ColdIsTrue'
        /\ budget' \in [writes : 0 .. MaxWrites, rots : 0 .. MaxFaults, faults : 0 .. MaxFaults]
    BY <1>4 DEF CasInv, CasTypeOK, ColdIsTrue
  <1> QED
    BY <1>4, <1>5, <1>6, SetsKept

LEMMA TierKeeps ==
  ASSUME CasInv, NEW o \in Objects, Tier(o)
  PROVE  CasInv'
  <1>1. content[blob[o]] \in Content /\ Digest(content[blob[o]]) = o
    BY NamedIsAlive DEF Tier, CasInv, AliveHasContent
  <1>2. content[blob[o]] = Is(o)
    <2>1. o # None
      BY CasAssumption
    <2> QED
      BY <1>1, <2>1, ContentFacts
  <1>3. /\ cold' = [cold EXCEPT ![o] = Is(o)]
        /\ UNCHANGED <<content, file, wrote, blob, leftover, spoilt, set, ingest, gc, scrub, budget>>
    BY <1>2 DEF Tier
  <1>4. cold' \in [Objects -> Content \cup {None}] /\ ColdIsTrue'
    BY <1>3, ContentFacts DEF CasInv, CasTypeOK, ColdIsTrue
  <1>5. set' \in [Objects -> ErasureSet \cup {None}]
        /\ budget' \in [writes : 0 .. MaxWrites, rots : 0 .. MaxFaults, faults : 0 .. MaxFaults]
    BY <1>3 DEF CasInv, CasTypeOK
  <1> QED
    BY <1>3, <1>4, <1>5, SetsKept

\* Rot is counted.
LEMMA RotCounted ==
  ASSUME CasInv, budget.rots + budget.faults < MaxFaults, budget' = [budget EXCEPT !.rots = @ + 1]
  PROVE  /\ budget' \in [writes : 0 .. MaxWrites, rots : 0 .. MaxFaults, faults : 0 .. MaxFaults]
         /\ budget'.rots > budget.rots /\ budget'.rots # 0
  BY CasAssumption DEF CasInv, CasTypeOK

LEMMA RotShardKeeps ==
  ASSUME CasInv, NEW o \in Objects, RotShard(o)
  PROVE  CasInv'
  <1>1. /\ set[o] # None /\ set[o].valid > 0
        /\ set' = [set EXCEPT ![o] = [set[o] EXCEPT !.valid = set[o].valid - 1]]
        /\ budget.rots + budget.faults < MaxFaults /\ budget' = [budget EXCEPT !.rots = @ + 1]
        /\ UNCHANGED <<content, file, wrote, blob, leftover, spoilt, cold, ingest, gc, scrub>>
    BY DEF RotShard
  <1>2. set[o] \in ErasureSet
    BY <1>1 DEF CasInv, CasTypeOK
  <1>3. PICK e : e = [set[o] EXCEPT !.valid = set[o].valid - 1]
    OBVIOUS
  <1>4. e \in ErasureSet /\ e.of = set[o].of
    BY <1>1, <1>2, <1>3, CasAssumption DEF ErasureSet, Total
  <1>5. /\ set' \in [Objects -> ErasureSet \cup {None}]
        /\ \A q \in Objects : set[q] # None => set'[q] # None /\ set'[q].of = set[q].of
    BY <1>1, <1>3, <1>4, NoneIsNoSet DEF CasInv, CasTypeOK
  <1>6. cold' \in [Objects -> Content \cup {None}] /\ ColdIsTrue'
    BY <1>1 DEF CasInv, CasTypeOK, ColdIsTrue
  <1> QED
    BY <1>1, <1>5, <1>6, RotCounted, SetsKept

LEMMA RotKeeps ==
  ASSUME CasInv, NEW i \in Inodes, Rot(i)
  PROVE  CasInv'
  <1>1. /\ i \in Alive /\ content[i].state = "ok"
        /\ content' = [content EXCEPT ![i].state = "rotten"]
        /\ budget.rots + budget.faults < MaxFaults /\ budget' = [budget EXCEPT !.rots = @ + 1]
        /\ UNCHANGED <<file, wrote, blob, leftover, spoilt, set, cold, ingest, gc, scrub>>
    BY DEF Rot
  <1>2. content[i] \in Content
    BY <1>1 DEF CasInv, AliveHasContent
  <1>3. PICK c : c = [content[i] EXCEPT !.state = "rotten"]
    OBVIOUS
  <1>4. c \in Content /\ c.obj = content[i].obj
    BY <1>2, <1>3 DEF Content
  <1>5. /\ content' \in [Inodes -> Content \cup {None}] /\ content'[i] = c
        /\ \A j \in Inodes : j # i => content'[j] = content[j]
    BY <1>1, <1>3, <1>4 DEF CasInv, CasTypeOK
  <1>6. CasTypeOK'
    BY <1>1, <1>5, RotCounted DEF CasInv, CasTypeOK
  <1>7. Alive' = Alive
    BY <1>1 DEF Alive
  <1>8. SameObjects
    BY <1>4, <1>5, AliveIsFile DEF SameObjects, CasInv
  <1>9. AliveHasContent'
    BY <1>4, <1>5, <1>7, AliveIsFile DEF CasInv, AliveHasContent
  <1>10. NamesAreTrue'
    BY <1>1, <1>8, NamesKept
  <1>11. \A b \in Ingesters : IngestIsTrue(b)'
    BY <1>1, <1>8, IngestKept
  <1>12. ScrubIsTrue'
    <2>1. scrub.step = "write" => scrub.inode # i /\ scrub.inode \in Inodes
      BY <1>1, WritesToTorn
    <2> QED
      BY <1>1, <1>5, <2>1 DEF CasInv, ScrubIsTrue
  <1>13. ColdIsTrue' /\ WholeUntilRot'
    BY <1>1, RotCounted DEF CasInv, ColdIsTrue, WholeUntilRot
  <1> QED
    BY <1>6, <1>9, <1>10, <1>11, <1>12, <1>13 DEF CasInv

-----------------------------------------------------------------------------
(* The invariant                                                           *)

LEMMA CasInvInit == CasInit => CasInv
  <1> SUFFICES ASSUME CasInit PROVE CasInv
    OBVIOUS
  <1>1. Alive = {}
    BY DEF CasInit, Alive, NoIngest
  <1>2. CasTypeOK
    <2>1. budget \in [writes : 0 .. MaxWrites, rots : 0 .. MaxFaults, faults : 0 .. MaxFaults]
      BY CasAssumption DEF CasInit
    <2>2. ingest \in [Ingesters -> IngestState]
      BY NoIngestIsTrue DEF CasInit
    <2>3. gc \in [on : BOOLEAN, todo : SUBSET Paths, reachable : SUBSET Objects]
      BY DEF CasInit
    <2>4. scrub \in ScrubState
      BY DEF CasInit, ScrubState
    <2> QED
      BY <2>1, <2>2, <2>3, <2>4 DEF CasInit, CasTypeOK, IngestState, ScrubState
  <1>3. \A a \in Ingesters : IngestIsTrue(a)
    BY DEF CasInit, IngestIsTrue, NoIngest
  <1>4. NamesAreTrue /\ ScrubIsTrue /\ ColdIsTrue
    BY DEF CasInit, NamesAreTrue, ScrubIsTrue, ColdIsTrue
  <1> QED
    BY <1>1, <1>2, <1>3, <1>4 DEF CasInv, AliveHasContent, WholeUntilRot

LEMMA CasInvNext == CasInv /\ ~Beside /\ [CasNext]_vars => CasInv'
  <1> SUFFICES ASSUME CasInv, ~Beside, [CasNext]_vars PROVE CasInv'
    OBVIOUS
  <1>1. CASE UNCHANGED vars
    <2>1. UNCHANGED <<content, file, wrote, blob, leftover, spoilt, set, cold, ingest, gc, scrub, budget>>
      BY <1>1 DEF vars
    <2>2. cold' \in [Objects -> Content \cup {None}] /\ ColdIsTrue'
          /\ set' \in [Objects -> ErasureSet \cup {None}]
          /\ budget' \in [writes : 0 .. MaxWrites, rots : 0 .. MaxFaults, faults : 0 .. MaxFaults]
      BY <2>1 DEF CasInv, CasTypeOK, ColdIsTrue
    <2> QED
      BY <2>1, <2>2, SetsKept
  <1>2. CASE CasNext
    BY <1>2, WriteKeeps, RemoveKeeps, HashKeeps, FoundKeeps, CopyKeeps, RenameKeeps, SwapKeeps,
       KillIngestKeeps, CollectKeeps, GCRemoveKeeps, ScrubStartKeeps, ScrubCheckKeeps,
       ScrubRebuildKeeps, ScrubOpenKeeps, ScrubWriteKeeps, ScrubEndsKeeps, ProtectKeeps, TierKeeps, RotShardKeeps, RotKeeps
       DEF CasNext
  <1> QED
    BY <1>1, <1>2

\* The invariant of the store, as long as compactions and backups do not run
\* beside each other.
THEOREM CasInvariant == ASSUME ~Beside PROVE CasSpec => []CasInv
  <1>1. CasInit => CasInv
    BY CasInvInit
  <1>2. CasInv /\ [CasNext]_vars => CasInv'
    BY CasInvNext
  <1> QED
    BY <1>1, <1>2, PTL DEF CasSpec

\* Until a file rots, or is left as a repair had truncated it, every payload is
\* there and reads as its sidecar says and every blob is the object it is named
\* after, but for the file a repair is rewriting: through any overlap of
\* compactions (Ingest), the collector (GCProtected), scrubs with repair and
\* kills.  Copies in the cold tier are true even afterwards (copyVerified).
THEOREM StoreDelivers == ASSUME ~Beside PROVE CasSpec => []DeliversUntilRot
  <1>1. CasInv => DeliversUntilRot
    <2> SUFFICES ASSUME CasInv PROVE DeliversUntilRot
      OBVIOUS
    <2>1. ASSUME budget.rots = 0, ~spoilt, NEW p \in Paths, wrote[p] # None
          PROVE  file[p] # None /\ (content[file[p]] = Is(wrote[p]) \/ Rewritten(file[p]))
      <3>1. file[p] # None /\ content[file[p]].obj = wrote[p]
        BY <2>1 DEF CasInv, NamesAreTrue
      <3>2. /\ content[file[p]] \in Content
            /\ content[file[p]].state = "ok" \/ Rewritten(file[p])
        BY <2>1, <3>1, NamedIsAlive DEF CasInv, AliveHasContent, WholeUntilRot
      <3> QED
        BY <3>1, <3>2, ContentFacts
    <2>2. ASSUME budget.rots = 0, ~spoilt, NEW o \in Objects, blob[o] # None
          PROVE  content[blob[o]] = Is(o) \/ Rewritten(blob[o])
      <3>1. content[blob[o]].obj = o
        BY <2>2 DEF CasInv, NamesAreTrue
      <3>2. /\ content[blob[o]] \in Content
            /\ content[blob[o]].state = "ok" \/ Rewritten(blob[o])
        BY <2>2, NamedIsAlive DEF CasInv, AliveHasContent, WholeUntilRot
      <3> QED
        BY <3>1, <3>2, ContentFacts
    <2> QED
      BY <2>1, <2>2 DEF CasInv, ColdIsTrue, DeliversUntilRot
  <1>2. CasSpec => []CasInv
    BY CasInvariant
  <1> QED
    BY <1>1, <1>2, PTL

-----------------------------------------------------------------------------
(* What a repair does to a file                                            *)

\* Neither compaction nor collector nor backup changes the bytes of a file
\* that somebody has.
LEMMA BytesKept ==
  ASSUME CasInv, CasInv', CasNext, ~ScrubWrite, ~ScrubOpen, ~ \E i \in Inodes : Rot(i)
  PROVE  Same
  <1>1. Alive \subseteq Inodes /\ content \in [Inodes -> Content \cup {None}]
    BY AliveIsFile DEF CasInv, CasTypeOK
  <1>2. CASE Data(content) \/ UNCHANGED content
    BY <1>1, <1>2, DataOf DEF Same
  <1>3. ASSUME NEW p \in Paths, NEW o \in Objects, WritePayload(p, o) PROVE Same
    <2>1. NewInode \in Inodes \ Alive
      BY <1>3, NewIsFree DEF WritePayload
    <2>2. [content EXCEPT ![NewInode] = Is(o)] \in [Inodes -> Content \cup {None}]
      BY <1>1, ContentFacts
    <2>3. \A i \in Inodes : i \in Alive' => content'[i] = [content EXCEPT ![NewInode] = Is(o)][i]
      BY <1>3, <2>2, DataOf DEF WritePayload
    <2> QED
      BY <1>1, <2>1, <2>3 DEF Same
  <1>4. ASSUME NEW a \in Ingesters, IngestCopy(a) PROVE Same
    <2>1. CASE UNCHANGED content
      BY <1>2, <2>1
    <2>2. CASE CanCreate /\ content' = [content EXCEPT ![NewInode] = content[file[ingest[a].path]]]
      <3>1. NewInode \in Inodes \ Alive
        BY <2>2, NewIsFree
      <3> QED
        BY <1>1, <2>2, <3>1 DEF Same
    <2> QED
      BY <1>4, <2>1, <2>2 DEF IngestCopy
  <1>5. ASSUME ~ \E p \in Paths, o \in Objects : WritePayload(p, o),
               ~ \E a \in Ingesters : IngestCopy(a)
        PROVE  Data(content) \/ UNCHANGED content
    BY <1>5 DEF CasNext, RemovePayload, GCScan, IngestHash, IngestFound, IngestRename, IngestSwap,
       KillIngest, GCStart, GCEnd, ScrubStart, ScrubCheck, ScrubRebuild, ScrubWriteFails, KillScrub,
       GCRemove, Protect, Tier, RotShard
  <1> QED
    BY <1>2, <1>3, <1>4, <1>5

\* A file that others may be linked to changes by rot, by a repair that has
\* rebuilt the very object the file is of before it truncates it, or by that
\* repair's copy, which makes it that object again (LocalErasureRepair).  That
\* the file was damaged it does not say: see RepairsOnlyDamaged.
THEOREM RepairsWriteTheObject == ASSUME ~Beside PROVE CasSpec => RepairsHoldTheObject
  <1> DEFINE Held(i) ==
               \/ budget'.rots > budget.rots
               \/ /\ scrub'.inode = i /\ scrub'.digest = content[i].obj
                  /\ set[content[i].obj] # None /\ set[content[i].obj].of = Is(content[i].obj)
               \/ scrub.inode = i /\ content'[i] = Is(content[i].obj)
             Holds == \A i \in Alive : i \in Alive' /\ content'[i] # content[i] => Held(i)
  <1>1. ASSUME CasInv, CasInv', [CasNext]_vars PROVE Holds
    <2>1. CASE UNCHANGED vars
      BY <2>1 DEF vars
    <2>2. ASSUME NEW i \in Inodes, Rot(i) PROVE Holds
      <3>1. budget'.rots > budget.rots
        BY <1>1, <2>2, RotCounted DEF Rot
      <3> QED
        BY <3>1
    <2>3. CASE ScrubOpen
      <3> DEFINE o == scrub.digest
                 i == blob[o]
      <3>1. /\ o \in Objects /\ set[o] # None /\ set[o].of = Is(o) /\ scrub \in ScrubState
        BY <1>1, <2>3 DEF ScrubOpen, CasInv, CasTypeOK, ScrubIsTrue, ScrubState
      <3>2. CASE i = None
        BY <2>3, <3>2 DEF ScrubOpen
      <3>3. CASE i # None
        <4>1. i \in Inodes /\ content[i].obj = o
          BY <1>1, <3>1, <3>3, NamedIsAlive, AliveIsFile DEF CasInv, NamesAreTrue
        <4>2. /\ content' = [content EXCEPT ![i].state = "torn"]
              /\ scrub' = [scrub EXCEPT !.step = "write", !.inode = i]
          BY <2>3, <3>3 DEF ScrubOpen
        <4>3. scrub'.inode = i /\ scrub'.digest = o
          BY <3>1, <4>2 DEF ScrubState
        <4>4. \A j \in Inodes : j # i => content'[j] = content[j]
          BY <1>1, <4>2 DEF CasInv, CasTypeOK
        <4>5. Held(i)
          BY <3>1, <4>1, <4>3
        <4> HIDE DEF i, Held
        <4> QED
          BY <1>1, <4>4, <4>5, AliveIsFile DEF CasInv
      <3> QED
        BY <3>2, <3>3
    <2>4. CASE ScrubWrite
      <3>1. /\ scrub.digest \in Objects /\ scrub.inode \in Inodes
            /\ content[scrub.inode].obj = scrub.digest
            /\ Data([content EXCEPT ![scrub.inode] = Is(scrub.digest)])
        BY <1>1, <2>4, WritesToTorn DEF ScrubWrite
      <3>2. [content EXCEPT ![scrub.inode] = Is(scrub.digest)] \in [Inodes -> Content \cup {None}]
        BY <1>1, <3>1, ContentFacts DEF CasInv, CasTypeOK
      <3>3. \A i \in Inodes : i \in Alive' =>
              content'[i] = [content EXCEPT ![scrub.inode] = Is(scrub.digest)][i]
        BY <3>1, <3>2, DataOf
      <3>4. \A i \in Inodes : [content EXCEPT ![scrub.inode] = Is(scrub.digest)][i]
                             = IF i = scrub.inode THEN Is(scrub.digest) ELSE content[i]
        BY <1>1, <3>1 DEF CasInv, CasTypeOK
      <3> QED
        BY <1>1, <3>1, <3>3, <3>4, AliveIsFile DEF CasInv
    <2>5. CASE Same
      BY <2>5 DEF Same
    <2> QED
      BY <1>1, <2>1, <2>2, <2>3, <2>4, <2>5, BytesKept
  <1>2. CasInv /\ CasInv' /\ [CasNext]_vars =>
          [\A i \in Alive : i \in Alive' /\ content'[i] # content[i] =>
             LET o == content[i].obj IN
             \/ budget'.rots > budget.rots
             \/ scrub'.inode = i /\ scrub'.digest = o /\ set[o] # None /\ set[o].of = Is(o)
             \/ scrub.inode = i /\ content'[i] = Is(o)]_vars
    BY <1>1
  <1>3. CasSpec => []CasInv
    BY CasInvariant
  <1> QED
    BY <1>2, <1>3, PTL DEF CasSpec, RepairsHoldTheObject

=============================================================================
