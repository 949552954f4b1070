--------------------------- MODULE ServicesProofs ---------------------------
(***************************************************************************)
(* Proofs about modules Images, Scaling, Hosts and SecurityGroups, for     *)
(* every value of their constants, and about the run of MCServices, which  *)
(* moves one of six components: what holds of each of them holds there.    *)
(***************************************************************************)
EXTENDS MCServices, SnapshotProofs, PublisherProofs, FiniteSetTheorems,
        SequenceTheorems, TLAPS

----------------------------------------------------------------------------
(* Images: the inductive invariant.                                        *)

\* What p has written is in its file: nobody has truncated it since.
Written(p) == \A b \in Blocks : b < fetch[p].next => b \in content[fetch[p].file]

\* A fetcher that has created no file finds none of its name.
Fresh ==
  \A p \in Fetchers : fetch[p].pc \in {"idle", "create"} =>
    /\ fetch[p].next = 1 /\ tmp # p /\ image # p
    /\ \A q \in Fetchers : Open(q) => fetch[q].file # p

Opened ==
  \A p \in Fetchers :
    /\ Open(p) => fetch[p].file \in Fetchers
    /\ fetch[p].pc = "rename" => fetch[p].next = Size + 1

Apart == tmp # NoFile => tmp # image

\* A file whose writers never overlapped has all they wrote, and as long as it
\* has the temporary name every writer writes to it.
Alone == \A p \in Fetchers : Open(p) /\ fetch[p].file \notin overlapped => Written(p)
Current ==
  \A p \in Fetchers : tmp # NoFile /\ tmp \notin overlapped /\ Open(p) => fetch[p].file = tmp

\* The last that created a file fills it, unless it gives up.
Filled(f) ==
  \/ content[f] = Blocks
  \/ f \in givenUp
  \/ \E p \in Fetchers : Open(p) /\ fetch[p].file = f /\ Written(p)
Filling == \A f \in Fetchers : f \in {tmp, image} => Filled(f)

Whole == image # NoFile /\ image \notin overlapped => content[image] = Blocks

ImagesInv ==
  /\ ImagesTyped /\ Fresh /\ Opened /\ Apart
  /\ Alone /\ Current /\ Filling /\ Whole

----------------------------------------------------------------------------
(* Images: type correctness.                                                  *)

LEMMA ImagesInitTyped == ASSUME FileAssumption, ImagesInit PROVE ImagesTyped
BY DEF FileAssumption, ImagesInit, ImagesTyped, File, Fetch

LEMMA UnfinishedTyped ==
  ASSUME Opened, NEW p \in Fetchers
  PROVE  Unfinished(p) \subseteq Fetchers
BY DEF Opened, Unfinished

LEMMA ImagesNextTyped ==
  ASSUME FileAssumption, ImagesTyped, Opened, [ImagesNext]_imageVars
  PROVE  ImagesTyped'
<1> USE DEF ImagesTyped, File, FetchAt
<1>1. ASSUME NEW p \in Fetchers, Stat(p) \/ CreateFails(p) \/ Get(p) \/ RenameFails(p)
      PROVE  ImagesTyped'
  BY <1>1 DEF Stat, CreateFails, Get, RenameFails, Fetch
<1>2. ASSUME NEW p \in Fetchers, CreateFile(p)
      PROVE  ImagesTyped'
  <2> DEFINE f == IF tmp = NoFile THEN p ELSE tmp
  <2>1. f \in Fetchers
    OBVIOUS
  <2> HIDE DEF f
  <2>2. fetch' \in [Fetchers -> Fetch]
    BY <1>2, <2>1 DEF CreateFile, Fetch, f
  <2>3. tmp' = f /\ content' = [content EXCEPT ![f] = {}]
    BY <1>2 DEF CreateFile, f
  <2>4. overlapped' \subseteq Fetchers
    BY <1>2, <2>1 DEF CreateFile, f
  <2> QED
    BY <1>2, <2>1, <2>2, <2>3, <2>4 DEF CreateFile
<1>3. ASSUME NEW p \in Fetchers, Copy(p)
      PROVE  ImagesTyped'
  <2>1. fetch[p] \in Fetch
    OBVIOUS
  <2>2. fetch' \in [Fetchers -> Fetch]
    BY <1>3, <2>1 DEF Copy, Fetch, FileAssumption
  <2>3. content' \in [Fetchers -> SUBSET Blocks]
    BY <1>3, <2>1 DEF Copy, Fetch, Blocks, FileAssumption
  <2> QED
    BY <1>3, <2>2, <2>3 DEF Copy
<1>4. ASSUME NEW p \in Fetchers, Rename(p)
      PROVE  ImagesTyped'
  BY <1>4 DEF Rename, Fetch
<1>5. ASSUME NEW p \in Fetchers, Remove(p)
      PROVE  ImagesTyped'
  BY <1>5, UnfinishedTyped DEF Remove, Fetch
<1>6. CASE FetchersDie
  BY <1>6, UnfinishedTyped DEF FetchersDie, Fetch
<1>7. CASE UNCHANGED imageVars
  BY <1>7 DEF imageVars
<1> QED
  BY <1>1, <1>2, <1>3, <1>4, <1>5, <1>6, <1>7 DEF ImagesNext

----------------------------------------------------------------------------
(* Every step keeps the invariant.                                         *)

LEMMA ImagesInitKeeps == ASSUME FileAssumption, ImagesInit PROVE ImagesInv
<1>1. ImagesTyped
  BY ImagesInitTyped
<1>2. tmp = NoFile /\ image = NoFile /\ NoFile \notin Fetchers
  BY DEF ImagesInit, FileAssumption
<1>3. \A p \in Fetchers : fetch[p].pc = "idle" /\ fetch[p].next = 1
  BY DEF ImagesInit
<1> QED
  BY <1>1, <1>2, <1>3 DEF ImagesInv, Fresh, Opened, Apart, Alone, Current, Filling, Whole, Open

\* A fetcher that stays, or does not become, a writer.
Same(q) ==
  /\ fetch'[q].file = fetch[q].file /\ fetch'[q].next = fetch[q].next
  /\ Open(q)' <=> Open(q)
  /\ fetch'[q].pc = "rename" => fetch[q].next = Size + 1
  /\ fetch'[q].pc \in {"idle", "create"} => fetch[q].pc \in {"idle", "create"}

LEMMA SameKeeps ==
  ASSUME ImagesInv, ImagesTyped', UNCHANGED <<tmp, image, content, overlapped, givenUp>>,
         \A q \in Fetchers : Same(q)
  PROVE  ImagesInv'
<1>1. \A q \in Fetchers : Written(q)' <=> Written(q)
  BY DEF Written, Same
<1>2. Fresh' /\ Opened' /\ Apart' /\ Whole'
  BY DEF ImagesInv, Fresh, Opened, Apart, Whole, Same
<1>3. Alone' /\ Current'
  BY <1>1 DEF ImagesInv, Alone, Current, Same
<1>4. Filling'
  BY <1>1 DEF ImagesInv, Filling, Filled, Same
<1> QED
  BY <1>2, <1>3, <1>4 DEF ImagesInv

CopyEnds(p) ==
  /\ fetch[p].pc = "copy" /\ UNCHANGED <<tmp, image, content, overlapped, givenUp>>
  /\ FetchAt(p, "remove") \/ (fetch[p].next > Size /\ FetchAt(p, "rename"))

LEMMA TurnKeeps ==
  ASSUME FileAssumption, ImagesInv, ImagesTyped', NEW p \in Fetchers,
         \/ Stat(p) \/ CreateFails(p) \/ Get(p) \/ RenameFails(p)
         \/ CopyEnds(p)
  PROVE  ImagesInv'
<1>1. UNCHANGED <<tmp, image, content, overlapped, givenUp>>
  BY DEF Stat, CreateFails, Get, RenameFails, CopyEnds
<1>2. fetch[p] \in Fetch
  BY DEF ImagesInv, ImagesTyped
<1>3. ASSUME NEW q \in Fetchers, q # p
      PROVE  Same(q)
  <2>1. fetch'[q] = fetch[q]
    BY <1>3 DEF Stat, CreateFails, Get, RenameFails, CopyEnds, FetchAt, ImagesInv, ImagesTyped
  <2> QED
    BY <2>1 DEF Same, Open, ImagesInv, Opened
<1>4. Same(p)
  <2>1. \E pc \in {"exists", "create", "failed", "copy", "remove", "rename"} :
          /\ fetch' = [fetch EXCEPT ![p].pc = pc]
          /\ \/ fetch[p].pc = "idle" /\ pc \in {"exists", "create", "failed"}
             \/ fetch[p].pc = "create" /\ pc = "failed"
             \/ fetch[p].pc = "get" /\ pc \in {"copy", "remove"}
             \/ fetch[p].pc = "rename" /\ pc = "remove"
             \/ fetch[p].pc = "copy" /\ pc = "remove"
             \/ fetch[p].pc = "copy" /\ pc = "rename" /\ fetch[p].next > Size
    <3>1. CASE CopyEnds(p)
      BY <3>1 DEF CopyEnds, FetchAt
    <3>2. CASE Stat(p) \/ CreateFails(p) \/ Get(p) \/ RenameFails(p)
      BY <3>2 DEF Stat, CreateFails, Get, RenameFails, FetchAt
    <3> QED
      BY <3>1, <3>2
  <2>2. PICK pc \in {"exists", "create", "failed", "copy", "remove", "rename"} :
          /\ fetch'[p] = [fetch[p] EXCEPT !.pc = pc]
          /\ \/ fetch[p].pc = "idle" /\ pc \in {"exists", "create", "failed"}
             \/ fetch[p].pc = "create" /\ pc = "failed"
             \/ fetch[p].pc = "get" /\ pc \in {"copy", "remove"}
             \/ fetch[p].pc = "rename" /\ pc = "remove"
             \/ fetch[p].pc = "copy" /\ pc = "remove"
             \/ fetch[p].pc = "copy" /\ pc = "rename" /\ fetch[p].next > Size
    BY <2>1 DEF ImagesInv, ImagesTyped
  <2>3. /\ fetch'[p].pc = pc /\ fetch'[p].file = fetch[p].file
        /\ fetch'[p].next = fetch[p].next
    BY <1>2, <2>2 DEF Fetch
  <2>4. fetch[p].next > Size => fetch[p].next = Size + 1
    BY <1>2 DEF Fetch, FileAssumption
  <2> QED
    BY <2>2, <2>3, <2>4 DEF Same, Open
<1> QED
  BY <1>1, <1>3, <1>4, SameKeeps

\* A block more is in its file.
LEMMA CopyKeeps ==
  ASSUME FileAssumption, ImagesInv, ImagesTyped', NEW p \in Fetchers, Copy(p)
  PROVE  ImagesInv'
<1> DEFINE f == fetch[p].file
           n == fetch[p].next
<1>1. CASE CopyEnds(p)
  BY <1>1, TurnKeeps
<1>2. CASE /\ n <= Size
           /\ content' = [content EXCEPT ![f] = @ \cup {n}]
           /\ fetch' = [fetch EXCEPT ![p].next = n + 1]
  <2>1. /\ UNCHANGED <<tmp, image, overlapped, givenUp>>
        /\ fetch[p].pc = "copy" /\ n \in Blocks /\ f \in Fetchers
    BY <1>2 DEF Copy, ImagesInv, ImagesTyped, Opened, Open, Fetch, Blocks, FileAssumption
  <2>2. /\ \A q \in Fetchers : fetch'[q].pc = fetch[q].pc /\ fetch'[q].file = fetch[q].file
        /\ \A q \in Fetchers \ {p} : fetch'[q] = fetch[q]
        /\ fetch'[p].next = n + 1
    BY <1>2 DEF ImagesInv, ImagesTyped, Fetch
  <2>3. /\ \A g \in Fetchers : content[g] \subseteq content'[g]
        /\ content'[f] = content[f] \cup {n}
        /\ \A g \in Fetchers : content[g] \subseteq Blocks /\ content'[g] \subseteq Blocks
    BY <1>2, <2>1 DEF ImagesInv, ImagesTyped
  <2>4. \A q \in Fetchers : Open(q)' <=> Open(q)
    BY <2>2 DEF Open
  <2>5. ASSUME NEW q \in Fetchers, Open(q), Written(q)
        PROVE  Written(q)'
    <3>1. fetch[q].file \in Fetchers
      BY <2>5 DEF ImagesInv, Opened
    <3>2. CASE q # p
      BY <2>5, <3>1, <3>2, <2>2, <2>3 DEF Written
    <3>3. CASE q = p
      <4>1. \A b \in Blocks : b < n + 1 => b < n \/ b = n
        BY <2>1 DEF Blocks, FileAssumption
      <4> QED
        BY <2>5, <3>3, <4>1, <2>2, <2>3 DEF Written
    <3> QED
      BY <3>2, <3>3
  <2>6. Fresh' /\ Opened' /\ Apart'
    <3>1. \A q \in Fetchers : fetch[q].pc \in {"idle", "create", "rename"} => fetch'[q] = fetch[q]
      BY <2>1, <2>2
    <3> QED
      BY <2>1, <2>2, <2>4, <3>1 DEF ImagesInv, Fresh, Opened, Apart
  <2>7. Alone' /\ Current'
    BY <2>1, <2>2, <2>4, <2>5 DEF ImagesInv, Alone, Current
  <2>8. Filling'
    <3> SUFFICES ASSUME NEW g \in Fetchers, g \in {tmp, image}
                 PROVE  Filled(g)'
      BY <2>1 DEF Filling
    <3>1. Filled(g)
      BY DEF ImagesInv, Filling
    <3>2. CASE content[g] = Blocks
      BY <3>2, <2>3 DEF Filled
    <3>3. CASE g \in givenUp
      BY <3>3, <2>1 DEF Filled
    <3>4. ASSUME NEW q \in Fetchers, Open(q), fetch[q].file = g, Written(q)
          PROVE  Filled(g)'
      <4>1. Open(q)' /\ Written(q)'
        BY <3>4, <2>4, <2>5
      <4>2. fetch'[q].file = g
        BY <3>4, <2>2
      <4> QED
        BY <4>1, <4>2 DEF Filled
    <3> QED
      BY <3>1, <3>2, <3>3, <3>4 DEF Filled
  <2>9. Whole'
    BY <2>1, <2>3 DEF ImagesInv, Whole, ImagesTyped, File
  <2> QED
    BY <2>6, <2>7, <2>8, <2>9 DEF ImagesInv
<1> QED
  BY <1>1, <1>2 DEF Copy, CopyEnds

\* A file is created, or truncated: it was, or becomes, one that overlapped
\* unless nobody was writing.
LEMMA CreateFileKeeps ==
  ASSUME FileAssumption, ImagesInv, ImagesTyped', NEW p \in Fetchers, CreateFile(p)
  PROVE  ImagesInv'
<1>1. PICK f \in Fetchers : f = IF tmp = NoFile THEN p ELSE tmp
  BY DEF ImagesInv, ImagesTyped, File
<1>2. /\ fetch[p].pc = "create" /\ UNCHANGED <<image, givenUp>>
      /\ tmp' = f
      /\ \A q \in Fetchers \ {p} : fetch'[q] = fetch[q]
      /\ overlapped \subseteq overlapped'
      /\ (\E q \in Fetchers : Open(q)) => f \in overlapped'
  BY <1>1 DEF CreateFile, ImagesInv, ImagesTyped
<1>3. /\ fetch'[p].pc = "get" /\ fetch'[p].file = f /\ fetch'[p].next = 1
  BY <1>1 DEF CreateFile, ImagesInv, ImagesTyped, Fetch, Fresh
<1>4. \A g \in Fetchers : g # f => content'[g] = content[g]
  BY <1>1 DEF CreateFile, ImagesInv, ImagesTyped
<1>5. f # image /\ f # NoFile
  BY <1>1, <1>2 DEF ImagesInv, Fresh, Apart, FileAssumption
<1>6. \A q \in Fetchers : q # p /\ fetch[q].pc \in {"idle", "create"} => f # q
  BY <1>1, <1>2 DEF ImagesInv, Fresh
<1>7. /\ Open(p)' /\ ~Open(p)
      /\ \A q \in Fetchers \ {p} : Open(q)' <=> Open(q)
  BY <1>2, <1>3 DEF Open
<1>8. Written(p)'
  BY <1>3 DEF Written, Blocks, FileAssumption
<1>9. Fresh'
  BY <1>2, <1>3, <1>6, <1>7 DEF ImagesInv, Fresh
<1>10. Opened' /\ Apart'
  BY <1>2, <1>3, <1>5, <1>7 DEF ImagesInv, Opened, Apart
<1>11. Alone'
  <2> SUFFICES ASSUME NEW q \in Fetchers, q # p, Open(q), fetch[q].file \notin overlapped'
               PROVE  Written(q)'
    BY <1>2, <1>7, <1>8 DEF Alone
  <2>1. fetch[q].file # f /\ fetch[q].file \in Fetchers /\ Written(q)
    BY <1>2 DEF ImagesInv, Alone, Opened
  <2> QED
    BY <2>1, <1>2, <1>4 DEF Written
<1>12. Current'
  BY <1>2, <1>3, <1>7 DEF Current
<1>13. Filling'
  <2>1. Filled(f)'
    BY <1>3, <1>7, <1>8 DEF Filled
  <2>2. ASSUME NEW g \in Fetchers, g # f, g = image
        PROVE  Filled(g)'
    <3>1. Filled(g)
      BY <2>2 DEF ImagesInv, Filling
    <3>2. ASSUME NEW q \in Fetchers, Open(q), fetch[q].file = g, Written(q)
          PROVE  Open(q)' /\ fetch'[q].file = g /\ Written(q)'
      BY <2>2, <3>2, <1>2, <1>4, <1>7 DEF Written
    <3> QED
      BY <2>2, <3>1, <3>2, <1>2, <1>4 DEF Filled
  <2> QED
    BY <2>1, <2>2, <1>2 DEF Filling
<1>14. Whole'
  BY <1>2, <1>4, <1>5 DEF ImagesInv, Whole, ImagesTyped, File
<1> QED
  BY <1>9, <1>10, <1>11, <1>12, <1>13, <1>14 DEF ImagesInv

\* A writer that is done has all blocks in the file.
LEMMA DoneIsWhole ==
  ASSUME FileAssumption, ImagesInv, NEW p \in Fetchers, Open(p), Written(p), fetch[p].next > Size
  PROVE  content[fetch[p].file] = Blocks
<1>1. fetch[p].file \in Fetchers /\ fetch[p].next = Size + 1
  BY DEF ImagesInv, ImagesTyped, Fetch, Opened, FileAssumption
<1>2. \A b \in Blocks : b < Size + 1
  BY DEF Blocks, FileAssumption
<1> QED
  BY <1>1, <1>2 DEF Written, ImagesInv, ImagesTyped

\* Writers stop: in the end, in failure or in a crash.
LEMMA StopKeeps ==
  ASSUME FileAssumption, ImagesInv, ImagesTyped', UNCHANGED <<content, overlapped>>,
         givenUp \subseteq givenUp',
         \A q \in Fetchers :
           \/ fetch'[q] = fetch[q]
           \/ fetch'[q].pc \in {"failed", "exists"} /\ Unfinished(q) \subseteq givenUp',
         \/ image' = image /\ tmp' \in {tmp, NoFile}
         \/ image' = tmp /\ tmp' = NoFile /\ Whole'
  PROVE  ImagesInv'
<1>1. \A q \in Fetchers :
        /\ Open(q)' \/ fetch'[q].pc \in {"idle", "create"} => fetch'[q] = fetch[q]
        /\ Open(q)' => Open(q)
  BY DEF Open
<1>2. Fresh' /\ Opened'
  <2>1. \A q \in Fetchers : NoFile # q
    BY DEF FileAssumption
  <2> QED
    BY <1>1, <2>1 DEF ImagesInv, Fresh, Opened, Open
<1>3. Apart'
  BY DEF ImagesInv, Apart
<1>4. Alone' /\ Current'
  BY <1>1 DEF ImagesInv, Alone, Current, Written
<1>5. Filling'
  <2> SUFFICES ASSUME NEW f \in Fetchers, f \in {tmp, image}
               PROVE  Filled(f)'
    BY DEF Filling, FileAssumption
  <2>1. Filled(f)
    BY DEF ImagesInv, Filling
  <2>2. ASSUME NEW q \in Fetchers, Open(q), fetch[q].file = f, Written(q)
        PROVE  Filled(f)'
    <3>1. CASE fetch'[q] = fetch[q]
      BY <2>2, <3>1 DEF Filled, Open, Written
    <3>2. CASE Unfinished(q) \subseteq givenUp' /\ fetch[q].next <= Size
      BY <2>2, <3>2 DEF Filled, Unfinished
    <3>3. CASE fetch[q].next > Size
      BY <2>2, <3>3, DoneIsWhole DEF Filled
    <3>4. fetch[q].next <= Size \/ fetch[q].next > Size
      BY DEF ImagesInv, ImagesTyped, Fetch, FileAssumption
    <3> QED
      BY <3>1, <3>2, <3>3, <3>4
  <2> QED
    BY <2>1, <2>2 DEF Filled
<1>6. Whole'
  BY DEF ImagesInv, Whole
<1> QED
  BY <1>2, <1>3, <1>4, <1>5, <1>6 DEF ImagesInv

LEMMA RenameKeeps ==
  ASSUME FileAssumption, ImagesInv, ImagesTyped', NEW p \in Fetchers, Rename(p)
  PROVE  ImagesInv'
<1>1. /\ fetch[p].pc = "rename" /\ tmp # NoFile /\ image' = tmp /\ tmp' = NoFile
      /\ UNCHANGED <<content, overlapped, givenUp>>
      /\ fetch'[p].pc = "exists"
      /\ \A q \in Fetchers \ {p} : fetch'[q] = fetch[q]
  BY DEF Rename, FetchAt, ImagesInv, ImagesTyped, Fetch
<1>2. Open(p) /\ fetch[p].next = Size + 1
  BY <1>1 DEF Open, ImagesInv, Opened
<1>3. ~(fetch[p].next <= Size) /\ fetch[p].next > Size
  BY <1>2 DEF FileAssumption
<1>4. Unfinished(p) \subseteq givenUp'
  BY <1>3 DEF Unfinished
<1>5. Whole'
  <2> SUFFICES ASSUME tmp \notin overlapped
               PROVE  content[tmp] = Blocks
    BY <1>1 DEF Whole
  <2>1. fetch[p].file = tmp
    BY <1>1, <1>2 DEF ImagesInv, Current
  <2>2. Written(p)
    BY <1>2, <2>1 DEF ImagesInv, Alone
  <2> QED
    BY <1>2, <1>3, <2>1, <2>2, DoneIsWhole
<1> QED
  BY <1>1, <1>4, <1>5, StopKeeps

LEMMA RemoveKeeps ==
  ASSUME FileAssumption, ImagesInv, ImagesTyped', NEW p \in Fetchers, Remove(p)
  PROVE  ImagesInv'
<1>1. /\ image' = image /\ tmp' \in {tmp, NoFile} /\ UNCHANGED <<content, overlapped>>
      /\ givenUp' = givenUp \cup Unfinished(p)
      /\ fetch'[p].pc = "failed"
      /\ \A q \in Fetchers \ {p} : fetch'[q] = fetch[q]
  BY DEF Remove, FetchAt, ImagesInv, ImagesTyped, Fetch
<1> QED
  BY <1>1, StopKeeps

LEMMA FetchersDieKeep ==
  ASSUME FileAssumption, ImagesInv, ImagesTyped', FetchersDie
  PROVE  ImagesInv'
<1>1. /\ UNCHANGED <<tmp, image, content, overlapped>>
      /\ givenUp' = givenUp \cup UNION {Unfinished(p) : p \in Fetchers}
  BY DEF FetchersDie
<1>2. \A q \in Fetchers : fetch'[q] = fetch[q] \/ fetch'[q].pc = "failed"
  BY DEF FetchersDie, ImagesInv, ImagesTyped, Fetch
<1>3. \A q \in Fetchers : Unfinished(q) \subseteq givenUp'
  BY <1>1
<1> QED
  BY <1>1, <1>2, <1>3, StopKeeps

LEMMA ImagesNextKeeps ==
  ASSUME FileAssumption, ImagesInv, [ImagesNext]_imageVars
  PROVE  ImagesInv'
<1>1. ImagesTyped'
  BY ImagesNextTyped DEF ImagesInv
<1>2. CASE UNCHANGED imageVars
  <2>1. \A q \in Fetchers : Same(q)
    BY <1>2 DEF imageVars, Same, Open, ImagesInv, Opened
  <2> QED
    BY <1>1, <1>2, <2>1, SameKeeps DEF imageVars
<1> QED
  BY <1>1, <1>2, TurnKeeps, CreateFileKeeps, CopyKeeps, RenameKeeps, RemoveKeeps, FetchersDieKeep
  DEF ImagesNext

----------------------------------------------------------------------------
(* Theorems.                                                               *)

LEMMA ImagesInductive == ASSUME FileAssumption PROVE ImagesSpec => []ImagesInv
<1>1. ImagesInit => ImagesInv
  BY ImagesInitKeeps
<1>2. ImagesInv /\ [ImagesNext]_imageVars => ImagesInv'
  BY ImagesNextKeeps
<1> QED
  BY <1>1, <1>2, PTL DEF ImagesSpec

\* The names, the files and the requests always have the shape of their types.
THEOREM FilesTyped == ASSUME FileAssumption PROVE ImagesSpec => []ImagesTyped
<1>1. ImagesInv => ImagesTyped
  BY DEF ImagesInv
<1> QED
  BY <1>1, ImagesInductive, PTL

\* The image under its name is always whole, or about to be, or was downloaded
\* by fetchers that overlapped and of which one was given up: with one download
\* at a time no launch finds a part of it (instance_infra.go:81-118).
THEOREM BaseImageIsWhole == ASSUME FileAssumption PROVE ImagesSpec => []ImageWhole
<1>1. ImagesInv => ImageWhole
  <2> SUFFICES ASSUME ImagesInv, image # NoFile
               PROVE  \/ content[image] = Blocks
                      \/ /\ image \in overlapped
                         /\ \/ \E p \in Fetchers : Open(p) /\ fetch[p].file = image
                            \/ image \in givenUp
    BY DEF ImageWhole
  <2>1. image \in Fetchers /\ Filled(image)
    BY DEF ImagesInv, ImagesTyped, File, Filling
  <2> QED
    BY <2>1 DEF ImagesInv, Whole, Filled
<1> QED
  BY <1>1, ImagesInductive, PTL

----------------------------------------------------------------------------
(* Scaling, the inductive invariant: a scale-out that has passed the check *)
(* counts as much as a machine it has made.                                *)

Counted == {h \in Handlers : scaler[h].pc = "create" /\ scaler[h].limited}

OursActive == ours \subseteq ActiveIn(TRUE)
Within ==
  Capacity > 0 =>
    Cardinality(ours) + Cardinality(Counted) < Capacity + Cardinality(Handlers)

ScalingInv == ScalingTyped /\ OursActive /\ Within

----------------------------------------------------------------------------
(* Scaling: type correctness.                                              *)

LEMMA FreeTyped == ASSUME ScaleAssumption PROVE Free \in Scaler
BY DEF ScaleAssumption, Free, Scaler, Ids

LEMMA FinishTyped ==
  ASSUME ScaleAssumption, ScalingTyped, NEW h \in Handlers, Finish(h)
  PROVE  scaler' \in [Handlers -> Scaler]
BY FreeTyped DEF ScalingTyped, Finish

LEMMA ScalingInitTyped == ASSUME ScaleAssumption, ScalingInit PROVE ScalingTyped
BY FreeTyped DEF ScalingInit, ScalingTyped, Row

LEMMA TurnOffTyped ==
  ASSUME ScalingTyped, NEW i \in Ids, TurnOff(i)
  PROVE  vms' \in [Ids -> Row] /\ ours' \in SUBSET Ids
BY DEF ScalingTyped, TurnOff, Row

LEMMA AddTyped ==
  ASSUME ScalingTyped, NEW i \in Ids, Add(i)
  PROVE  vms' \in [Ids -> Row]
BY DEF ScalingTyped, Add, Row

LEMMA ScalingNextTyped ==
  ASSUME ScaleAssumption, ScalingTyped, [ScalingNext]_scaleVars
  PROVE  ScalingTyped'
<1> USE DEF ScalingTyped
<1>1. ASSUME NEW h \in Handlers, NEW i \in Ids, Deliver(h, i)
      PROVE  ScalingTyped'
  <2>1. vms[i].home \in BOOLEAN
    BY DEF Row
  <2> QED
    BY <1>1, <2>1 DEF Deliver, Scaler
<1>2. ASSUME NEW h \in Handlers, Count(h)
      PROVE  ScalingTyped'
  <2>1. CASE Finish(h)
    BY <1>2, <2>1, FinishTyped DEF Count
  <2>2. CASE ~Finish(h)
    <3>1. (scaler[h].home /\ Capacity > 0) \in BOOLEAN
      BY Zenon
    <3> DEFINE q == [scaler[h] EXCEPT !.pc = "create",
                                      !.limited = scaler[h].home /\ Capacity > 0]
    <3>2. q \in Scaler
      BY <3>1 DEF Scaler
    <3>3. scaler' = [scaler EXCEPT ![h] = q]
      BY <1>2, <2>2 DEF Count
    <3> QED
      BY <1>2, <3>2, <3>3 DEF Count
  <2> QED
    BY <2>1, <2>2
<1>3. ASSUME NEW h \in Handlers, CreateReplica(h)
      PROVE  ScalingTyped'
  BY <1>3, FinishTyped, AddTyped DEF CreateReplica
<1>4. ASSUME NEW h \in Handlers, Find(h)
      PROVE  ScalingTyped'
  <2>1. CASE Finish(h)
    BY <1>4, <2>1, FinishTyped DEF Find
  <2>2. CASE ~Finish(h)
    <3>1. PICK i \in Ids :
            scaler' = [scaler EXCEPT ![h] = [@ EXCEPT !.pc = "delete", !.target = i]]
      BY <1>4, <2>2 DEF Find, ActiveIn
    <3>2. [scaler[h] EXCEPT !.pc = "delete", !.target = i] \in Scaler
      BY DEF Scaler
    <3> QED
      BY <1>4, <3>1, <3>2 DEF Find
  <2> QED
    BY <2>1, <2>2
<1>5. ASSUME NEW h \in Handlers, Delete(h)
      PROVE  ScalingTyped'
  <2>1. scaler[h].target \in Ids
    BY DEF Scaler
  <2> QED
    BY <1>5, <2>1, FinishTyped, TurnOffTyped DEF Delete
<1>6. ASSUME NEW i \in Ids, Move(i)
      PROVE  ScalingTyped'
  BY <1>6 DEF Move, Row
<1>7. ASSUME NEW i \in Ids, Deactivate(i)
      PROVE  ScalingTyped'
  BY <1>7, TurnOffTyped DEF Deactivate
<1>8. ASSUME NEW i \in Ids, NEW st \in {"pending", "running"}, Activate(i, st)
      PROVE  ScalingTyped'
  BY <1>8 DEF Activate, Row
<1>9. CASE Launch
  BY <1>9, AddTyped DEF Launch
<1>10. CASE HandlersDie
  BY <1>10, FreeTyped DEF HandlersDie
<1>11. CASE UNCHANGED scaleVars
  BY <1>11 DEF scaleVars
<1> QED
  BY <1>1, <1>2, <1>3, <1>4, <1>5, <1>6, <1>7, <1>8, <1>9, <1>10, <1>11 DEF ScalingNext

\* Every reachable state of the scaling messages and their rows is well typed.
THEOREM RowsTyped == ASSUME ScaleAssumption PROVE ScalingSpec => []ScalingTyped
<1>1. ScalingInit => ScalingTyped
  BY ScalingInitTyped
<1>2. ScalingTyped /\ [ScalingNext]_scaleVars => ScalingTyped'
  BY ScalingNextTyped
<1> QED
  BY <1>1, <1>2, PTL DEF ScalingSpec

----------------------------------------------------------------------------
(* Counting.                                                               *)

\* Handlers are finitely many, and so are machines.
LEMMA Finite ==
  ASSUME ScaleAssumption, ScalingTyped
  PROVE  /\ IsFiniteSet(Counted) /\ Cardinality(Counted) \in Nat
         /\ IsFiniteSet(ours) /\ Cardinality(ours) \in Nat
         /\ Cardinality(Handlers) \in Nat /\ Cardinality(Counted) <= Cardinality(Handlers)
         /\ IsFiniteSet(ActiveIn(TRUE)) /\ Cardinality(ActiveIn(TRUE)) \in Nat
<1>1. Counted \in SUBSET Handlers
  BY DEF Counted
<1>2. IsFiniteSet(Ids)
  BY FS_Interval DEF ScaleAssumption, Ids
<1>3. ours \in SUBSET Ids /\ ActiveIn(TRUE) \in SUBSET Ids
  BY DEF ScalingTyped, ActiveIn
<1> QED
  BY <1>1, <1>2, <1>3, FS_Subset, FS_CardinalityType DEF ScaleAssumption

\* Nobody passes the check and the machines of scale-outs only become fewer.
LEMMA FewerKept ==
  ASSUME ScaleAssumption, ScalingTyped, ScalingTyped', Within,
         Counted' \subseteq Counted, ours' \subseteq ours
  PROVE  Within'
<1>1. Cardinality(Counted') <= Cardinality(Counted)
  BY Finite, FS_Subset
<1>2. Cardinality(ours') <= Cardinality(ours)
  BY Finite, FS_Subset
<1>3. /\ Cardinality(Counted') \in Nat /\ Cardinality(ours') \in Nat
      /\ Cardinality(Counted) \in Nat /\ Cardinality(ours) \in Nat
      /\ Cardinality(Handlers) \in Nat
  <2>1. IsFiniteSet(Counted') /\ IsFiniteSet(ours')
    BY Finite, FS_Subset
  <2> QED
    BY <2>1, Finite, FS_CardinalityType
<1> QED
  BY <1>1, <1>2, <1>3 DEF Within, ScaleAssumption

LEMMA Less ==
  ASSUME NEW k \in Nat, NEW n \in Nat, NEW active \in Nat, NEW made \in Nat,
         NEW counted \in Nat, made <= active, active < k, counted <= n
  PROVE  made + counted < k + n
OBVIOUS

\* The handlers that have passed the check after h has finished.
LEMMA FinishCounted ==
  ASSUME ScaleAssumption, ScalingTyped, NEW h \in Handlers, Finish(h)
  PROVE  Counted' = Counted \ {h}
BY DEF ScalingTyped, Finish, Free, Counted

----------------------------------------------------------------------------
(* The invariant.                                                          *)

LEMMA InitBound == ASSUME ScaleAssumption, ScalingInit PROVE OursActive /\ Within
<1>1. Counted = {}
  BY DEF ScalingInit, Counted, Free
<1>2. Cardinality(Handlers) \in Nat
  BY FS_CardinalityType DEF ScaleAssumption
<1> QED
  BY <1>1, <1>2, FS_EmptySet
     DEF ScalingInit, OursActive, Within, ScaleAssumption

LEMMA TurnOffBound ==
  ASSUME ScalingTyped, OursActive, NEW i \in Ids, TurnOff(i)
  PROVE  OursActive' /\ ours' \subseteq ours
BY DEF ScalingTyped, OursActive, TurnOff, ActiveIn, Active, Row

LEMMA AddActive ==
  ASSUME ScalingTyped, OursActive, NEW i \in Ids, Add(i)
  PROVE  /\ i \notin ours /\ i \in ActiveIn(TRUE)'
         /\ ours \subseteq ActiveIn(TRUE)'
BY DEF ScalingTyped, OursActive, Add, ActiveIn, Active, Exists, Row

LEMMA NextBound ==
  ASSUME ScaleAssumption, ScalingInv, ScalingTyped', [ScalingNext]_scaleVars
  PROVE  OursActive' /\ Within'
<1> USE DEF ScalingInv
<1>1. ASSUME NEW h \in Handlers, NEW i \in Ids, Deliver(h, i)
      PROVE  OursActive' /\ Within'
  <2>1. Counted' \subseteq Counted
    BY <1>1 DEF Deliver, Counted, ScalingTyped
  <2>2. OursActive' /\ ours' = ours
    BY <1>1 DEF Deliver, OursActive, ActiveIn, Active
  <2> QED
    BY <2>1, <2>2, FewerKept
<1>2. ASSUME NEW h \in Handlers, Count(h)
      PROVE  OursActive' /\ Within'
  <2>1. OursActive' /\ ours' = ours
    BY <1>2 DEF Count, OursActive, ActiveIn, Active
  <2>2. CASE Finish(h)
    BY <2>1, <2>2, FinishCounted, FewerKept
  <2>3. CASE ~Finish(h)
    <3> DEFINE own == scaler[h].home
    <3>1. /\ Capacity = 0 \/ Cardinality(ActiveIn(own)) < Capacity
          /\ scaler' = [scaler EXCEPT ![h].pc = "create",
                                      ![h].limited = own /\ Capacity > 0]
      BY <1>2, <2>3 DEF Count
    <3>2. CASE own /\ Capacity > 0
      <4>1. own = TRUE
        BY <3>2 DEF ScalingTyped, Scaler
      <4>2. Cardinality(ActiveIn(TRUE)) < Capacity
        <5>1. Capacity # 0
          BY <3>2 DEF ScaleAssumption
        <5>2. Cardinality(ActiveIn(own)) < Capacity
          BY <3>1, <5>1, Zenon
        <5> QED
          BY <4>1, <5>2, Zenon
      <4>3. Cardinality(ours) <= Cardinality(ActiveIn(TRUE))
        BY Finite, FS_Subset DEF OursActive
      <4>4. /\ Cardinality(Counted') <= Cardinality(Handlers)
            /\ Cardinality(Counted') \in Nat
        <5>1. Counted' \in SUBSET Handlers
          BY DEF Counted
        <5> QED
          BY <5>1, FS_Subset, FS_CardinalityType DEF ScaleAssumption
      <4>5. Cardinality(ours') = Cardinality(ours)
        BY <2>1
      <4>6. /\ Capacity \in Nat /\ Cardinality(ours) \in Nat
            /\ Cardinality(ActiveIn(TRUE)) \in Nat /\ Cardinality(Handlers) \in Nat
        BY Finite DEF ScaleAssumption
      <4>7. Cardinality(ours') + Cardinality(Counted') < Capacity + Cardinality(Handlers)
        BY <4>2, <4>3, <4>4, <4>5, <4>6, Less
      <4> QED
        BY <2>1, <4>7 DEF Within
    <3>3. CASE ~(own /\ Capacity > 0)
      <4>1. ~scaler'[h].limited
        <5>1. scaler'[h].limited = (own /\ Capacity > 0)
          BY <3>1 DEF ScalingTyped, Scaler
        <5> QED
          BY <3>3, <5>1
      <4>2. \A g \in Handlers \ {h} : scaler'[g] = scaler[g]
        BY <3>1 DEF ScalingTyped
      <4>3. Counted' \subseteq Counted
        BY <4>1, <4>2 DEF Counted
      <4> QED
        BY <2>1, <4>3, FewerKept
    <3> QED
      BY <3>2, <3>3
  <2> QED
    BY <2>2, <2>3
<1>3. ASSUME NEW h \in Handlers, CreateReplica(h)
      PROVE  OursActive' /\ Within'
  <2>1. Counted' = Counted \ {h} /\ scaler[h].pc = "create"
    BY <1>3, FinishCounted DEF CreateReplica
  <2>2. CASE UNCHANGED <<vms, ours>>
    <3>1. OursActive'
      BY <2>2 DEF OursActive, ActiveIn, Active
    <3> QED
      BY <2>1, <2>2, <3>1, FewerKept
  <2>3. ASSUME NEW i \in Ids, Add(i),
               ours' = IF scaler[h].limited THEN ours \cup {i} ELSE ours
        PROVE  OursActive' /\ Within'
    <3>1. i \notin ours /\ OursActive'
      BY <2>3, AddActive DEF OursActive
    <3>2. CASE scaler[h].limited
      <4>1. h \in Counted
        BY <2>1, <3>2 DEF Counted
      <4>2. Cardinality(Counted') = Cardinality(Counted) - 1
        BY <2>1, <4>1, Finite, FS_RemoveElement
      <4>3. Cardinality(ours') = Cardinality(ours) + 1
        BY <2>3, <3>1, <3>2, Finite, FS_AddElement
      <4> QED
        BY <3>1, <4>2, <4>3, Finite DEF Within, ScaleAssumption
    <3>3. CASE ~scaler[h].limited
      BY <2>1, <2>3, <3>1, <3>3, FewerKept
    <3> QED
      BY <3>2, <3>3
  <2> QED
    BY <1>3, <2>2, <2>3 DEF CreateReplica
<1>4. ASSUME NEW h \in Handlers, Find(h)
      PROVE  OursActive' /\ Within'
  <2>1. OursActive' /\ ours' = ours
    BY <1>4 DEF Find, OursActive, ActiveIn, Active
  <2>2. Counted' \subseteq Counted
    <3>1. CASE Finish(h)
      BY <3>1, FinishCounted
    <3>2. CASE ~Finish(h)
      <4>1. PICK i \in Ids :
              scaler' = [scaler EXCEPT ![h] = [@ EXCEPT !.pc = "delete", !.target = i]]
        BY <1>4, <3>2 DEF Find, ActiveIn
      <4>2. scaler'[h].pc = "delete" /\ \A g \in Handlers \ {h} : scaler'[g] = scaler[g]
        BY <4>1 DEF ScalingTyped, Scaler
      <4> QED
        BY <4>2 DEF Counted
    <3> QED
      BY <3>1, <3>2
  <2> QED
    BY <2>1, <2>2, FewerKept
<1>5. ASSUME NEW h \in Handlers, Delete(h)
      PROVE  OursActive' /\ Within'
  <2>1. scaler[h].target \in Ids
    BY DEF ScalingTyped, Scaler
  <2>2. OursActive' /\ ours' \subseteq ours
    <3>1. CASE TurnOff(scaler[h].target)
      BY <2>1, <3>1, TurnOffBound
    <3>2. CASE UNCHANGED <<vms, ours>>
      BY <3>2 DEF OursActive, ActiveIn, Active
    <3> QED
      BY <1>5, <3>1, <3>2 DEF Delete
  <2> QED
    BY <1>5, <2>2, FinishCounted, FewerKept DEF Delete
<1>6. ASSUME NEW i \in Ids, Move(i)
      PROVE  OursActive' /\ Within'
  <2>1. OursActive' /\ ours' \subseteq ours
    BY <1>6 DEF Move, OursActive, ActiveIn, Active, ScalingTyped, Row
  <2>2. Counted' = Counted
    BY <1>6 DEF Move, Counted
  <2> QED
    BY <2>1, <2>2, FewerKept
<1>7. ASSUME NEW i \in Ids, Deactivate(i)
      PROVE  OursActive' /\ Within'
  <2>1. Counted' = Counted
    BY <1>7 DEF Deactivate, Counted
  <2> QED
    BY <1>7, <2>1, TurnOffBound, FewerKept DEF Deactivate
<1>8. ASSUME NEW i \in Ids, NEW st \in {"pending", "running"}, Activate(i, st)
      PROVE  OursActive' /\ Within'
  <2>1. OursActive' /\ ours' = ours
    BY <1>8 DEF Activate, OursActive, ActiveIn, Active, ScalingTyped, Row
  <2>2. Counted' = Counted
    BY <1>8 DEF Activate, Counted
  <2> QED
    BY <2>1, <2>2, FewerKept
<1>9. CASE Launch
  <2>1. OursActive' /\ ours' = ours
    BY <1>9, AddActive DEF Launch, OursActive
  <2>2. Counted' = Counted
    BY <1>9 DEF Launch, Counted
  <2> QED
    BY <2>1, <2>2, FewerKept
<1>10. CASE HandlersDie
  <2>1. OursActive' /\ ours' = ours
    BY <1>10 DEF HandlersDie, OursActive, ActiveIn, Active
  <2>2. Counted' \subseteq Counted
    BY <1>10 DEF HandlersDie, Counted, Free
  <2> QED
    BY <2>1, <2>2, FewerKept
<1>11. CASE UNCHANGED scaleVars
  <2>1. OursActive' /\ Counted' = Counted /\ ours' = ours
    BY <1>11 DEF scaleVars, OursActive, ActiveIn, Active, Counted
  <2> QED
    BY <2>1, FewerKept
<1> QED
  BY <1>1, <1>2, <1>3, <1>4, <1>5, <1>6, <1>7, <1>8, <1>9, <1>10, <1>11 DEF ScalingNext

\* Scale-outs that run at the same time pass the maximum of the policy by at
\* most one machine for each further message: the check that each of them makes
\* before it creates a machine is what bounds them (scaling_service.go:57-76).
THEOREM OvershootIsBounded == ASSUME ScaleAssumption PROVE ScalingSpec => []OvershootBounded
<1>1. ScalingInit => ScalingInv
  BY ScalingInitTyped, InitBound DEF ScalingInv
<1>2. ScalingInv /\ [ScalingNext]_scaleVars => ScalingInv'
  BY ScalingNextTyped, NextBound DEF ScalingInv
<1>3. ScalingInv => OvershootBounded
  BY Finite DEF ScalingInv, Within, OvershootBounded, ScaleAssumption
<1> QED
  BY <1>1, <1>2, <1>3, PTL DEF ScalingSpec

----------------------------------------------------------------------------
(* Hosts: the inductive invariant.                                         *)

\* One selection at a time, and none without the mutex.
Exclusive ==
  /\ \A s, t \in Selectors : selection[s].pc # "idle" /\ selection[t].pc # "idle" => s = t
  /\ ~mu => \A s \in Selectors : selection[s].pc = "idle"

Chooses(s) == selection[s].pc \in {"advance", "pick"}
Nonempty == \A s \in Selectors : Chooses(s) => selection[s].hosts # <<>>

\* The index d places before o in a list of n, around its end.
Back(o, d, n) == IF d <= o THEN o - d ELSE o - d + n

\* The turns are the last ones up to index o of the list.
UpTo(o) ==
  /\ Len(turns) <= Len(listed)
  /\ listed # <<>> => turns # <<>> /\ o < Len(listed)
  /\ \A k \in 1..Len(turns) :
       turns[k] = listed[Back(o, Len(turns) - k, Len(listed)) + 1]

\* Between the advance and the pick the offset is one ahead of the last turn.
Rest == (\A s \in Selectors : selection[s].pc # "pick") => UpTo(offset)
Ahead ==
  \A s \in Selectors : selection[s].pc = "pick" =>
    /\ offset < Len(selection[s].hosts)
    /\ \E o \in Nat : /\ UpTo(o)
                      /\ selection[s].hosts = listed =>
                           offset = IF o + 1 = Len(listed) THEN 0 ELSE o + 1

HostsInv == HostsTyped /\ Exclusive /\ Nonempty /\ Rest /\ Ahead

----------------------------------------------------------------------------
(* Hosts: operators and type correctness.                                  *)

\* The offset stays inside the list and moves by one.
LEMMA NextTurn ==
  ASSUME NEW n \in Nat \ {0}, NEW o \in 0..n - 1
  PROVE  (o + 1) % n = IF o + 1 = n THEN 0 ELSE o + 1
OBVIOUS

LEMMA Remainder == ASSUME NEW n \in Nat \ {0}, NEW o \in Nat PROVE o % n \in 0..n - 1
OBVIOUS

LEMMA ListProperties ==
  ASSUME BestAssumption, NEW S, NEW l \in Lists(S)
  PROVE  /\ l \in Seq(S) /\ Len(l) \in Nat /\ Len(l) <= Best
         /\ l # <<>> => Len(l) > 0
         /\ \A i, j \in 1..Len(l) : l[i] = l[j] => i = j
<1>1. PICK n \in 0..Best : l \in [1..n -> S] /\ \A i, j \in 1..n : l[i] = l[j] => i = j
  BY DEF Lists
<1>2. n \in Nat /\ n <= Best
  BY <1>1 DEF BestAssumption
<1>3. l \in Seq(S) /\ Len(l) = n
  BY <1>1, <1>2, SeqDef, LenProperties
<1> QED
  BY <1>1, <1>2, <1>3

LEMMA ListsGrow == ASSUME NEW S, NEW T, S \subseteq T PROVE Lists(S) \subseteq Lists(T)
<1> SUFFICES ASSUME NEW l \in Lists(S) PROVE l \in Lists(T)
  OBVIOUS
<1>1. PICK n \in 0..Best : l \in [1..n -> S] /\ \A i, j \in 1..n : l[i] = l[j] => i = j
  BY DEF Lists
<1>2. l \in [1..n -> T]
  BY <1>1
<1> QED
  BY <1>1, <1>2 DEF Lists

LEMMA EmptyList == ASSUME BestAssumption, NEW S PROVE <<>> \in Lists(S)
<1>1. <<>> \in [1..0 -> S]
  OBVIOUS
<1>2. \A i, j \in 1..0 : (<<>>)[i] = (<<>>)[j] => i = j
  OBVIOUS
<1>3. 0 \in 0..Best
  BY DEF BestAssumption
<1> QED
  BY <1>1, <1>2, <1>3 DEF Lists

LEMMA HostsInitTyped == ASSUME BestAssumption, HostsInit PROVE HostsTyped
<1>1. <<>> \in Lists(HostIds)
  BY EmptyList
<1>2. [pc |-> "idle", hosts |-> <<>>] \in Selection
  BY <1>1 DEF Selection
<1>3. selection \in [Selectors -> Selection]
  BY <1>2 DEF HostsInit
<1>4. listed \in Lists(HostIds)
  BY <1>1 DEF HostsInit
<1>5. turns \in Seq(HostIds)
  BY DEF HostsInit
<1> QED
  BY <1>3, <1>4, <1>5 DEF HostsInit, HostsTyped

LEMMA Reset ==
  ASSUME BestAssumption, HostsTyped, NEW s \in Selectors, Unlocked(s)
  PROVE  /\ selection' \in [Selectors -> Selection] /\ mu' = FALSE
         /\ selection'[s].pc = "idle" /\ selection'[s].hosts = <<>>
         /\ \A t \in Selectors : t # s => selection'[t] = selection[t]
<1>1. [pc |-> "idle", hosts |-> <<>>] \in Selection
  BY EmptyList DEF Selection
<1> QED
  BY <1>1 DEF Unlocked, HostsTyped

LEMMA Proceeds ==
  ASSUME HostsTyped, NEW s \in Selectors, NEW pc \in {"idle", "query", "advance", "pick"},
         selection' = [selection EXCEPT ![s].pc = pc]
  PROVE  /\ selection' \in [Selectors -> Selection]
         /\ selection'[s].pc = pc /\ selection'[s].hosts = selection[s].hosts
         /\ \A t \in Selectors : t # s => selection'[t] = selection[t]
<1>1. [selection[s] EXCEPT !.pc = pc] \in Selection
  BY DEF HostsTyped, Selection
<1> QED
  BY <1>1 DEF HostsTyped, Selection

LEMMA HasList ==
  ASSUME BestAssumption, HostsTyped, NEW s \in Selectors,
         NEW l \in Lists(fresh) \ {<<>>},
         selection' = [selection EXCEPT ![s] = [pc |-> "advance", hosts |-> l]]
  PROVE  /\ selection' \in [Selectors -> Selection]
         /\ selection'[s].pc = "advance" /\ selection'[s].hosts = l
         /\ \A t \in Selectors : t # s => selection'[t] = selection[t]
<1>1. l \in Lists(HostIds)
  BY ListsGrow DEF HostsTyped
<1>2. [pc |-> "advance", hosts |-> l] \in Selection
  BY <1>1 DEF Selection
<1> QED
  BY <1>2 DEF HostsTyped

\* The list of a selection that chooses.
LEMMA Chosen ==
  ASSUME BestAssumption, HostsTyped, Nonempty, NEW s \in Selectors, Chooses(s)
  PROVE  /\ selection[s].hosts \in Lists(HostIds) /\ selection[s].hosts \in Seq(HostIds)
         /\ Len(selection[s].hosts) \in Nat \ {0}
<1>1. selection[s].hosts \in Lists(HostIds) /\ selection[s].hosts # <<>>
  BY DEF HostsTyped, Selection, Nonempty
<1> QED
  BY <1>1, ListProperties

LEMMA PickTyped ==
  ASSUME BestAssumption, HostsInv, NEW s \in Selectors, Pick(s)
  PROVE  HostsTyped'
<1> USE DEF HostsInv
<1> DEFINE l == selection[s].hosts
           recent == IF l # listed THEN <<>>
                     ELSE IF Len(turns) = Len(l) THEN Tail(turns) ELSE turns
<1>1. l \in Lists(HostIds) /\ l \in Seq(HostIds) /\ Len(l) \in Nat \ {0}
  BY Chosen DEF Pick, Chooses
<1>2. l[offset + 1] \in HostIds
  <2>1. offset + 1 \in 1..Len(l)
    BY <1>1 DEF Pick, Ahead, HostsTyped
  <2> HIDE DEF l
  <2> QED
    BY <1>1, <2>1, ElementOfSeq
<1>3. recent \in Seq(HostIds)
  <2>1. CASE l = listed /\ Len(turns) = Len(l)
    BY <1>1, <2>1 DEF HostsTyped
  <2> QED
    BY <2>1 DEF HostsTyped
<1>4. listed' = l /\ turns' = Append(recent, l[offset + 1])
  BY DEF Pick
<1>5. turns' \in Seq(HostIds)
  <2> HIDE DEF l, recent
  <2> QED
    BY <1>2, <1>3, <1>4
<1> QED
  BY <1>1, <1>4, <1>5, Reset DEF Pick, HostsTyped

LEMMA HostsNextTyped ==
  ASSUME BestAssumption, HostsInv, [HostsNext]_hostVars
  PROVE  HostsTyped'
<1> USE DEF HostsInv
<1>1. ASSUME NEW h \in HostIds, Heartbeat(h) \/ Expire(h)
      PROVE  HostsTyped'
  BY <1>1 DEF Heartbeat, Expire, HostsTyped
<1>2. ASSUME NEW s \in Selectors, Lock(s)
      PROVE  HostsTyped'
  BY <1>2, Proceeds DEF Lock, HostsTyped
<1>3. ASSUME NEW s \in Selectors, Query(s)
      PROVE  HostsTyped'
  BY <1>3, Reset, HasList DEF Query, HostsTyped
<1>4. ASSUME NEW s \in Selectors, Advance(s)
      PROVE  HostsTyped'
  <2>1. Len(selection[s].hosts) \in Nat \ {0} /\ offset + 1 \in Nat
    BY <1>4, Chosen DEF Advance, Chooses, HostsTyped
  <2>2. offset' \in Nat
    BY <1>4, <2>1, Remainder DEF Advance
  <2> QED
    BY <1>4, <2>2, Proceeds DEF Advance, HostsTyped
<1>5. CASE UNCHANGED hostVars
  BY <1>5 DEF hostVars, HostsTyped
<1> QED
  BY <1>1, <1>2, <1>3, <1>4, <1>5, PickTyped DEF HostsNext, Select

----------------------------------------------------------------------------
(* Hosts: what a step does to the parts.                                   *)

LEMMA HostsInitKeeps == ASSUME BestAssumption, HostsInit PROVE HostsInv
<1>1. \A s \in Selectors : selection[s].pc = "idle"
  BY DEF HostsInit
<1>2. Exclusive /\ Nonempty /\ Ahead
  BY <1>1 DEF HostsInit, Exclusive, Nonempty, Chooses, Ahead
<1>3. listed = <<>> /\ turns = <<>> /\ Len(turns) = 0 /\ Len(listed) = 0
  BY DEF HostsInit
<1>4. UpTo(offset)
  BY <1>3 DEF UpTo
<1> QED
  BY <1>2, <1>4, HostsInitTyped DEF HostsInv, Rest

LEMMA HostsKeep ==
  ASSUME BestAssumption, HostsInv, HostsTyped', UNCHANGED <<offset, listed, turns>>,
         UNCHANGED <<mu, selection>> \/ (\E s \in Selectors : Lock(s) \/ Query(s))
  PROVE  HostsInv'
<1> USE DEF HostsInv
<1>1. CASE UNCHANGED <<mu, selection>>
  BY <1>1 DEF Exclusive, Nonempty, Chooses, Rest, Ahead, UpTo
<1>2. ASSUME NEW s \in Selectors, Lock(s) \/ Query(s)
      PROVE  HostsInv'
  <2>1. /\ selection'[s].pc # "pick" /\ selection[s].pc # "pick"
        /\ ~mu' => selection'[s].pc = "idle"
        /\ Chooses(s)' => selection'[s].hosts # <<>>
        /\ \A t \in Selectors : t # s => selection'[t] = selection[t]
    <3>1. CASE Lock(s)
      BY <3>1, Proceeds DEF Lock, Chooses
    <3>2. CASE Query(s) /\ Unlocked(s)
      BY <3>2, Reset DEF Query, Chooses
    <3>3. CASE Query(s) /\ ~Unlocked(s)
      BY <3>3, HasList DEF Query, Chooses, Exclusive
    <3> QED
      BY <1>2, <3>1, <3>2, <3>3
  <2>2. \A t \in Selectors : t # s => selection[t].pc = "idle"
    BY <1>2 DEF Lock, Query, Exclusive
  <2>3. mu' \/ \A t \in Selectors : selection'[t].pc = "idle"
    BY <2>1, <2>2 DEF HostsTyped
  <2>4. Exclusive' /\ Nonempty'
    BY <2>1, <2>2, <2>3 DEF Exclusive, Nonempty, Chooses
  <2>5. Rest' /\ Ahead'
    BY <2>1, <2>2 DEF Rest, Ahead, UpTo
  <2> QED
    BY <2>4, <2>5
<1> QED
  BY <1>1, <1>2

LEMMA AdvanceKeeps ==
  ASSUME BestAssumption, HostsInv, HostsTyped', NEW s \in Selectors, Advance(s)
  PROVE  HostsInv'
<1> USE DEF HostsInv
<1> DEFINE l == selection[s].hosts
<1>1. /\ selection'[s].pc = "pick" /\ selection'[s].hosts = l
      /\ \A t \in Selectors : t # s => selection'[t] = selection[t]
  BY Proceeds DEF Advance
<1>2. mu /\ \A t \in Selectors : t # s => selection[t].pc = "idle"
  BY DEF Advance, Exclusive, HostsTyped
<1>3. Exclusive' /\ Nonempty'
  BY <1>1, <1>2 DEF Advance, Exclusive, Nonempty, Chooses
<1>4. UpTo(offset)
  BY <1>2 DEF Advance, Rest
<1>5. Len(l) \in Nat \ {0} /\ l # <<>>
  BY Chosen DEF Advance, Chooses, Nonempty
<1>6. offset' \in 0..Len(l) - 1
  BY <1>5, Remainder DEF Advance, HostsTyped
<1>7. l = listed => offset' = IF offset + 1 = Len(l) THEN 0 ELSE offset + 1
  <2> SUFFICES ASSUME l = listed
               PROVE  offset' = IF offset + 1 = Len(l) THEN 0 ELSE offset + 1
    OBVIOUS
  <2>1. offset \in 0..Len(l) - 1
    BY <1>4, <1>5 DEF UpTo, HostsTyped
  <2> QED
    BY <1>5, <2>1, NextTurn DEF Advance
<1>8. Ahead'
  <2> SUFFICES /\ offset' < Len(l)
               /\ \E o \in Nat :
                    /\ UpTo(o)'
                    /\ l = listed' =>
                         offset' = IF o + 1 = Len(listed') THEN 0 ELSE o + 1
    BY <1>1, <1>2 DEF Ahead
  <2>1. offset \in Nat
    BY DEF HostsTyped
  <2>2. UNCHANGED <<listed, turns>>
    BY DEF Advance
  <2>3. \E o \in Nat :
          /\ UpTo(o)
          /\ l = listed => offset' = IF o + 1 = Len(listed) THEN 0 ELSE o + 1
    BY <1>4, <1>7, <2>1
  <2>4. \A o \in Nat : UpTo(o) => UpTo(o)'
    BY <2>2 DEF UpTo
  <2> QED
    BY <1>5, <1>6, <2>2, <2>3, <2>4
<1> QED
  BY <1>1, <1>3, <1>8 DEF Rest

\* One step back from the next turn is the last one.
LEMMA BackOne ==
  ASSUME NEW n \in Nat, NEW o \in Nat, o < n, NEW d \in Nat, d + 1 < n
  PROVE  Back(IF o + 1 = n THEN 0 ELSE o + 1, d + 1, n) = Back(o, d, n)
BY DEF Back

LEMMA PickKeeps ==
  ASSUME BestAssumption, HostsInv, HostsTyped', NEW s \in Selectors, Pick(s)
  PROVE  HostsInv'
<1> USE DEF HostsInv
<1> DEFINE l == selection[s].hosts
           m == Len(turns)
           n == Len(listed)
<1>1. /\ mu' = FALSE /\ selection'[s].pc = "idle"
      /\ \A t \in Selectors : t # s => selection'[t] = selection[t]
  BY Reset DEF Pick
<1>2. \A t \in Selectors : selection'[t].pc = "idle"
  BY <1>1 DEF Pick, Exclusive
<1>3. Exclusive' /\ Nonempty' /\ Ahead'
  BY <1>2 DEF Exclusive, Nonempty, Chooses, Ahead
<1>4. /\ listed' = l /\ offset' = offset /\ offset \in Nat /\ offset < Len(l)
      /\ l \in Seq(HostIds) /\ Len(l) \in Nat \ {0} /\ l # <<>>
  BY Chosen DEF Pick, Chooses, Ahead, HostsTyped, Nonempty
<1>5. turns \in Seq(HostIds) /\ m \in Nat
  BY DEF HostsTyped
<1>6. l[offset + 1] \in HostIds
  <2>1. offset + 1 \in 1..Len(l)
    BY <1>4
  <2> HIDE DEF l
  <2> QED
    BY <1>4, <2>1, ElementOfSeq
<1>7. CASE l # listed
  <2>1. turns' = <<l[offset + 1]>>
    BY <1>7 DEF Pick
  <2>2. Len(turns') = 1 /\ turns' # <<>> /\ turns'[1] = l[Back(offset, 0, Len(l)) + 1]
    BY <1>4, <2>1 DEF Back
  <2>3. UpTo(offset)'
    BY <1>4, <2>2 DEF UpTo
  <2> QED
    BY <1>3, <2>3 DEF Rest
<1>8. CASE l = listed
  <2>1. PICK o \in Nat : UpTo(o) /\ offset = IF o + 1 = n THEN 0 ELSE o + 1
    BY <1>8 DEF Pick, Ahead
  <2>2. /\ n \in Nat /\ o < n /\ m <= n /\ m > 0
        /\ \A k \in 1..m : turns[k] = listed[Back(o, m - k, n) + 1]
    BY <1>4, <1>5, <1>8, <2>1 DEF UpTo
  <2>3. listed[offset + 1] = listed[Back(offset, 0, n) + 1]
    BY <1>4, <1>8 DEF Back
  <2>4. CASE m < n
    <3>1. turns' = Append(turns, l[offset + 1])
      BY <1>8, <2>4 DEF Pick
    <3>2. /\ Len(turns') = m + 1 /\ turns'[m + 1] = l[offset + 1] /\ turns' # <<>>
          /\ \A k \in 1..m : turns'[k] = turns[k]
      <4> HIDE DEF l
      <4> QED
        BY <1>5, <1>6, <3>1
    <3>3. ASSUME NEW k \in 1..m + 1
          PROVE  turns'[k] = listed[Back(offset, m + 1 - k, n) + 1]
      <4>1. CASE k = m + 1
        BY <1>5, <1>8, <2>3, <3>2, <4>1
      <4>2. CASE k # m + 1
        <5>1. k \in 1..m /\ m - k \in Nat /\ (m - k) + 1 < n /\ m + 1 - k = (m - k) + 1
          BY <1>5, <2>2, <2>4, <4>2
        <5>2. Back(offset, (m - k) + 1, n) = Back(o, m - k, n)
          BY <2>1, <2>2, <5>1, BackOne
        <5> QED
          BY <2>2, <3>2, <5>1, <5>2
      <4> QED
        BY <4>1, <4>2
    <3> QED
      BY <1>3, <1>4, <1>5, <1>8, <2>2, <2>4, <3>2, <3>3 DEF Rest, UpTo
  <2>5. CASE m = n
    <3>1. turns' = Append(Tail(turns), l[offset + 1])
      BY <1>8, <2>5 DEF Pick
    <3>2. /\ Len(turns') = m /\ turns'[m] = l[offset + 1] /\ turns' # <<>>
          /\ \A k \in 1..m - 1 : turns'[k] = turns[k + 1]
      <4>1. /\ Tail(turns) \in Seq(HostIds) /\ Len(Tail(turns)) = m - 1
            /\ \A k \in 1..m - 1 : Tail(turns)[k] = turns[k + 1]
        BY <1>5, <2>2
      <4> HIDE DEF l
      <4> QED
        BY <1>5, <1>6, <2>2, <3>1, <4>1
    <3>3. ASSUME NEW k \in 1..m
          PROVE  turns'[k] = listed[Back(offset, m - k, n) + 1]
      <4>1. CASE k = m
        BY <1>5, <1>8, <2>3, <3>2, <4>1
      <4>2. CASE k # m
        <5>1. /\ k \in 1..m - 1 /\ k + 1 \in 1..m /\ m - (k + 1) \in Nat
              /\ (m - (k + 1)) + 1 < n /\ m - k = (m - (k + 1)) + 1
          BY <1>5, <2>2, <2>5, <4>2
        <5>2. Back(offset, (m - (k + 1)) + 1, n) = Back(o, m - (k + 1), n)
          BY <2>1, <2>2, <5>1, BackOne
        <5> QED
          BY <2>2, <3>2, <5>1, <5>2
      <4> QED
        BY <4>1, <4>2
    <3> QED
      BY <1>3, <1>4, <1>5, <1>8, <2>2, <2>5, <3>2, <3>3 DEF Rest, UpTo
  <2> QED
    BY <1>5, <2>2, <2>4, <2>5
<1> QED
  BY <1>7, <1>8

LEMMA HostsNextKeeps ==
  ASSUME BestAssumption, HostsInv, [HostsNext]_hostVars
  PROVE  HostsInv'
<1>1. HostsTyped'
  BY HostsNextTyped
<1>2. CASE UNCHANGED hostVars
  BY <1>1, <1>2, HostsKeep DEF hostVars
<1>3. ASSUME NEW h \in HostIds, Heartbeat(h) \/ Expire(h)
      PROVE  HostsInv'
  BY <1>1, <1>3, HostsKeep DEF Heartbeat, Expire
<1>4. ASSUME NEW s \in Selectors, Lock(s) \/ Select(s)
      PROVE  HostsInv'
  <2>1. CASE Lock(s) \/ Query(s)
    BY <1>1, <2>1, HostsKeep DEF Lock, Query
  <2> QED
    BY <1>1, <1>4, <2>1, AdvanceKeeps, PickKeeps DEF Select
<1> QED
  BY <1>2, <1>3, <1>4 DEF HostsNext

----------------------------------------------------------------------------
(* Hosts: theorems.                                                        *)

\* The inductive invariant of the host selection holds.
LEMMA HostsInductive == ASSUME BestAssumption PROVE HostsSpec => []HostsInv
<1>1. HostsInit => HostsInv
  BY HostsInitKeeps
<1>2. HostsInv /\ [HostsNext]_hostVars => HostsInv'
  BY HostsNextKeeps
<1> QED
  BY <1>1, <1>2, PTL DEF HostsSpec

\* The registry and the selections always have the shape of their types; so every
\* turn is a host: the index never leaves the list (host_service.go:336-339).
THEOREM SelectionsTyped == ASSUME BestAssumption PROVE HostsSpec => []HostsTyped
<1>1. HostsInv => HostsTyped
  BY DEF HostsInv
<1> QED
  BY <1>1, HostsInductive, PTL

\* As long as the best hosts stay the same, launches take them in turn, whatever
\* selections run at the same time and however many lists came in between: the
\* offset is one for all of them and moves under the mutex
\* (host_service.go:322-339).
THEOREM HostsTakenInTurn == ASSUME BestAssumption PROVE HostsSpec => []TakesTurns
<1>1. ASSUME HostsInv, NEW o \in Nat, UpTo(o) PROVE TakesTurns
  <2> SUFFICES ASSUME NEW i \in 1..Len(turns), NEW j \in 1..Len(turns), turns[i] = turns[j]
               PROVE  i = j
    BY DEF TakesTurns
  <2> DEFINE n == Len(listed)
             a == Back(o, Len(turns) - i, n) + 1
             b == Back(o, Len(turns) - j, n) + 1
  <2>1. /\ n \in Nat /\ Len(turns) \in Nat /\ Len(turns) <= n /\ listed # <<>>
        /\ \A p, q \in 1..n : listed[p] = listed[q] => p = q
    BY <1>1, ListProperties DEF HostsInv, HostsTyped, UpTo
  <2>2. o < n
    BY <1>1, <2>1 DEF UpTo
  <2>3. a \in 1..n /\ b \in 1..n /\ (a = b => i = j)
    BY <2>1, <2>2 DEF Back
  <2>4. listed[a] = listed[b]
    BY <1>1 DEF UpTo
  <2> QED
    BY <2>1, <2>3, <2>4
<1>2. HostsInv => TakesTurns
  <2>1. HostsInv => \E o \in Nat : UpTo(o)
    BY DEF HostsInv, HostsTyped, Rest, Ahead
  <2> QED
    BY <1>1, <2>1
<1> QED
  BY <1>2, HostsInductive, PTL

----------------------------------------------------------------------------
(* Security groups: the inductive invariant.                               *)

IsDefault(g) == There(g) /\ groups[g].name = Default
Lets(g) == IsDefault(g) /\ groups[g].rules > 0

\* Unless a user has touched the group "default", a seed that goes on has it, and
\* one that has ended well leaves a rule in it.
Seeded(s) ==
  s \notin touched =>
    /\ seeders[s].pc \in {"look", "add"} => IsDefault(seeders[s].group)
    /\ seeders[s].pc = "ok" => \E g \in Groups : Lets(g)
GroupsInv == GroupsTyped /\ \A s \in Seeders : Seeded(s)

----------------------------------------------------------------------------
(* Security groups: operators and type correctness.                        *)

LEMMA GroupsInitTyped == ASSUME TitleAssumption, GroupsInit PROVE GroupsTyped
<1>1. (CHOOSE g \in Groups : TRUE) \in Groups
  BY DEF TitleAssumption
<1>2. NoGroup \in Group
  BY DEF TitleAssumption, NoGroup, Group
<1>3. seeders \in [Seeders -> Seeder]
  BY <1>1 DEF GroupsInit, Seeder
<1> QED
  BY <1>2, <1>3 DEF GroupsInit, GroupsTyped

LEMMA SeederMoves ==
  ASSUME GroupsTyped, NEW s \in Seeders,
         NEW pc \in {"find", "create", "look", "add", "ok", "failed"}, SeederAt(s, pc)
  PROVE  /\ seeders' \in [Seeders -> Seeder]
         /\ seeders'[s].pc = pc /\ seeders'[s].group = seeders[s].group
         /\ \A t \in Seeders : t # s => seeders'[t] = seeders[t]
<1>1. [seeders[s] EXCEPT !.pc = pc] \in Seeder
  BY DEF GroupsTyped, Seeder
<1> QED
  BY <1>1 DEF SeederAt, GroupsTyped, Seeder

LEMMA SeederFinds ==
  ASSUME GroupsTyped, NEW s \in Seeders, NEW g \in Groups,
         NEW pc \in {"look", "failed"},
         seeders' = [seeders EXCEPT ![s] = [pc |-> pc, group |-> g]]
  PROVE  /\ seeders' \in [Seeders -> Seeder]
         /\ seeders'[s].pc = pc /\ seeders'[s].group = g
         /\ \A t \in Seeders : t # s => seeders'[t] = seeders[t]
<1>1. [pc |-> pc, group |-> g] \in Seeder
  BY DEF Seeder
<1> QED
  BY <1>1 DEF GroupsTyped

\* A step of a user changes one row.
Edit(g, row) == row \in Group /\ groups' = [groups EXCEPT ![g] = row]

LEMMA Edited ==
  ASSUME GroupsTyped, NEW g \in Groups, NEW row, Edit(g, row)
  PROVE  /\ groups' \in [Groups -> Group] /\ groups'[g] = row
         /\ \A f \in Groups : f # g => groups'[f] = groups[f]
BY DEF Edit, GroupsTyped

LEMMA EditsTyped ==
  ASSUME TitleAssumption, GroupsTyped, NEW g \in Groups
  PROVE  /\ NoGroup \in Group
         /\ \A n \in Titles :
              /\ [NoGroup EXCEPT !.there = TRUE, !.name = n] \in Group
              /\ [groups[g] EXCEPT !.name = n] \in Group
         /\ groups[g].rules < MaxRules => [groups[g] EXCEPT !.rules = @ + 1] \in Group
         /\ groups[g].rules > 0 => [groups[g] EXCEPT !.rules = @ - 1] \in Group
         /\ \A m \in Members :
              /\ [groups[g] EXCEPT !.members = @ \cup {m}] \in Group
              /\ [groups[g] EXCEPT !.members = @ \ {m}] \in Group
<1> DEFINE q == groups[g]
<1>1. q \in Group /\ q.rules \in Nat /\ MaxRules \in Nat
  BY DEF GroupsTyped, Group, TitleAssumption
<1>2. NoGroup \in Group
  BY DEF TitleAssumption, NoGroup, Group
<1>3. \A n \in Titles : [NoGroup EXCEPT !.there = TRUE, !.name = n] \in Group
  BY <1>2 DEF Group
<1>4. \A n \in Titles : [q EXCEPT !.name = n] \in Group
  BY <1>1 DEF Group
<1>5. /\ q.rules < MaxRules => [q EXCEPT !.rules = @ + 1] \in Group
      /\ q.rules > 0 => [q EXCEPT !.rules = @ - 1] \in Group
  <2> HIDE DEF q
  <2> QED
    BY <1>1 DEF Group
<1>6. \A m \in Members : /\ [q EXCEPT !.members = @ \cup {m}] \in Group
                         /\ [q EXCEPT !.members = @ \ {m}] \in Group
  <2> HIDE DEF q
  <2> QED
    BY <1>1 DEF Group
<1> QED
  BY <1>2, <1>3, <1>4, <1>5, <1>6

----------------------------------------------------------------------------
(* Security groups: what a step does to the parts.                         *)

\* A step that takes nothing from the group "default", unless it tells.
LEMMA EditKeeps ==
  ASSUME GroupsInv, NEW g \in Groups, NEW row, Edit(g, row),
         UNCHANGED seeders, touched' \subseteq Seeders, touched \subseteq touched',
         \/ Begun \subseteq touched'
         \/ ~IsDefault(g)
         \/ row.there /\ row.name = Default /\ row.rules >= groups[g].rules
  PROVE  GroupsInv'
<1> USE DEF GroupsInv
<1>1. /\ groups' \in [Groups -> Group] /\ groups'[g] = row
      /\ \A f \in Groups : f # g => groups'[f] = groups[f]
  BY Edited
<1>2. GroupsTyped'
  BY <1>1 DEF GroupsTyped
<1>3. CASE Begun \subseteq touched'
  BY <1>2, <1>3 DEF Seeded, Begun
<1>4. CASE ~(Begun \subseteq touched')
  <2>1. \A f \in Groups : /\ IsDefault(f) => IsDefault(f)'
                          /\ Lets(f) => Lets(f)'
    <3> SUFFICES ASSUME NEW f \in Groups
                 PROVE  (IsDefault(f) => IsDefault(f)') /\ (Lets(f) => Lets(f)')
      OBVIOUS
    <3>1. CASE f # g
      BY <1>1, <3>1 DEF IsDefault, Lets, There
    <3>2. CASE f = g
      <4>1. groups[g].rules \in Nat /\ groups'[g].rules \in Nat
        BY <1>1 DEF GroupsTyped, Group
      <4> QED
        BY <1>1, <1>4, <3>2, <4>1 DEF IsDefault, Lets, There
    <3> QED
      BY <3>1, <3>2
  <2>2. \A s \in Seeders : seeders[s].group \in Groups
    BY DEF GroupsTyped, Seeder
  <2>3. \A s \in Seeders : Seeded(s)'
    BY <2>1, <2>2 DEF Seeded
  <2> QED
    BY <1>2, <2>3
<1> QED
  BY <1>3, <1>4

LEMMA UserKeeps ==
  ASSUME TitleAssumption, GroupsInv, NEW g \in Groups, NEW n \in Titles,
         \/ CreateSecurityGroup(g, n) \/ UpdateSecurityGroup(g, n)
         \/ DeleteSecurityGroup(g) \/ AddRule(g) \/ RemoveRule(g)
         \/ \E m \in Members : AssignToInstance(g, m) \/ RemoveFromInstance(g, m)
  PROVE  GroupsInv'
<1> USE DEF GroupsInv
<1> DEFINE q == groups[g]
<1>1. q \in Group /\ q.rules \in Nat /\ touched \subseteq Seeders /\ Begun \subseteq Seeders
  BY DEF GroupsTyped, Group, Begun
<1>2. ASSUME Touch(g)
      PROVE  /\ touched' \subseteq Seeders /\ touched \subseteq touched'
             /\ Begun \subseteq touched' \/ ~IsDefault(g)
  BY <1>1, <1>2 DEF Touch, IsDefault
<1>3. CASE CreateSecurityGroup(g, n)
  BY <1>1, <1>3, EditsTyped, EditKeeps DEF CreateSecurityGroup, Insert, Edit, IsDefault
<1>4. CASE UpdateSecurityGroup(g, n)
  <2>1. Edit(g, [q EXCEPT !.name = n])
    BY <1>4, EditsTyped DEF UpdateSecurityGroup, Edit
  <2> QED
    BY <1>2, <1>4, <2>1, EditKeeps DEF UpdateSecurityGroup
<1>5. CASE DeleteSecurityGroup(g)
  BY <1>2, <1>5, EditsTyped, EditKeeps DEF DeleteSecurityGroup, Edit
<1>6. CASE RemoveRule(g)
  <2>1. Edit(g, [q EXCEPT !.rules = @ - 1])
    BY <1>6, EditsTyped DEF RemoveRule, Edit
  <2> QED
    BY <1>2, <1>6, <2>1, EditKeeps DEF RemoveRule
<1>7. CASE AddRule(g)
  <2> DEFINE row == [q EXCEPT !.rules = @ + 1]
  <2>1. Edit(g, row)
    BY <1>7, EditsTyped DEF AddRule, Edit
  <2>2. row.there = q.there /\ row.name = q.name /\ row.rules >= q.rules
    BY <1>1 DEF Group
  <2> HIDE DEF row
  <2> QED
    BY <1>1, <1>7, <2>1, <2>2, EditKeeps DEF AddRule, IsDefault, There
<1>8. ASSUME NEW m \in Members, AssignToInstance(g, m) \/ RemoveFromInstance(g, m)
      PROVE  GroupsInv'
  <2>1. PICK row : /\ Edit(g, row)
                   /\ row.there = q.there /\ row.name = q.name /\ row.rules = q.rules
    <3>1. CASE AssignToInstance(g, m)
      <4> DEFINE row == [q EXCEPT !.members = @ \cup {m}]
      <4>1. Edit(g, row)
        BY <3>1, EditsTyped DEF AssignToInstance, Edit
      <4>2. row.there = q.there /\ row.name = q.name /\ row.rules = q.rules
        BY <1>1 DEF Group
      <4> QED
        BY <4>1, <4>2
    <3>2. CASE RemoveFromInstance(g, m)
      <4> DEFINE row == [q EXCEPT !.members = @ \ {m}]
      <4>1. Edit(g, row)
        BY <3>2, EditsTyped DEF RemoveFromInstance, Edit
      <4>2. row.there = q.there /\ row.name = q.name /\ row.rules = q.rules
        BY <1>1 DEF Group
      <4> QED
        BY <4>1, <4>2
    <3> QED
      BY <1>8, <3>1, <3>2
  <2> QED
    BY <1>1, <1>8, <2>1, EditKeeps
       DEF AssignToInstance, RemoveFromInstance, IsDefault, There
<1> QED
  BY <1>3, <1>4, <1>5, <1>6, <1>7, <1>8

\* A seed that goes on without a write.
LEMMA SeederKeeps ==
  ASSUME GroupsInv, NEW s \in Seeders, seeders' \in [Seeders -> Seeder],
         \A t \in Seeders : t # s => seeders'[t] = seeders[t],
         UNCHANGED groups, touched' \in {touched, touched \ {s}}, Seeded(s)'
  PROVE  GroupsInv'
<1>1. GroupsTyped'
  BY DEF GroupsInv, GroupsTyped
<1>2. ASSUME NEW t \in Seeders, t # s PROVE Seeded(t)'
  BY <1>2 DEF GroupsInv, Seeded, IsDefault, Lets, There
<1> QED
  BY <1>1, <1>2 DEF GroupsInv

LEMMA FindDefaultKeeps ==
  ASSUME TitleAssumption, GroupsInv, NEW s \in Seeders, FindDefault(s)
  PROVE  GroupsInv'
<1> USE DEF GroupsInv
<1>1. CASE SeederAt(s, "failed") \/ SeederAt(s, "create")
  BY <1>1, SeederMoves, SeederKeeps DEF FindDefault, Seeded
<1>2. ASSUME NEW g \in Named(Default),
             seeders' = [seeders EXCEPT ![s] = [pc |-> "look", group |-> g]]
      PROVE  GroupsInv'
  <2>1. g \in Groups /\ IsDefault(g)
    BY DEF Named, IsDefault
  <2>2. IsDefault(g)'
    BY <2>1 DEF FindDefault, IsDefault, There
  <2> QED
    BY <1>2, <2>1, <2>2, SeederFinds, SeederKeeps DEF FindDefault, Seeded
<1> QED
  BY <1>1, <1>2 DEF FindDefault

LEMMA CreateDefaultKeeps ==
  ASSUME TitleAssumption, GroupsInv, NEW s \in Seeders, CreateDefault(s)
  PROVE  GroupsInv'
<1> USE DEF GroupsInv
<1>1. CASE SeederAt(s, "failed") /\ UNCHANGED groups
  BY <1>1, SeederMoves, SeederKeeps DEF CreateDefault, Seeded
<1>2. ASSUME NEW g \in Groups, NEW pc \in {"look", "failed"}, Insert(g, Default),
             seeders' = [seeders EXCEPT ![s] = [pc |-> pc, group |-> g]], UNCHANGED touched
      PROVE  GroupsInv'
  <2> DEFINE row == [NoGroup EXCEPT !.there = TRUE, !.name = Default]
  <2>1. Edit(g, row) /\ ~There(g)
    BY <1>2, EditsTyped DEF Insert, Edit, TitleAssumption
  <2>2. /\ groups' \in [Groups -> Group] /\ groups'[g] = row
        /\ \A f \in Groups : f # g => groups'[f] = groups[f]
    BY <2>1, Edited
  <2>3. IsDefault(g)'
    BY <2>2 DEF IsDefault, There, NoGroup
  <2>4. /\ seeders' \in [Seeders -> Seeder]
        /\ seeders'[s].pc = pc /\ seeders'[s].group = g
        /\ \A t \in Seeders : t # s => seeders'[t] = seeders[t]
    BY <1>2, SeederFinds
  <2>5. Seeded(s)'
    BY <2>3, <2>4 DEF Seeded
  <2>6. ASSUME NEW t \in Seeders, t # s PROVE Seeded(t)'
    <3>1. \A f \in Groups : /\ IsDefault(f) => IsDefault(f)'
                            /\ Lets(f) => Lets(f)'
      BY <2>1, <2>2 DEF IsDefault, Lets, There
    <3>2. seeders[t].group \in Groups /\ seeders'[t] = seeders[t]
      BY <2>4, <2>6 DEF GroupsTyped, Seeder
    <3> QED
      BY <1>2, <3>1, <3>2 DEF Seeded
  <2>7. GroupsTyped'
    BY <1>2, <2>2, <2>4 DEF GroupsTyped
  <2> QED
    BY <2>5, <2>6, <2>7
<1> QED
  BY <1>1, <1>2 DEF CreateDefault

LEMMA LookKeeps ==
  ASSUME TitleAssumption, GroupsInv, NEW s \in Seeders, Look(s)
  PROVE  GroupsInv'
<1> USE DEF GroupsInv
<1> DEFINE g == seeders[s].group
<1>1. g \in Groups /\ groups[g].rules \in Nat
  BY DEF GroupsTyped, Seeder, Group
<1>2. PICK pc \in {"failed", "add", "ok"} :
        SeederAt(s, pc) /\ (pc = "ok" => groups[g].rules # 0)
  BY DEF Look
<1>3. s \notin touched => IsDefault(g)
  BY DEF Look, Seeded
<1>4. Seeded(s)'
  <2>1. /\ seeders'[s].pc = pc /\ seeders'[s].group = g
        /\ s \notin touched => IsDefault(g)'
    BY <1>2, <1>3, SeederMoves DEF Look, IsDefault, There
  <2>2. pc = "ok" => groups[g].rules > 0
    BY <1>1, <1>2
  <2>3. pc = "ok" /\ s \notin touched => Lets(g)'
    BY <1>3, <2>1, <2>2 DEF Look, Lets, IsDefault, There
  <2> QED
    BY <1>1, <2>1, <2>3 DEF Look, Seeded
<1> QED
  BY <1>2, <1>4, SeederMoves, SeederKeeps DEF Look

LEMMA AddSSHKeeps ==
  ASSUME TitleAssumption, GroupsInv, NEW s \in Seeders, AddSSH(s)
  PROVE  GroupsInv'
<1> USE DEF GroupsInv
<1> DEFINE g == seeders[s].group
<1>1. g \in Groups /\ groups[g] \in Group /\ groups[g].rules \in Nat
  BY DEF GroupsTyped, Seeder, Group
<1>2. CASE SeederAt(s, "failed") /\ UNCHANGED groups
  BY <1>2, SeederMoves, SeederKeeps DEF AddSSH, Seeded
<1>3. ASSUME NEW pc \in {"ok", "failed"}, SeederAt(s, pc),
             There(g), groups[g].rules < MaxRules,
             groups' = [groups EXCEPT ![g].rules = @ + 1], UNCHANGED touched
      PROVE  GroupsInv'
  <2> DEFINE row == [groups[g] EXCEPT !.rules = @ + 1]
  <2>1. Edit(g, row)
    BY <1>1, <1>3, EditsTyped DEF Edit
  <2>2. /\ groups' \in [Groups -> Group] /\ groups'[g] = row
        /\ \A f \in Groups : f # g => groups'[f] = groups[f]
    BY <1>1, <2>1, Edited
  <2>3. row.there = groups[g].there /\ row.name = groups[g].name /\ row.rules > 0
    BY <1>1 DEF Group
  <2> HIDE DEF row
  <2>4. \A f \in Groups : /\ IsDefault(f) => IsDefault(f)'
                          /\ Lets(f) => Lets(f)'
                          /\ f = g /\ IsDefault(f) => Lets(f)'
    BY <2>2, <2>3 DEF IsDefault, Lets, There
  <2>5. /\ seeders' \in [Seeders -> Seeder] /\ seeders'[s].pc = pc
        /\ \A t \in Seeders : t # s => seeders'[t] = seeders[t]
    BY <1>3, SeederMoves
  <2>6. Seeded(s)'
    BY <1>1, <1>3, <2>4, <2>5 DEF AddSSH, Seeded
  <2>7. ASSUME NEW t \in Seeders, t # s PROVE Seeded(t)'
    <3>1. seeders[t].group \in Groups /\ seeders'[t] = seeders[t]
      BY <2>5, <2>7 DEF GroupsTyped, Seeder
    <3> QED
      BY <1>3, <2>4, <3>1 DEF Seeded
  <2>8. GroupsTyped'
    BY <1>3, <2>2, <2>5 DEF GroupsTyped
  <2> QED
    BY <2>6, <2>7, <2>8
<1> QED
  BY <1>2, <1>3 DEF AddSSH

LEMMA RestartKeeps ==
  ASSUME GroupsInv, NEW s \in Seeders, Restart(s)
  PROVE  GroupsInv'
<1>1. SeederAt(s, "find")
  BY DEF Restart, SeederAt
<1> QED
  BY <1>1, SeederMoves, SeederKeeps DEF Restart, Seeded, GroupsInv

----------------------------------------------------------------------------
(* Security groups: theorems.                                              *)

\* The inductive invariant of the security groups holds.
LEMMA GroupsInductive == ASSUME TitleAssumption PROVE GroupsSpec => []GroupsInv
<1>1. GroupsInit => GroupsInv
  BY GroupsInitTyped DEF GroupsInit, GroupsInv, Seeded
<1>2. GroupsInv /\ [GroupsNext]_groupVars => GroupsInv'
  <2> SUFFICES ASSUME GroupsInv, [GroupsNext]_groupVars PROVE GroupsInv'
    OBVIOUS
  <2>1. CASE UNCHANGED groupVars
    BY <2>1 DEF groupVars, GroupsInv, GroupsTyped, Seeded, IsDefault, Lets, There
  <2>2. ASSUME NEW s \in Seeders,
               FindDefault(s) \/ CreateDefault(s) \/ Look(s) \/ AddSSH(s) \/ Restart(s)
        PROVE  GroupsInv'
    BY <2>2, FindDefaultKeeps, CreateDefaultKeeps, LookKeeps, AddSSHKeeps, RestartKeeps
  <2>3. Default \in Titles
    BY DEF TitleAssumption
  <2> QED
    BY <2>1, <2>2, <2>3, UserKeeps DEF GroupsNext
<1> QED
  BY <1>1, <1>2, PTL DEF GroupsSpec

\* The tables of the groups and the seeds always have the shape of their types.
THEOREM SecurityGroupsTyped == ASSUME TitleAssumption PROVE GroupsSpec => []GroupsTyped
<1>1. GroupsInv => GroupsTyped
  BY DEF GroupsInv
<1> QED
  BY <1>1, GroupsInductive, PTL

\* A process that has seeded without an error leaves a group "default" that lets
\* something in, unless a user has taken it back since: whichever statement of
\* an earlier seed failed and however many seed at once
\* (networking_service.go:163-201).
THEOREM SeedsLeaveAccess == ASSUME TitleAssumption PROVE GroupsSpec => []SeedLeavesAccess
<1>1. GroupsInv => SeedLeavesAccess
  BY DEF GroupsInv, Seeded, SeedLeavesAccess, Lets, IsDefault, Named
<1> QED
  BY <1>1, GroupsInductive, PTL

----------------------------------------------------------------------------
(* The components together.                                                *)

LEMMA StepsApart ==
  ASSUME [MCNext]_servicesVars
  PROVE  /\ [Next]_snapVars /\ [HostsNext]_hostVars /\ [ImagesNext]_imageVars
         /\ [GroupsNext]_groupVars /\ [ScalingNext]_scaleVars /\ [PublisherNext]_pubVars
         /\ [CidrNext]_cidrVars
BY DEF MCNext, servicesVars, CidrNext, cidrVars

\* The components do not disturb each other: a behaviour of the run is one of
\* every component, and so is every theorem about one of them.
THEOREM ComponentsApart ==
  MCSpec => /\ Spec /\ HostsSpec /\ ImagesSpec
            /\ GroupsSpec /\ ScalingSpec /\ PublisherSpec /\ CidrSpec
<1>1. MCInit => /\ Init /\ HostsInit /\ ImagesInit
                /\ GroupsInit /\ ScalingInit /\ PublisherInit /\ CidrInit
  BY DEF MCInit
<1>2. [MCNext]_servicesVars =>
        /\ [Next]_snapVars /\ [HostsNext]_hostVars /\ [ImagesNext]_imageVars
        /\ [GroupsNext]_groupVars /\ [ScalingNext]_scaleVars /\ [PublisherNext]_pubVars
        /\ [CidrNext]_cidrVars
  BY StepsApart
<1> QED
  BY <1>1, <1>2, PTL
     DEF MCSpec, Spec, HostsSpec, ImagesSpec, GroupsSpec, ScalingSpec, PublisherSpec, CidrSpec

\* The state of every service component always has the shape of its types.
THEOREM AllTyped == MCSpec => []ServicesTyped
<1>1. /\ SnapAssumption /\ BestAssumption /\ FileAssumption
      /\ TitleAssumption /\ ScaleAssumption /\ MessageAssumption
  BY Assumptions
<1>2. /\ Spec => []TypeOK
      /\ HostsSpec => []HostsTyped
      /\ ImagesSpec => []ImagesTyped
      /\ GroupsSpec => []GroupsTyped
      /\ ScalingSpec => []ScalingTyped
      /\ PublisherSpec => []PublisherTyped
  BY <1>1, SnapshotsTyped, SelectionsTyped, FilesTyped, SecurityGroupsTyped,
     RowsTyped, CallsTyped
<1>3. /\ TypeOK /\ HostsTyped /\ ImagesTyped
      /\ GroupsTyped /\ ScalingTyped /\ PublisherTyped
      => ServicesTyped
  BY DEF ServicesTyped
<1> QED
  BY <1>2, <1>3, ComponentsApart, PTL
=============================================================================
