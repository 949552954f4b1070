------------------------------- MODULE Images -------------------------------
(***************************************************************************)
(* InstanceService.EnsureImageExists (internal/application                 *)
(* /instance_infra.go) for one image: launches that do not find the base   *)
(* image download it to one temporary name and rename it.  A file is the   *)
(* set of its blocks that were written; a file that is created under a     *)
(* name that is there is that file, truncated, for whoever has it open.    *)
(***************************************************************************)
EXTENDS Naturals

CONSTANTS
  Fetchers,   \* launches that need the image, each once
  Size,       \* its blocks
  NoFile

FileAssumption == NoFile \notin Fetchers /\ Size \in Nat

VARIABLES
  tmp,        \* the file with the temporary name
  image,      \* the file with the name of the image
  content,    \* blocks of a file; a file is named by the fetcher that made it
  fetch,      \* EnsureImageExists
  overlapped, \* history: files a fetcher created while another downloaded
  givenUp     \* history: files a fetcher stopped writing before the end

imageVars == <<tmp, image, content, fetch, overlapped, givenUp>>

File == Fetchers \cup {NoFile}
Blocks == 1..Size
Fetch == [pc : {"idle", "create", "get", "copy", "rename", "remove",
                "exists", "failed"},
          file : File,       \* out
          next : 1..Size + 1]

ImagesInit ==
  /\ tmp = NoFile /\ image = NoFile
  /\ content = [f \in Fetchers |-> {}]
  /\ fetch = [p \in Fetchers |-> [pc |-> "idle", file |-> NoFile, next |-> 1]]
  /\ overlapped = {} /\ givenUp = {}

FetchAt(p, pc) == fetch' = [fetch EXCEPT ![p].pc = pc]
Open(p) == fetch[p].pc \in {"get", "copy", "rename", "remove"}
\* The file of p, unless p has written all of it.
Unfinished(p) == IF Open(p) /\ fetch[p].next <= Size THEN {fetch[p].file} ELSE {}

\* os.Stat; an unknown image or an error of MkdirAll fails.
Stat(p) ==
  /\ fetch[p].pc = "idle"
  /\ IF image # NoFile THEN FetchAt(p, "exists")
     ELSE FetchAt(p, "create") \/ FetchAt(p, "failed")
  /\ UNCHANGED <<tmp, image, content, overlapped, givenUp>>

\* os.Create.
CreateFile(p) ==
  LET f == IF tmp = NoFile THEN p ELSE tmp IN
  /\ fetch[p].pc = "create"
  /\ fetch' = [fetch EXCEPT ![p] = [@ EXCEPT !.pc = "get", !.file = f]]
  /\ tmp' = f /\ content' = [content EXCEPT ![f] = {}]
  /\ overlapped' = overlapped \cup
       (IF \E q \in Fetchers : Open(q) THEN {f} ELSE {})
  /\ UNCHANGED <<image, givenUp>>

CreateFails(p) ==
  /\ fetch[p].pc = "create" /\ FetchAt(p, "failed")
  /\ UNCHANGED <<tmp, image, content, overlapped, givenUp>>

\* http.Get and the status of its answer.
Get(p) ==
  /\ fetch[p].pc = "get"
  /\ FetchAt(p, "copy") \/ FetchAt(p, "remove")
  /\ UNCHANGED <<tmp, image, content, overlapped, givenUp>>

\* Fault: an error of io.Copy is not looked at.
CopyAnyway(p) ==
  /\ fetch[p].pc = "copy"
  /\ \/ /\ fetch[p].next <= Size
        /\ content' = [content EXCEPT ![fetch[p].file] = @ \cup {fetch[p].next}]
        /\ fetch' = [fetch EXCEPT ![p].next = @ + 1]
     \/ FetchAt(p, "rename") /\ UNCHANGED content
  /\ UNCHANGED <<tmp, image, overlapped, givenUp>>

\* io.Copy writes block after block at the offset of this fetcher.
Copy(p) ==
  /\ fetch[p].pc = "copy"
  /\ \/ /\ fetch[p].next <= Size
        /\ content' = [content EXCEPT ![fetch[p].file] = @ \cup {fetch[p].next}]
        /\ fetch' = [fetch EXCEPT ![p].next = @ + 1]
     \/ fetch[p].next > Size /\ FetchAt(p, "rename") /\ UNCHANGED content
     \/ FetchAt(p, "remove") /\ UNCHANGED content
  /\ UNCHANGED <<tmp, image, overlapped, givenUp>>

\* os.Rename moves what has the temporary name now.
Rename(p) ==
  /\ fetch[p].pc = "rename" /\ tmp # NoFile
  /\ image' = tmp /\ tmp' = NoFile
  /\ FetchAt(p, "exists")
  /\ UNCHANGED <<content, overlapped, givenUp>>

RenameFails(p) ==
  /\ fetch[p].pc = "rename" /\ FetchAt(p, "remove")
  /\ UNCHANGED <<tmp, image, content, overlapped, givenUp>>

\* os.Remove of what has the temporary name now.
Remove(p) ==
  /\ fetch[p].pc = "remove" /\ FetchAt(p, "failed")
  /\ tmp' \in {tmp, NoFile}
  /\ givenUp' = givenUp \cup Unfinished(p)
  /\ UNCHANGED <<image, content, overlapped>>

\* The process dies; requests that have not begun come after its restart.
FetchersDie ==
  /\ fetch' = [p \in Fetchers |->
       IF Open(p) \/ fetch[p].pc = "create" THEN [fetch[p] EXCEPT !.pc = "failed"]
                                            ELSE fetch[p]]
  /\ givenUp' = givenUp \cup UNION {Unfinished(p) : p \in Fetchers}
  /\ UNCHANGED <<tmp, image, content, overlapped>>

ImagesNext ==
  \/ \E p \in Fetchers :
       \/ Stat(p) \/ CreateFile(p) \/ CreateFails(p) \/ Get(p)
       \/ Copy(p) \/ Rename(p) \/ RenameFails(p) \/ Remove(p)
  \/ FetchersDie

ImagesSpec == ImagesInit /\ [][ImagesNext]_imageVars

----------------------------------------------------------------------------
(* Properties.                                                             *)

\* The names, the files and the requests have the shape of their types.
ImagesTyped ==
  /\ tmp \in File /\ image \in File
  /\ content \in [Fetchers -> SUBSET Blocks]
  /\ fetch \in [Fetchers -> Fetch]
  /\ overlapped \subseteq Fetchers /\ givenUp \subseteq Fetchers

\* The base image that launches find under its name is whole.  Only downloads
\* that overlapped can put a part of it there, and then it is whole as soon as
\* the last of them is done, unless one of them was given up: overlays would be
\* built on a truncated image for good (instance_infra.go:81-118).
ImageWhole ==
  image # NoFile =>
    \/ content[image] = Blocks
    \/ /\ image \in overlapped
       /\ \/ \E p \in Fetchers : Open(p) /\ fetch[p].file = image
          \/ image \in givenUp
=============================================================================
