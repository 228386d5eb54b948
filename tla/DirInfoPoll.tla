---------------------------- MODULE DirInfoPoll ----------------------------
(***************************************************************************)
(* getNodeCacheDirInfoStatus: one poll of the directory files of a node    *)
(* (the other) for the entry of another (this node), one file after the    *)
(* next, while the other node's tor keeps writing them                     *)
(* (LocalNodeController in lib/chutney/TorNet.py).                         *)
(*                                                                         *)
(* Of tor it is assumed that it never removes one of these files (so the   *)
(* poll can open what it has seen to exist), that an entry, once it is in  *)
(* a main file or a consensus, is still there at the end of the poll, and  *)
(* that a journal (.new) is emptied only after its entries have been       *)
(* written to the main file.                                               *)
(***************************************************************************)
EXTENDS DirInfoStatus, Sequences

CONSTANTS
  Initially,      \* what the files, by format, may contain when the poll begins
  MaxWrites       \* how often the other tor writes during the poll

ASSUME PollAssumption == Initially \subseteq [Formats -> Contents] /\ MaxWrites \in Nat

VARIABLES
  fromBridge,     \* this node is a bridge; else a consensus authority or relay
  other,          \* the kind of the other node
  hasKey,         \* this node's ed25519 key could be loaded
  file,           \* the content of each file, as far as it concerns this node
  status,         \* dir_status: what was read, per format
  at,             \* the next file to read
  verdict,        \* the status of this node at the other one
  before,         \* history: the files when the poll began
  folded,         \* history: the journals emptied after the main file was read, before they were
  writes          \* how often files were written since

nodes == <<fromBridge, other, hasKey>>
vars == <<nodes, file, status, at, verdict, before, folded, writes>>

DirServers == {"authority", "relay", "bridgeauth"}
OtherKinds == DirServers \union {"client", "bridgeclient"}

toDirServer == other \in DirServers
toBridgeClient == other = "bridgeclient"

\* The files of the other node, in the order in which they are read. Only bridge
\* authorities and bridge clients have bridges in their files.
Paths ==
  IF ~fromBridge THEN <<"ns_cons", "desc", "desc_new", "md_cons", "md", "md_new">>
  ELSE IF other = "bridgeauth" THEN <<"desc", "desc_new", "br_status">>
  ELSE <<"desc", "desc_new">>

Files == {Paths[i] : i \in 1..Len(Paths)}

\* tor appends new descriptors to a journal, which is folded into the main file
\* from time to time. The main file is read first.
Journals == {"desc_new", "md_new"}
MainFile(journal) == IF journal = "desc_new" THEN "desc" ELSE "md"

\* The files that are alternatives for the same entry.
Alternatives(format) ==
  IF format \in DescFormats THEN DescFormats
  ELSE IF format \in MdFormats THEN MdFormats
  ELSE {format}

-----------------------------------------------------------------------------
\* The contents a file may have after the other tor has added to it.
After(content) ==
  CASE content = "missing" -> {"empty", "short", "long", "listed"}
    [] content = "empty" -> {"short", "long", "listed"}
    [] content = "short" -> {"long", "listed"}
    [] content = "long" -> {"listed"}
    [] content = "listed" -> {}

Write(format) ==
  /\ writes < MaxWrites
  /\ verdict = NoStatus
  /\ \E c \in After(file[format]) : file' = [file EXCEPT ![format] = c]
  /\ writes' = writes + 1
  /\ UNCHANGED <<nodes, status, at, verdict, before, folded>>

\* The last step of a fold: the journal's entries are in the main file by now.
EmptyJournal(journal) ==
  /\ writes < MaxWrites
  /\ verdict = NoStatus
  /\ file[journal] \notin {"missing", "empty"}
  /\ file[MainFile(journal)] \notin {"missing", "empty"}
  /\ file[journal] = "listed" => file[MainFile(journal)] = "listed"
  /\ file' = [file EXCEPT ![journal] = "empty"]
  /\ folded' = IF status[MainFile(journal)] # NoStatus /\ status[journal] = NoStatus
                 THEN folded \union {journal}
                 ELSE folded
  /\ writes' = writes + 1
  /\ UNCHANGED <<nodes, status, at, verdict, before>>

ReadFile ==
  /\ at <= Len(Paths)
  /\ status' = [status EXCEPT ![Paths[at]] =
                  getFileDirInfoStatus(Paths[at], file[Paths[at]], hasKey)]
  /\ at' = at + 1
  /\ UNCHANGED <<nodes, file, verdict, before, folded, writes>>

Summarise ==
  /\ at = Len(Paths) + 1
  /\ verdict = NoStatus
  /\ verdict' = summariseCacheDirInfoStatus(status, fromBridge, toDirServer, toBridgeClient)
  /\ UNCHANGED <<nodes, file, status, at, before, folded, writes>>

Init ==
  /\ fromBridge \in BOOLEAN
  /\ hasKey \in BOOLEAN
  /\ other \in IF fromBridge THEN {"bridgeauth", "bridgeclient"} ELSE OtherKinds
  /\ \E content \in Initially : file = [f \in Files |-> content[f]]
  /\ status = [f \in Formats |-> NoStatus]
  /\ at = 1
  /\ verdict = NoStatus
  /\ before = file
  /\ folded = {}
  /\ writes = 0

Next ==
  \/ \E f \in Files : Write(f)
  \/ \E j \in Journals \intersect Files : EmptyJournal(j)
  \/ ReadFile
  \/ Summarise

Spec == Init /\ [][Next]_vars

-----------------------------------------------------------------------------
(* Properties                                                              *)

TypeOK ==
  /\ fromBridge \in BOOLEAN /\ hasKey \in BOOLEAN
  /\ other \in OtherKinds
  /\ fromBridge => other \in {"bridgeauth", "bridgeclient"}
  /\ file \in [Files -> Contents] /\ before \in [Files -> Contents]
  /\ status \in [Formats -> Statuses \union {NoStatus}]
  /\ at \in 1..7
  /\ verdict \in Statuses \union {NoStatus}
  /\ folded \in SUBSET (Journals \intersect Files)
  /\ writes \in 0..MaxWrites

Success == verdict.code = SUCCESS_CODE

ListedIn(S) == \E f \in S \intersect Files : file[f] = "listed"
MissingBefore(S) == \A f \in S \intersect Files : before[f] = "missing"

\* No success out of nothing: this node has an entry in a file that the status
\* names, or in the main file its journal has been folded into since; a bridge
\* has a descriptor there, and at a client neither the consensuses nor the
\* descriptors that are there lack an entry that the poll could have found.
SuccessHasEvidence ==
  Success =>
    /\ \E f \in verdict.formats : ListedIn(Alternatives(f))
    /\ fromBridge => ListedIn(DescFormats)
    /\ other = "client" => ListedIn(ConsFormats) \/ MissingBefore(ConsFormats)
    /\ other = "client" /\ hasKey =>
         ListedIn(DescFormats \union MdFormats) \/ MissingBefore(DescFormats \union MdFormats)

\* A directory server with both consensuses has this node in both, not only in
\* one of them ("we want the worst combined flavour status").
BothFlavoursCount ==
  Success /\ toDirServer /\ ~fromBridge /\ (\A f \in ConsFormats : before[f] # "missing") =>
    \A f \in ConsFormats : file[f] = "listed"

\* Everything that the poll looks for, with one of the alternatives for each
\* document, and one flavour for a client.
Complete(content) ==
  LET listed(S) == \E f \in S \intersect Files : content[f] = "listed"
      all(S) == \A f \in S \intersect Files : content[f] = "listed"
  IN  /\ listed(DescFormats)
      /\ ~fromBridge => listed(MdFormats)
      /\ IF toDirServer THEN all(ConsFormats) ELSE fromBridge \/ listed(ConsFormats)
      /\ "br_status" \in Files => content["br_status"] \notin {"missing", "empty"}

\* Without this node's key, an empty microdescriptor file outweighs one that cannot
\* be searched.
EmptyOutweighs == ~hasKey /\ \E f \in MdFormats : status[f].code = NO_RECORDS_CODE

\* An entry that only a journal had when the poll began has been moved away from the
\* journal when it was about to be read, into the main file, which had been read.
Moved == \E j \in folded : before[j] = "listed" /\ before[MainFile(j)] # "listed"

\* No false alarm but two: what was complete when the poll began is found, whatever
\* is written while it runs, unless an entry was moved past the reader, or a file
\* without any microdescriptor outweighs one that could not be searched.
CompleteIsFound ==
  verdict # NoStatus /\ Complete(before) => Success \/ Moved \/ EmptyOutweighs

\* The verdict does not depend on the order in which the dict holds the
\* statuses, or on the order in which documents are combined.
Of(S) == {status[f] : f \in S} \ {NoStatus}
Known(s) == {s} \ {NoStatus}

OrderIsIrrelevant ==
  LET worst == toDirServer
      desc == Winning(Of(DescFormats), TRUE, TRUE)
      md == Winning(Of(MdFormats), TRUE, TRUE)
      cons == IF fromBridge THEN NoStatus ELSE Winning(Of(ConsFormats), ~worst, ~worst)
      docs == IF ~toBridgeClient THEN Winning(Known(desc) \union Known(md), ~worst, ~worst)
              ELSE IF fromBridge \/ md.code = MISSING_FILE_CODE THEN desc ELSE md
  IN  verdict # NoStatus =>
        verdict = Winning(Known(status["br_status"]) \union Known(cons) \union Known(docs), FALSE, TRUE)

-----------------------------------------------------------------------------
(* Inductive strengthening, used by the proofs.                            *)

\* What is known of a file from the status that was read.
ReadInv ==
  \A f \in Formats :
    /\ status[f] # NoStatus =>
         /\ f \in Files
         /\ status[f].formats = {f}
         /\ status[f].code = SUCCESS_CODE => ListedIn(Alternatives(f)) /\ HasPattern(f, hasKey)
         /\ status[f].code = MISSING_FILE_CODE => before[f] = "missing"
         /\ status[f].code = NOT_YET_IMPLEMENTED_CODE => ~HasPattern(f, hasKey)
    /\ f \in Files => (file[f] = "missing" => before[f] = "missing")

\* Every file has been read before the verdict, which does not change any more.
VerdictInv ==
  /\ \A i \in 1..Len(Paths) : status[Paths[i]] # NoStatus <=> i < at
  /\ verdict # NoStatus =>
       /\ at = Len(Paths) + 1
       /\ verdict = summariseCacheDirInfoStatus(status, fromBridge, toDirServer, toBridgeClient)

IInv == TypeOK /\ ReadInv /\ VerdictInv

-----------------------------------------------------------------------------
(* What the comments say, which the code does not do.                      *)

\* summariseCacheDirInfoStatus, on the consensuses of a directory server: "we
\* want to treat missing files as errors".
MissingConsensusIsAnError ==
  Success /\ toDirServer /\ ~fromBridge => \A f \in ConsFormats : file[f] # "missing"
=============================================================================
