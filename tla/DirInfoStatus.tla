--------------------------- MODULE DirInfoStatus ---------------------------
(***************************************************************************)
(* The status algebra of the directory checks: what one file says about a  *)
(* node, and how the statuses of several files become the status of the    *)
(* node at one other node (LocalNodeController in lib/chutney/TorNet.py).  *)
(*                                                                         *)
(* A status is a code and the set of formats that have it; the message is  *)
(* left out. A key that is not in the dict of statuses has NoStatus.       *)
(***************************************************************************)
EXTENDS Integers

MISSING_FILE_CODE == -400
NO_RECORDS_CODE == -300
NOT_YET_IMPLEMENTED_CODE == -200
SHORT_FILE_CODE == -100
NO_PROGRESS_CODE == 0
SUCCESS_CODE == 100

Codes == {MISSING_FILE_CODE, NO_RECORDS_CODE, NOT_YET_IMPLEMENTED_CODE,
          SHORT_FILE_CODE, NO_PROGRESS_CODE, SUCCESS_CODE}

ConsFormats == {"ns_cons", "md_cons"}
DescFormats == {"desc", "desc_new"}
MdFormats == {"md", "md_new"}
Formats == ConsFormats \union DescFormats \union MdFormats \union {"br_status"}

Statuses == [code : Codes, formats : SUBSET Formats]
NoStatus == [code |-> 1, formats |-> {}]

-----------------------------------------------------------------------------
(* One file.                                                               *)

\* A file does not exist, has no lines, has fewer than 8 lines or more without
\* the node's entry, or has the entry.
Contents == {"missing", "empty", "short", "long", "listed"}

\* Is there a pattern to search a file of this format for? Microdescriptors are
\* found by the node's ed25519 key; the bridge networkstatus is not searched.
HasPattern(format, hasKey) ==
  format # "br_status" /\ (format \in MdFormats => hasKey)

\* The code for a file whose entry is not found by a search.
Unlisted(content, searched) ==
  CASE content = "missing" -> MISSING_FILE_CODE
    [] content = "empty" -> NO_RECORDS_CODE
    [] content \in {"short", "long", "listed"} /\ ~searched -> NOT_YET_IMPLEMENTED_CODE
    [] content = "short" /\ searched -> SHORT_FILE_CODE
    [] content = "long" /\ searched -> NO_PROGRESS_CODE

\* Mutant: found is reported as True.
getFileDirInfoFound(format, content, hasKey) ==
  LET searched == HasPattern(format, hasKey) IN
  [formats |-> {format},
   code |-> IF content = "listed" /\ searched THEN 1 ELSE Unlisted(content, searched)]

getFileDirInfoStatus(format, content, hasKey) ==
  LET searched == HasPattern(format, hasKey) IN
  [formats |-> {format},
   code |-> IF content = "listed" /\ searched THEN SUCCESS_CODE ELSE Unlisted(content, searched)]

-----------------------------------------------------------------------------
(* Several files, and documents.                                           *)

\* Mutants: always the best, always the worst, and "not yet implemented" taken for
\* a code like the others.
ReplacesByBetter(new, old, best, ignoreMissing) == new > old
ReplacesByWorse(new, old, best, ignoreMissing) == new < old
ReplacesByAny(new, old, best, ignoreMissing) ==
  \/ ignoreMissing /\ old = MISSING_FILE_CODE
  \/ /\ ~(ignoreMissing /\ MISSING_FILE_CODE \in {old, new})
     /\ IF best THEN new > old ELSE new < old

\* Does the new code replace a different old one?
Replaces(new, old, best, ignoreMissing) ==
  \/ ignoreMissing /\ old = MISSING_FILE_CODE
  \/ /\ ~(ignoreMissing /\ MISSING_FILE_CODE \in {old, new})
     /\ \/ old = NOT_YET_IMPLEMENTED_CODE
        \/ /\ new # NOT_YET_IMPLEMENTED_CODE
           /\ IF best THEN new > old ELSE new < old

\* One round of the loop in combineDirInfoStatuses: equal statuses pool their
\* formats, a key that is not in the dict is skipped.
Combine(old, new, best, ignoreMissing) ==
  IF new = NoStatus THEN old
  ELSE IF old = NoStatus THEN new
  ELSE IF new.code = old.code THEN [old EXCEPT !.formats = @ \union new.formats]
  ELSE IF Replaces(new.code, old.code, best, ignoreMissing) THEN new
  ELSE old

\* The status of a node at one other node, from the status of each of the
\* other's files. fromBridge: the node is a bridge, not a consensus relay.
\* toDirServer, toBridgeClient: what the other node is.
summariseCacheDirInfoStatus(status, fromBridge, toDirServer, toBridgeClient) ==
  LET descAlts == Combine(status["desc"], status["desc_new"], TRUE, TRUE)
      mdAlts == Combine(status["md"], status["md_new"], TRUE, TRUE)
      consAll == IF fromBridge THEN NoStatus
                 ELSE Combine(status["ns_cons"], status["md_cons"], ~toDirServer, ~toDirServer)
      descAll == IF toBridgeClient
                   THEN IF fromBridge \/ mdAlts.code = MISSING_FILE_CODE
                          THEN descAlts ELSE mdAlts
                   ELSE Combine(descAlts, mdAlts, ~toDirServer, ~toDirServer)
  IN  Combine(Combine(status["br_status"], consAll, FALSE, TRUE), descAll, FALSE, TRUE)

-----------------------------------------------------------------------------
(* What a combination amounts to, whatever the order of the dict.          *)

\* The order in which codes win: missing files count for nothing when they are
\* ignored, what is not implemented for less than anything else.
Rank(code, best, ignoreMissing) ==
  CASE ignoreMissing /\ code = MISSING_FILE_CODE -> -2000
    [] code = NOT_YET_IMPLEMENTED_CODE -> -1000
    [] ~(ignoreMissing /\ code = MISSING_FILE_CODE) /\ code # NOT_YET_IMPLEMENTED_CODE ->
         IF best THEN code ELSE -code

\* The statuses of a set that have the code that wins.
Winners(S, best, ignoreMissing) ==
  {s \in S : \A t \in S : Rank(t.code, best, ignoreMissing) <= Rank(s.code, best, ignoreMissing)}

\* combineDirInfoStatuses on a set, without any order.
Winning(S, best, ignoreMissing) ==
  IF S = {} THEN NoStatus
  ELSE [code |-> (CHOOSE s \in Winners(S, best, ignoreMissing) : TRUE).code,
        formats |-> UNION {s.formats : s \in Winners(S, best, ignoreMissing)}]
=============================================================================
