--------------------------- MODULE DirInfoProofs ---------------------------
(***************************************************************************)
(* Proofs about the status algebra of DirInfoStatus and the poll of        *)
(* DirInfoPoll: for all statuses, and for every interleaving of the poll   *)
(* with any number of writes.                                              *)
(***************************************************************************)
EXTENDS DirInfoPoll, TLAPS

-----------------------------------------------------------------------------
(* The algebra. combineDirInfoStatuses folds over a dict, whose order is   *)
(* nobody's intention; these laws make the result independent of it.       *)

\* The codes are ranked by integers, no two alike, and the higher rank wins.
LEMMA RankType ==
  ASSUME NEW c \in Codes, NEW best \in BOOLEAN, NEW ignoreMissing \in BOOLEAN
  PROVE  Rank(c, best, ignoreMissing) \in Int
BY DEF Rank, Codes, MISSING_FILE_CODE, NO_RECORDS_CODE, SHORT_FILE_CODE,
       NOT_YET_IMPLEMENTED_CODE, NO_PROGRESS_CODE, SUCCESS_CODE

LEMMA HigherRankReplaces ==
  ASSUME NEW c \in Codes, NEW d \in Codes, c # d, NEW best \in BOOLEAN, NEW ignoreMissing \in BOOLEAN
  PROVE  /\ Replaces(c, d, best, ignoreMissing)
              <=> Rank(c, best, ignoreMissing) > Rank(d, best, ignoreMissing)
         /\ Rank(c, best, ignoreMissing) # Rank(d, best, ignoreMissing)
BY DEF Rank, Replaces, Codes, MISSING_FILE_CODE, NO_RECORDS_CODE, SHORT_FILE_CODE,
       NOT_YET_IMPLEMENTED_CODE, NO_PROGRESS_CODE, SUCCESS_CODE

\* A winner does not depend on which of two statuses comes first.
THEOREM CombineCommutes ==
  ASSUME NEW s \in Statuses \union {NoStatus}, NEW t \in Statuses \union {NoStatus},
         NEW best \in BOOLEAN, NEW ignoreMissing \in BOOLEAN
  PROVE  Combine(s, t, best, ignoreMissing) = Combine(t, s, best, ignoreMissing)
BY DEF Combine, Replaces, Statuses, NoStatus, Codes, MISSING_FILE_CODE, NO_RECORDS_CODE, SHORT_FILE_CODE,
       NOT_YET_IMPLEMENTED_CODE, NO_PROGRESS_CODE, SUCCESS_CODE

LEMMA CombineType ==
  ASSUME NEW s \in Statuses \union {NoStatus}, NEW t \in Statuses \union {NoStatus},
         NEW best, NEW ignoreMissing
  PROVE  Combine(s, t, best, ignoreMissing) \in Statuses \union {NoStatus}
BY DEF Combine, Statuses, NoStatus

LEMMA CombineByRank ==
  ASSUME NEW s \in Statuses, NEW t \in Statuses, NEW best \in BOOLEAN, NEW ignoreMissing \in BOOLEAN
  PROVE  LET r(u) == Rank(u.code, best, ignoreMissing)
             both == Combine(s, t, best, ignoreMissing)
         IN  /\ r(s) > r(t) => both = s
             /\ r(s) < r(t) => both = t
             /\ r(s) = r(t) => s.code = t.code /\ both = [code |-> s.code, formats |-> s.formats \union t.formats]
<1>1. s.code \in Codes /\ t.code \in Codes
  BY DEF Statuses
<1>2. s # NoStatus /\ t # NoStatus
  BY DEF Statuses, NoStatus, Codes, MISSING_FILE_CODE, NO_RECORDS_CODE, SHORT_FILE_CODE,
         NOT_YET_IMPLEMENTED_CODE, NO_PROGRESS_CODE, SUCCESS_CODE
<1>3. CASE s.code = t.code
  <2>1. Combine(s, t, best, ignoreMissing) = [code |-> s.code, formats |-> s.formats \union t.formats]
    BY <1>2, <1>3 DEF Combine, Statuses
  <2> QED BY <1>1, <1>3, <2>1, RankType
<1>4. CASE s.code # t.code
  <2>1. Rank(s.code, best, ignoreMissing) \in Int /\ Rank(t.code, best, ignoreMissing) \in Int
    BY <1>1, RankType
  <2>2. Combine(s, t, best, ignoreMissing)
          = IF Rank(t.code, best, ignoreMissing) > Rank(s.code, best, ignoreMissing) THEN t ELSE s
    BY <1>1, <1>2, <1>4, HigherRankReplaces DEF Combine
  <2>3. Rank(s.code, best, ignoreMissing) # Rank(t.code, best, ignoreMissing)
    BY <1>1, <1>4, HigherRankReplaces
  <2> QED BY <2>1, <2>2, <2>3
<1> QED
  BY <1>3, <1>4

\* Nor on how the fold is bracketed: so the fold over a dict depends only on which
\* statuses are in it.
THEOREM CombineAssociates ==
  ASSUME NEW s \in Statuses \union {NoStatus}, NEW t \in Statuses \union {NoStatus}, NEW u \in Statuses \union {NoStatus},
         NEW best \in BOOLEAN, NEW ignoreMissing \in BOOLEAN
  PROVE  Combine(Combine(s, t, best, ignoreMissing), u, best, ignoreMissing)
           = Combine(s, Combine(t, u, best, ignoreMissing), best, ignoreMissing)
<1> DEFINE C(x, y) == Combine(x, y, best, ignoreMissing)
           r(x) == Rank(x.code, best, ignoreMissing)
<1>1. CASE NoStatus \in {s, t, u}
  <2>1. \A x : C(x, NoStatus) = x /\ C(NoStatus, x) = x
    BY DEF Combine
  <2> QED BY <1>1, <2>1
<1>2. CASE s \in Statuses /\ t \in Statuses /\ u \in Statuses
  <2>1. \A x, y \in Statuses :
          /\ r(x) \in Int
          /\ r(x) > r(y) => C(x, y) = x
          /\ r(x) < r(y) => C(x, y) = y
          /\ r(x) = r(y) => x.code = y.code /\ C(x, y) = [code |-> x.code, formats |-> x.formats \union y.formats]
    BY CombineByRank, RankType DEF Statuses
  <2>2. \A x, y \in Statuses : r(x) = r(y) => C(x, y) \in Statuses /\ r(C(x, y)) = r(x) /\ C(x, y).code = x.code
    BY <2>1 DEF Statuses
  <2> SUFFICES C(C(s, t), u) = C(s, C(t, u))
    OBVIOUS
  <2> HIDE DEF C, r
  <2>i. r(s) \in Int /\ r(t) \in Int /\ r(u) \in Int
    BY <1>2, <2>1
  <2>3. CASE r(s) = r(t) /\ r(t) = r(u)
    <3>1. /\ s.code = t.code /\ C(s, t) = [code |-> s.code, formats |-> s.formats \union t.formats]
          /\ t.code = u.code /\ C(t, u) = [code |-> t.code, formats |-> t.formats \union u.formats]
      BY <1>2, <2>1, <2>3
    <3>2. /\ C(s, t) \in Statuses /\ r(C(s, t)) = r(u)
          /\ C(t, u) \in Statuses /\ r(s) = r(C(t, u))
      BY <1>2, <2>2, <2>3
    <3>3. C(C(s, t), u) = [code |-> C(s, t).code, formats |-> C(s, t).formats \union u.formats]
      BY <1>2, <2>1, <3>2
    <3>4. C(s, C(t, u)) = [code |-> s.code, formats |-> s.formats \union C(t, u).formats]
      BY <1>2, <2>1, <3>2
    <3>5. /\ C(s, t).code = s.code /\ C(s, t).formats = s.formats \union t.formats
          /\ C(t, u).formats = t.formats \union u.formats
      BY <3>1
    <3>6. (s.formats \union t.formats) \union u.formats = s.formats \union (t.formats \union u.formats)
      OBVIOUS
    <3> QED BY <3>3, <3>4, <3>5, <3>6
  <2>4. CASE r(s) = r(t) /\ r(t) # r(u)
    <3>1. C(s, t) \in Statuses /\ r(C(s, t)) = r(s)
      BY <1>2, <2>2, <2>4
    <3>2. CASE r(t) > r(u)
      BY <1>2, <2>1, <2>4, <2>i, <3>1, <3>2
    <3>3. CASE r(t) < r(u)
      <4>1. C(C(s, t), u) = u /\ C(t, u) = u /\ C(s, u) = u
        BY <1>2, <2>1, <2>4, <3>1, <3>3
      <4> QED BY <4>1
    <3> QED BY <2>4, <2>i, <3>2, <3>3
  <2>5. CASE r(s) # r(t) /\ r(t) = r(u)
    <3>1. C(t, u) \in Statuses /\ r(C(t, u)) = r(t)
      BY <1>2, <2>2, <2>5
    <3>2. CASE r(s) > r(t)
      <4>1. C(s, t) = s /\ C(s, u) = s /\ C(s, C(t, u)) = s
        BY <1>2, <2>1, <2>5, <3>1, <3>2
      <4> QED BY <4>1
    <3>3. CASE r(s) < r(t)
      <4>1. C(s, t) = t /\ C(s, C(t, u)) = C(t, u)
        BY <1>2, <2>1, <2>5, <3>1, <3>3
      <4> QED BY <4>1
    <3> QED BY <2>5, <2>i, <3>2, <3>3
  <2>6. CASE r(s) > r(t) /\ r(t) # r(u)
    <3>1. C(s, t) = s
      BY <1>2, <2>1, <2>6
    <3>2. C(t, u) = t \/ (C(t, u) = u /\ r(t) < r(u))
      BY <1>2, <2>1, <2>6, <2>i
    <3>3. C(t, u) = t => r(u) < r(s)
      <4>1. r(t) < r(u) => C(t, u) = u
        BY <1>2, <2>1
      <4> QED BY <4>1, <2>6, <2>i
    <3>4. r(u) < r(s) => C(s, u) = s
      BY <1>2, <2>1
    <3> QED BY <3>1, <3>2, <3>3, <3>4
  <2>7. CASE r(s) < r(t) /\ r(t) # r(u)
    <3>1. C(s, t) = t
      BY <1>2, <2>1, <2>7
    <3>2. CASE r(t) > r(u)
      BY <1>2, <2>1, <2>7, <3>1, <3>2
    <3>3. CASE r(t) < r(u)
      <4>1. r(s) < r(u)
        BY <2>7, <2>i, <3>3
      <4>2. C(t, u) = u /\ C(s, u) = u
        BY <1>2, <2>1, <3>3, <4>1
      <4> QED BY <3>1, <4>2
    <3> QED BY <2>7, <2>i, <3>2, <3>3
  <2> QED BY <2>3, <2>4, <2>5, <2>6, <2>7, <2>i
<1> QED
  BY <1>1, <1>2

-----------------------------------------------------------------------------
(* The poll.                                                               *)

LEMMA PathsInFormats ==
  ASSUME TypeOK
  PROVE  /\ Files \subseteq Formats
         /\ Len(Paths) \in 1..6
         /\ \A i \in 1..Len(Paths) : Paths[i] \in Files
         /\ \A i, j \in 1..Len(Paths) : Paths[i] = Paths[j] => i = j
<1>1. CASE ~fromBridge
  BY <1>1 DEF Files, Paths, Formats, ConsFormats, DescFormats, MdFormats
<1>2. CASE fromBridge /\ other = "bridgeauth"
  BY <1>2 DEF Files, Paths, Formats, ConsFormats, DescFormats, MdFormats
<1>3. CASE fromBridge /\ other # "bridgeauth"
  BY <1>3 DEF Files, Paths, Formats, ConsFormats, DescFormats, MdFormats
<1> QED
  BY <1>1, <1>2, <1>3 DEF TypeOK

\* Both alternatives are looked for in the same nodes.
LEMMA TogetherInFiles ==
  ASSUME TypeOK
  PROVE  /\ "desc" \in Files /\ "desc_new" \in Files
         /\ ~fromBridge => "md" \in Files /\ "md_new" \in Files
         /\ fromBridge => "md" \notin Files /\ "md_new" \notin Files
         /\ \A j \in Journals \intersect Files : MainFile(j) \in Files /\ MainFile(j) # j
         /\ \A f \in Formats : f \in Alternatives(f)
         /\ \A j \in Journals : Alternatives(j) = {j, MainFile(j)} /\ Alternatives(MainFile(j)) = {j, MainFile(j)}
         /\ \A f \in Formats, j \in Journals : j \in Alternatives(f) => Alternatives(f) = {j, MainFile(j)}
<1>1. \/ ~fromBridge
      \/ fromBridge /\ other = "bridgeauth"
      \/ fromBridge /\ other # "bridgeauth"
  BY DEF TypeOK
<1>2. "desc" \in Files /\ "desc_new" \in Files
  BY <1>1 DEF Files, Paths
<1>3. ~fromBridge => "md" \in Files /\ "md_new" \in Files
  BY DEF Files, Paths
<1>4. fromBridge => "md" \notin Files /\ "md_new" \notin Files
  BY <1>1 DEF Files, Paths
<1>5. \A j \in Journals \intersect Files : MainFile(j) \in Files /\ MainFile(j) # j
  BY <1>2, <1>3, <1>4 DEF Journals, MainFile
<1>6. \A f \in Formats : f \in Alternatives(f)
  BY DEF Alternatives
<1>7. \A j \in Journals : Alternatives(j) = {j, MainFile(j)} /\ Alternatives(MainFile(j)) = {j, MainFile(j)}
  BY DEF Journals, MainFile, Alternatives, DescFormats, MdFormats
<1>8. \A f \in Formats, j \in Journals : j \in Alternatives(f) => Alternatives(f) = {j, MainFile(j)}
  BY DEF Journals, MainFile, Alternatives, DescFormats, MdFormats
<1> QED
  BY <1>2, <1>3, <1>4, <1>5, <1>6, <1>7, <1>8

LEMMA FileStatusType ==
  ASSUME NEW f \in Formats, NEW c \in Contents, hasKey \in BOOLEAN
  PROVE  LET s == getFileDirInfoStatus(f, c, hasKey) IN
         /\ s \in Statuses /\ s # NoStatus /\ s.formats = {f}
         /\ s.code = SUCCESS_CODE => c = "listed" /\ HasPattern(f, hasKey)
         /\ s.code = MISSING_FILE_CODE => c = "missing"
         /\ s.code = NOT_YET_IMPLEMENTED_CODE => ~HasPattern(f, hasKey)
<1> DEFINE searched == HasPattern(f, hasKey)
           s == getFileDirInfoStatus(f, c, hasKey)
<1>1. s = [formats |-> {f},
           code |-> IF c = "listed" /\ searched THEN SUCCESS_CODE ELSE Unlisted(c, searched)]
  BY DEF getFileDirInfoStatus
<1>2. searched \in BOOLEAN
  BY DEF HasPattern
<1> HIDE DEF searched
<1>3. \/ c = "listed" /\ searched
      \/ /\ Unlisted(c, searched) \in Codes \ {SUCCESS_CODE}
         /\ Unlisted(c, searched) = MISSING_FILE_CODE => c = "missing"
         /\ Unlisted(c, searched) = NOT_YET_IMPLEMENTED_CODE => ~searched
  BY <1>2 DEF Unlisted, Contents, Codes, MISSING_FILE_CODE, NO_RECORDS_CODE, SHORT_FILE_CODE,
         NOT_YET_IMPLEMENTED_CODE, NO_PROGRESS_CODE, SUCCESS_CODE
<1>4. /\ SUCCESS_CODE \in Codes /\ 1 \notin Codes
      /\ SUCCESS_CODE # MISSING_FILE_CODE /\ SUCCESS_CODE # NOT_YET_IMPLEMENTED_CODE
  BY DEF Codes, MISSING_FILE_CODE, NO_RECORDS_CODE, SHORT_FILE_CODE,
         NOT_YET_IMPLEMENTED_CODE, NO_PROGRESS_CODE, SUCCESS_CODE
<1>5. s.code \in Codes /\ s.formats = {f}
  BY <1>1, <1>3, <1>4
<1>6. s \in Statuses /\ s # NoStatus
  BY <1>1, <1>4, <1>5 DEF Statuses, NoStatus
<1> QED
  BY <1>1, <1>3, <1>4, <1>5, <1>6 DEF searched

LEMMA SummaryType ==
  ASSUME NEW st \in [Formats -> Statuses \union {NoStatus}], NEW b \in BOOLEAN, NEW d \in BOOLEAN, NEW c \in BOOLEAN
  PROVE  summariseCacheDirInfoStatus(st, b, d, c) \in Statuses \union {NoStatus}
<1>1. \A f \in Formats : st[f] \in Statuses \union {NoStatus}
  OBVIOUS
<1>2. {"ns_cons", "md_cons", "desc", "desc_new", "md", "md_new", "br_status"} \subseteq Formats
  BY DEF Formats, ConsFormats, DescFormats, MdFormats
<1>3. \A x, y \in Statuses \union {NoStatus}, best, ignoreMissing \in BOOLEAN :
         Combine(x, y, best, ignoreMissing) \in Statuses \union {NoStatus}
  BY CombineType
<1>4. NoStatus \in Statuses \union {NoStatus} /\ (~d) \in BOOLEAN /\ TRUE \in BOOLEAN /\ FALSE \in BOOLEAN
  OBVIOUS
<1> HIDE DEF Formats, NoStatus, Statuses
<1> QED
  BY <1>1, <1>2, <1>3, <1>4 DEF summariseCacheDirInfoStatus

LEMMA InitIInv == Init => IInv
<1> SUFFICES ASSUME Init PROVE IInv
  OBVIOUS
<1>1. TypeOK
  <2>1. other \in OtherKinds /\ (fromBridge => other \in {"bridgeauth", "bridgeclient"}) /\ fromBridge \in BOOLEAN
    BY DEF Init, OtherKinds, DirServers
  <2>2. Files \subseteq Formats
    BY <2>1 DEF Files, Paths, Formats, ConsFormats, DescFormats, MdFormats
  <2>3. file \in [Files -> Contents]
    <3>1. PICK content \in Initially : file = [f \in Files |-> content[f]]
      BY DEF Init
    <3>2. content \in [Formats -> Contents]
      BY PollAssumption
    <3> QED BY <2>2, <3>1, <3>2
  <2> QED BY <2>1, <2>3, PollAssumption DEF Init, TypeOK
<1>2. ReadInv
  BY DEF Init, ReadInv
<1>3. VerdictInv
  BY <1>1, PathsInFormats DEF Init, VerdictInv
<1> QED
  BY <1>1, <1>2, <1>3 DEF IInv

\* What was read stays true while only files change, if no document loses its entry.
LEMMA StillRead ==
  ASSUME ReadInv, UNCHANGED <<nodes, Files, status, before>>,
         \A g \in Formats : g \in Files' /\ file'[g] = "missing" => before'[g] = "missing",
         \A f \in Formats : ListedIn(Alternatives(f)) => ListedIn(Alternatives(f))'
  PROVE  ReadInv'
<1> SUFFICES ASSUME NEW f \in Formats, status[f] # NoStatus
             PROVE  /\ f \in Files
                    /\ status[f].formats = {f}
                    /\ status[f].code = SUCCESS_CODE => ListedIn(Alternatives(f))' /\ HasPattern(f, hasKey)
                    /\ status[f].code = MISSING_FILE_CODE => before[f] = "missing"
                    /\ status[f].code = NOT_YET_IMPLEMENTED_CODE => ~HasPattern(f, hasKey)
  BY DEF ReadInv, nodes
<1> QED
  BY DEF ReadInv

LEMMA NextIInv == IInv /\ [Next]_vars => IInv'
<1> SUFFICES ASSUME IInv, [Next]_vars PROVE IInv'
  OBVIOUS
<1>0. TypeOK /\ ReadInv /\ VerdictInv
  BY DEF IInv
<1>1. UNCHANGED nodes => UNCHANGED <<Paths, Files, toDirServer, toBridgeClient>>
  BY <1>0 DEF nodes, Paths, Files, toDirServer, toBridgeClient
<1>2. ASSUME NEW w \in Files, Write(w) PROVE IInv'
  <2>1. /\ file[w] \in Contents
        /\ \A c \in After(file[w]) : c \in Contents \ {"missing"} /\ file[w] # "listed"
    BY <1>0 DEF TypeOK, After, Contents
  <2>2. /\ file' \in [Files -> Contents]
        /\ \A g \in Files : file[g] = "listed" => file'[g] = "listed"
        /\ \A g \in Files : file'[g] = "missing" => file[g] = "missing"
    BY <1>0, <1>2, <2>1 DEF Write, TypeOK
  <2>3. UNCHANGED <<nodes, Paths, Files, status, at, verdict, before, folded>> /\ writes' \in 0..MaxWrites
    BY <1>0, <1>1, <1>2, PollAssumption DEF Write, TypeOK
  <2>4. TypeOK'
    BY <1>0, <2>2, <2>3 DEF TypeOK, nodes
  <2>5. ReadInv'
    <3>1. \A g \in Formats : g \in Files' /\ file'[g] = "missing" => before'[g] = "missing"
      <4> SUFFICES ASSUME NEW g \in Formats, g \in Files, file'[g] = "missing" PROVE before[g] = "missing"
        BY <1>0, <2>3
      <4>1. file[g] = "missing"
        BY <1>0, <2>2
      <4> QED BY <1>0, <4>1 DEF ReadInv
    <3>2. \A S : ListedIn(S) => ListedIn(S)'
      BY <2>2, <2>3 DEF ListedIn
    <3> QED BY <1>0, <2>3, <3>1, <3>2, StillRead
  <2>6. VerdictInv'
    BY <1>0, <1>1, <2>3 DEF VerdictInv, nodes
  <2> QED BY <2>4, <2>5, <2>6 DEF IInv
<1>6. ASSUME NEW j \in Journals \intersect Files, EmptyJournal(j) PROVE IInv'
  <2>1. /\ file' \in [Files -> Contents]
        /\ \A g \in Files : g # j => file'[g] = file[g]
        /\ file'[j] = "empty" /\ file[j] # "missing"
        /\ file[j] = "listed" => file[MainFile(j)] = "listed"
    BY <1>0, <1>6 DEF EmptyJournal, TypeOK, Contents
  <2>2. UNCHANGED <<nodes, Paths, Files, status, at, verdict, before>> /\ writes' \in 0..MaxWrites
    BY <1>0, <1>1, <1>6, PollAssumption DEF EmptyJournal, TypeOK
  <2>3. folded' \in SUBSET (Journals \intersect Files)
    BY <1>0, <1>6 DEF EmptyJournal, TypeOK
  <2>4. TypeOK'
    BY <1>0, <2>1, <2>2, <2>3 DEF TypeOK, nodes
  <2>5. ReadInv'
    <3>1. \A g \in Formats : g \in Files' /\ file'[g] = "missing" => before'[g] = "missing"
      <4> SUFFICES ASSUME NEW g \in Formats, g \in Files, file'[g] = "missing" PROVE before[g] = "missing"
        BY <2>2
      <4>1. file[g] = "missing"
        BY <2>1
      <4> QED BY <1>0, <4>1 DEF ReadInv
    <3>2. \A f \in Formats : ListedIn(Alternatives(f)) => ListedIn(Alternatives(f))'
      <4> SUFFICES ASSUME NEW f \in Formats, NEW g \in Alternatives(f) \intersect Files, file[g] = "listed"
                   PROVE  \E h \in Alternatives(f) \intersect Files : file'[h] = "listed"
        BY <2>2 DEF ListedIn
      <4>1. CASE g # j
        BY <2>1, <4>1
      <4>2. CASE g = j
        <5>1. MainFile(j) \in Files /\ MainFile(j) # j /\ MainFile(j) \in Alternatives(f)
          BY <1>0, <4>2, TogetherInFiles
        <5> QED BY <2>1, <4>2, <5>1
      <4> QED BY <4>1, <4>2
    <3> QED BY <1>0, <2>2, <3>1, <3>2, StillRead
  <2>6. VerdictInv'
    BY <1>0, <1>1, <2>2 DEF VerdictInv, nodes
  <2> QED BY <2>4, <2>5, <2>6 DEF IInv
<1>3. CASE ReadFile
  <2> DEFINE f == Paths[at]
  <2>1. at \in 1..Len(Paths) /\ f \in Files /\ f \in Formats /\ at \in Int
    BY <1>0, <1>3, PathsInFormats DEF ReadFile, TypeOK
  <2>2. file[f] \in Contents /\ hasKey \in BOOLEAN
    BY <1>0, <2>1 DEF TypeOK
  <2>3. UNCHANGED <<nodes, Paths, Files, file, verdict, before, folded, writes>> /\ at' = at + 1
    BY <1>0, <1>1, <1>3 DEF ReadFile
  <2>4. status' = [status EXCEPT ![f] = getFileDirInfoStatus(f, file[f], hasKey)]
    BY <1>0, <1>3 DEF ReadFile
  <2>5. status'[f] = getFileDirInfoStatus(f, file[f], hasKey)
    BY <1>0, <2>1, <2>4 DEF TypeOK
  <2>6. /\ status'[f] \in Statuses /\ status'[f] # NoStatus /\ status'[f].formats = {f}
        /\ status'[f].code = SUCCESS_CODE => file[f] = "listed" /\ HasPattern(f, hasKey)
        /\ status'[f].code = MISSING_FILE_CODE => file[f] = "missing"
        /\ status'[f].code = NOT_YET_IMPLEMENTED_CODE => ~HasPattern(f, hasKey)
    BY <1>0, <2>1, <2>2, <2>5, FileStatusType
  <2>7. TypeOK'
    <3>1. status' \in [Formats -> Statuses \union {NoStatus}]
      BY <1>0, <2>1, <2>4, <2>5, <2>6 DEF TypeOK
    <3>2. at' \in 1..7
      BY <1>0, <2>1, <2>3, PathsInFormats DEF TypeOK
    <3> QED BY <1>0, <2>3, <3>1, <3>2 DEF TypeOK, nodes
  <2> HIDE DEF f
  <2>8. \A g \in Formats : g # f => status'[g] = status[g]
    BY <1>0, <2>4 DEF TypeOK
  <2>9. ReadInv'
    <3>1. \A S : ListedIn(S)' <=> ListedIn(S)
      BY <2>3 DEF ListedIn
    <3>2. \A g \in Formats : g = f /\ status'[g].code = SUCCESS_CODE => ListedIn(Alternatives(g))
      BY <1>0, <2>1, <2>6, TogetherInFiles DEF ListedIn
    <3>3. \A g \in Formats : ListedIn(Alternatives(g)) => ListedIn(Alternatives(g))'
      BY <3>1
    <3>4. \A g \in Formats : g \in Files' /\ file'[g] = "missing" => before'[g] = "missing"
      BY <1>0, <2>3 DEF ReadInv
    <3> SUFFICES ASSUME NEW g \in Formats, status'[g] # NoStatus
                 PROVE  /\ g \in Files
                        /\ status'[g].formats = {g}
                        /\ status'[g].code = SUCCESS_CODE => ListedIn(Alternatives(g))' /\ HasPattern(g, hasKey)
                        /\ status'[g].code = MISSING_FILE_CODE => before[g] = "missing"
                        /\ status'[g].code = NOT_YET_IMPLEMENTED_CODE => ~HasPattern(g, hasKey)
      BY <2>3, <3>4 DEF ReadInv, nodes
    <3>5. CASE g = f
      <4>1. /\ status'[g].formats = {g}
            /\ status'[g].code = SUCCESS_CODE => HasPattern(g, hasKey)
            /\ status'[g].code = MISSING_FILE_CODE => file[g] = "missing"
            /\ status'[g].code = NOT_YET_IMPLEMENTED_CODE => ~HasPattern(g, hasKey)
        BY <2>6, <3>5
      <4>2. status'[g].code = SUCCESS_CODE => ListedIn(Alternatives(g))'
        BY <3>2, <3>3, <3>5
      <4>3. g \in Files
        BY <2>1, <3>5
      <4>4. file[g] = "missing" => before[g] = "missing"
        BY <1>0, <4>3 DEF ReadInv
      <4> QED BY <4>1, <4>2, <4>3, <4>4
    <3>6. CASE g # f
      BY <1>0, <2>8, <3>3, <3>6 DEF ReadInv
    <3> QED BY <3>5, <3>6
  <2>10. VerdictInv'
    <3>1. verdict = NoStatus
      BY <1>0, <2>1 DEF VerdictInv
    <3>2. \A i \in 1..Len(Paths) : status'[Paths[i]] # NoStatus <=> i < at + 1
      <4> TAKE i \in 1..Len(Paths)
      <4>1. CASE i = at
        BY <1>0, <4>1, <2>1, <2>6 DEF f
      <4>2. CASE i # at
        BY <1>0, <4>2, <2>1, <2>8, PathsInFormats DEF VerdictInv, f
      <4> QED BY <1>0, <4>1, <4>2
    <3> QED BY <1>0, <2>3, <3>1, <3>2 DEF VerdictInv
  <2> QED BY <2>7, <2>9, <2>10 DEF IInv
<1>4. CASE Summarise
  <2>1. UNCHANGED <<nodes, Paths, Files, toDirServer, toBridgeClient, file, status, at, before, folded, writes>>
    BY <1>0, <1>1, <1>4 DEF Summarise
  <2>2. verdict' \in Statuses \union {NoStatus}
    <3>1. toDirServer \in BOOLEAN /\ toBridgeClient \in BOOLEAN /\ fromBridge \in BOOLEAN
      BY <1>0 DEF toDirServer, toBridgeClient, TypeOK
    <3>2. status \in [Formats -> Statuses \union {NoStatus}]
      BY <1>0 DEF TypeOK
    <3> QED BY <1>0, <1>4, <3>1, <3>2, SummaryType DEF Summarise
  <2>3. TypeOK'
    BY <1>0, <2>1, <2>2 DEF TypeOK, nodes
  <2>4. ReadInv'
    BY <1>0, <2>1 DEF ReadInv, ListedIn, nodes
  <2>5. VerdictInv'
    BY <1>0, <1>4, <2>1 DEF VerdictInv, Summarise, nodes
  <2> QED BY <2>3, <2>4, <2>5 DEF IInv
<1>5. CASE UNCHANGED vars
  BY <1>0, <1>1, <1>5 DEF IInv, vars, nodes, TypeOK, ReadInv, ListedIn, VerdictInv
<1> QED
  BY <1>2, <1>3, <1>4, <1>5, <1>6 DEF Next

THEOREM PollTypeCorrect == Spec => []TypeOK
BY InitIInv, NextIInv, PTL DEF Spec, IInv

LEMMA PollInv == Spec => []IInv
BY InitIInv, NextIInv, PTL DEF Spec

\* Success is never made up: some operand has it, and its formats are kept.
LEMMA SuccessComesFromOne ==
  ASSUME NEW x \in Statuses \union {NoStatus}, NEW y \in Statuses \union {NoStatus}, NEW best, NEW ignoreMissing,
         Combine(x, y, best, ignoreMissing).code = SUCCESS_CODE
  PROVE  \/ x.code = SUCCESS_CODE /\ x.formats \subseteq Combine(x, y, best, ignoreMissing).formats
         \/ y.code = SUCCESS_CODE /\ y.formats \subseteq Combine(x, y, best, ignoreMissing).formats
BY DEF Combine, Statuses, NoStatus

\* The codes that do not stand in the way of success when missing files are ignored.
Harmless(s) == s.code \in {NoStatus.code, SUCCESS_CODE, MISSING_FILE_CODE, NOT_YET_IMPLEMENTED_CODE}

LEMMA WorstSuccess ==
  ASSUME NEW x \in Statuses \union {NoStatus}, NEW y \in Statuses \union {NoStatus},
         Harmless(Combine(x, y, FALSE, TRUE))
  PROVE  Harmless(x) /\ Harmless(y)
BY DEF Harmless, Combine, Replaces, Statuses, NoStatus, Codes, MISSING_FILE_CODE, NO_RECORDS_CODE, SHORT_FILE_CODE,
       NOT_YET_IMPLEMENTED_CODE, NO_PROGRESS_CODE, SUCCESS_CODE

\* The best of two statuses is that of a missing file only if both files are missing,
\* and not implemented only if neither file has a better one.
LEMMA BestOfTwo ==
  ASSUME NEW x \in Statuses, NEW y \in Statuses
  PROVE  LET c == Combine(x, y, TRUE, TRUE) IN
         /\ c \in Statuses
         /\ c.code = MISSING_FILE_CODE => x.code = MISSING_FILE_CODE /\ y.code = MISSING_FILE_CODE
         /\ c.code = NOT_YET_IMPLEMENTED_CODE => NOT_YET_IMPLEMENTED_CODE \in {x.code, y.code}
         /\ c.code = SUCCESS_CODE => SUCCESS_CODE \in {x.code, y.code}
BY DEF Combine, Replaces, Statuses, NoStatus, Codes, MISSING_FILE_CODE, NO_RECORDS_CODE, SHORT_FILE_CODE,
       NOT_YET_IMPLEMENTED_CODE, NO_PROGRESS_CODE, SUCCESS_CODE

\* The worst of two statuses that are both there and searched.
LEMMA WorstOfTwo ==
  ASSUME NEW x \in Statuses, NEW y \in Statuses,
         x.code \notin {MISSING_FILE_CODE, NOT_YET_IMPLEMENTED_CODE},
         y.code \notin {MISSING_FILE_CODE, NOT_YET_IMPLEMENTED_CODE},
         Harmless(Combine(x, y, FALSE, FALSE))
  PROVE  x.code = SUCCESS_CODE /\ y.code = SUCCESS_CODE
BY DEF Harmless, Combine, Replaces, Statuses, NoStatus, Codes, MISSING_FILE_CODE, NO_RECORDS_CODE, SHORT_FILE_CODE,
       NOT_YET_IMPLEMENTED_CODE, NO_PROGRESS_CODE, SUCCESS_CODE

LEMMA CodesDiffer ==
  /\ NoStatus.code \notin Codes /\ NoStatus \notin Statuses
  /\ SUCCESS_CODE # MISSING_FILE_CODE /\ SUCCESS_CODE # NOT_YET_IMPLEMENTED_CODE
  /\ \A s \in Statuses : s.code \in Codes
BY DEF NoStatus, Statuses, Codes, MISSING_FILE_CODE, NO_RECORDS_CODE, SHORT_FILE_CODE,
       NOT_YET_IMPLEMENTED_CODE, NO_PROGRESS_CODE, SUCCESS_CODE

\* A poll that has come to a verdict has read every file.
LEMMA AllRead ==
  ASSUME IInv, verdict # NoStatus, NEW f \in Files
  PROVE  /\ f \in Formats /\ status[f] \in Statuses
         /\ status[f].code = SUCCESS_CODE => ListedIn(Alternatives(f))
         /\ status[f].code = MISSING_FILE_CODE => before[f] = "missing"
         /\ status[f].code = NOT_YET_IMPLEMENTED_CODE => ~HasPattern(f, hasKey)
<1>1. TypeOK /\ ReadInv /\ VerdictInv
  BY DEF IInv
<1>2. f \in Formats
  BY <1>1, PathsInFormats
<1>3. PICK i \in 1..Len(Paths) : f = Paths[i]
  BY DEF Files
<1>4. i < at
  BY <1>1, PathsInFormats DEF VerdictInv
<1>5. status[f] # NoStatus
  BY <1>1, <1>3, <1>4 DEF VerdictInv
<1> QED
  BY <1>1, <1>2, <1>5 DEF ReadInv, TypeOK

LEMMA Evidence ==
  ASSUME IInv
  PROVE  SuccessHasEvidence /\ BothFlavoursCount
<1> SUFFICES ASSUME Success PROVE SuccessHasEvidence /\ BothFlavoursCount
  BY DEF SuccessHasEvidence, BothFlavoursCount
<1> DEFINE st(f) == status[f]
           descAlts == Combine(st("desc"), st("desc_new"), TRUE, TRUE)
           mdAlts == Combine(st("md"), st("md_new"), TRUE, TRUE)
           consAll == IF fromBridge THEN NoStatus ELSE Combine(st("ns_cons"), st("md_cons"), ~toDirServer, ~toDirServer)
           descAll == IF toBridgeClient
                        THEN IF fromBridge \/ mdAlts.code = MISSING_FILE_CODE THEN descAlts ELSE mdAlts
                        ELSE Combine(descAlts, mdAlts, ~toDirServer, ~toDirServer)
           first == Combine(st("br_status"), consAll, FALSE, TRUE)
<1>1. TypeOK /\ ReadInv /\ VerdictInv /\ verdict # NoStatus
  BY CodesDiffer DEF IInv, Success, NoStatus, Codes
<1>2. verdict = Combine(first, descAll, FALSE, TRUE)
  BY <1>1 DEF VerdictInv, summariseCacheDirInfoStatus
<1>3. \A f \in Formats : st(f) \in Statuses \union {NoStatus}
  BY <1>1 DEF TypeOK
<1>4. {"ns_cons", "md_cons", "desc", "desc_new", "md", "md_new", "br_status"} \subseteq Formats
  BY DEF Formats, ConsFormats, DescFormats, MdFormats
<1> HIDE DEF st
<1>5. /\ descAlts \in Statuses \union {NoStatus} /\ mdAlts \in Statuses \union {NoStatus}
      /\ consAll \in Statuses \union {NoStatus}
  BY <1>3, <1>4, CombineType
<1>6. descAll \in Statuses \union {NoStatus} /\ first \in Statuses \union {NoStatus}
  <2> HIDE DEF descAlts, mdAlts, consAll
  <2> QED BY <1>3, <1>4, <1>5, CombineType
\* The entry that was found.
<1> DEFINE Source(x) == x.code = SUCCESS_CODE /\ x.formats \subseteq verdict.formats
<1>s. ASSUME NEW x \in Statuses \union {NoStatus}, NEW y \in Statuses \union {NoStatus}, NEW b, NEW i,
             Source(Combine(x, y, b, i))
      PROVE  Source(x) \/ Source(y)
  BY <1>s, SuccessComesFromOne
<1>7. Source(verdict)
  BY DEF Success
<1> HIDE DEF Source
<1>8. Source(first) \/ Source(descAlts) \/ Source(mdAlts)
  <2>1. Source(first) \/ Source(descAll)
    <3> HIDE DEF first, descAll
    <3> QED BY <1>2, <1>6, <1>7, <1>s
  <2> HIDE DEF first, descAlts, mdAlts
  <2> QED BY <2>1, <1>5, <1>s
<1>9. ~Source(NoStatus)
  BY CodesDiffer DEF Source, Codes, NoStatus
<1>10. \E f \in Formats : Source(st(f))
  <2>1. Source(first) => Source(st("br_status")) \/ Source(consAll)
    <3> HIDE DEF consAll
    <3> QED BY <1>3, <1>4, <1>5, <1>s
  <2>2. Source(consAll) => Source(st("ns_cons")) \/ Source(st("md_cons"))
    BY <1>3, <1>4, <1>9, <1>s
  <2>3. Source(descAlts) => Source(st("desc")) \/ Source(st("desc_new"))
    BY <1>3, <1>4, <1>s
  <2>4. Source(mdAlts) => Source(st("md")) \/ Source(st("md_new"))
    BY <1>3, <1>4, <1>s
  <2> HIDE DEF first, descAlts, mdAlts, consAll
  <2> QED BY <1>4, <1>8, <2>1, <2>2, <2>3, <2>4
<1>11. PICK f \in Formats : Source(st(f))
  BY <1>10
<1>12. /\ f \in Files /\ ListedIn(Alternatives(f)) /\ f \in verdict.formats /\ HasPattern(f, hasKey)
  <2>1. status[f] # NoStatus
    BY <1>9, <1>11 DEF st
  <2> QED BY <1>1, <1>11, <2>1 DEF ReadInv, Source, st
<1>13. \E g \in verdict.formats : ListedIn(Alternatives(g))
  BY <1>12
<1>14. fromBridge => ListedIn(DescFormats)
  <2>1. fromBridge => f \in DescFormats
    BY <1>12 DEF Files, Paths, HasPattern, DescFormats
  <2>2. f \in DescFormats => Alternatives(f) = DescFormats
    BY DEF Alternatives
  <2> QED BY <1>12, <2>1, <2>2
\* What stands in the way of success.
<1>15. Harmless(consAll) /\ Harmless(descAll)
  <2>1. Harmless(verdict)
    BY DEF Success, Harmless
  <2> HIDE DEF consAll, descAll
  <2>2. Harmless(first) /\ Harmless(descAll)
    <3> HIDE DEF first
    <3> QED BY <1>2, <1>6, <2>1, WorstSuccess
  <2> QED BY <1>3, <1>4, <1>5, <2>2, WorstSuccess
<1>16. ASSUME ~fromBridge
       PROVE  /\ {"ns_cons", "md_cons", "desc", "desc_new", "md", "md_new"} \subseteq Files
              /\ \A g \in ConsFormats \union DescFormats : HasPattern(g, hasKey)
              /\ hasKey => \A g \in MdFormats : HasPattern(g, hasKey)
  BY <1>16 DEF Files, Paths, HasPattern, ConsFormats, DescFormats, MdFormats
<1>17. \A g \in Files :
         /\ st(g) \in Statuses
         /\ st(g).code = SUCCESS_CODE => ListedIn(Alternatives(g))
         /\ st(g).code = MISSING_FILE_CODE => before[g] = "missing"
         /\ st(g).code = NOT_YET_IMPLEMENTED_CODE => ~HasPattern(g, hasKey)
  BY <1>1, AllRead DEF st
<1>22. /\ \A g \in ConsFormats : Alternatives(g) = {g}
       /\ \A g \in DescFormats \union MdFormats : Alternatives(g) \subseteq DescFormats \union MdFormats
  BY DEF Alternatives, ConsFormats, DescFormats, MdFormats
<1>18. other = "client" => ~fromBridge /\ ~toDirServer /\ ~toBridgeClient
  BY <1>1 DEF TypeOK, toDirServer, toBridgeClient, DirServers
<1>19. other = "client" => ListedIn(ConsFormats) \/ MissingBefore(ConsFormats)
  <2> SUFFICES ASSUME other = "client" PROVE ListedIn(ConsFormats) \/ MissingBefore(ConsFormats)
    OBVIOUS
  <2>1. consAll = Combine(st("ns_cons"), st("md_cons"), TRUE, TRUE)
    BY <1>18
  <2>2. st("ns_cons") \in Statuses /\ st("md_cons") \in Statuses
    BY <1>16, <1>17, <1>18
  <2>3. /\ st("ns_cons").code # NOT_YET_IMPLEMENTED_CODE
        /\ st("md_cons").code # NOT_YET_IMPLEMENTED_CODE
    BY <1>16, <1>17, <1>18 DEF ConsFormats
  <2> HIDE DEF consAll
  <2>4. \/ SUCCESS_CODE \in {st("ns_cons").code, st("md_cons").code}
        \/ st("ns_cons").code = MISSING_FILE_CODE /\ st("md_cons").code = MISSING_FILE_CODE
    BY <1>15, <2>1, <2>2, <2>3, BestOfTwo, CodesDiffer DEF Harmless
  <2> QED BY <1>16, <1>17, <1>18, <1>22, <2>4 DEF MissingBefore, ConsFormats, ListedIn
<1>20. other = "client" /\ hasKey =>
         ListedIn(DescFormats \union MdFormats) \/ MissingBefore(DescFormats \union MdFormats)
  <2> SUFFICES ASSUME other = "client", hasKey
               PROVE  ListedIn(DescFormats \union MdFormats) \/ MissingBefore(DescFormats \union MdFormats)
    OBVIOUS
  <2> DEFINE Docs == {"desc", "desc_new", "md", "md_new"}
  <2>1. descAll = Combine(descAlts, mdAlts, TRUE, TRUE)
    BY <1>18
  <2>2. \A g \in Docs : g \in Files /\ st(g) \in Statuses /\ st(g).code # NOT_YET_IMPLEMENTED_CODE
    BY <1>16, <1>17, <1>18 DEF DescFormats, MdFormats
  <2>3. /\ descAlts \in Statuses
        /\ descAlts.code # NOT_YET_IMPLEMENTED_CODE
        /\ descAlts.code = MISSING_FILE_CODE =>
             st("desc").code = MISSING_FILE_CODE /\ st("desc_new").code = MISSING_FILE_CODE
        /\ descAlts.code = SUCCESS_CODE => SUCCESS_CODE \in {st("desc").code, st("desc_new").code}
    BY <2>2, BestOfTwo
  <2>4. /\ mdAlts \in Statuses
        /\ mdAlts.code # NOT_YET_IMPLEMENTED_CODE
        /\ mdAlts.code = MISSING_FILE_CODE =>
             st("md").code = MISSING_FILE_CODE /\ st("md_new").code = MISSING_FILE_CODE
        /\ mdAlts.code = SUCCESS_CODE => SUCCESS_CODE \in {st("md").code, st("md_new").code}
    BY <2>2, BestOfTwo
  <2> HIDE DEF descAlts, mdAlts, descAll
  <2>5. /\ descAll \in Statuses
        /\ descAll.code # NOT_YET_IMPLEMENTED_CODE
        /\ descAll.code = MISSING_FILE_CODE =>
             descAlts.code = MISSING_FILE_CODE /\ mdAlts.code = MISSING_FILE_CODE
        /\ descAll.code = SUCCESS_CODE => SUCCESS_CODE \in {descAlts.code, mdAlts.code}
    BY <2>1, <2>3, <2>4, BestOfTwo
  <2>6. descAll.code \in {SUCCESS_CODE, MISSING_FILE_CODE}
    BY <1>15, <2>5, CodesDiffer DEF Harmless
  <2>7. (\E g \in Docs : st(g).code = SUCCESS_CODE) \/ (\A g \in Docs : st(g).code = MISSING_FILE_CODE)
    BY <2>3, <2>4, <2>5, <2>6
  <2>8. DescFormats \union MdFormats = Docs
    BY DEF DescFormats, MdFormats
  <2>9. (\E g \in Docs : ListedIn(Alternatives(g))) => ListedIn(Docs)
    BY <1>22, <2>8 DEF ListedIn
  <2> QED BY <1>17, <2>2, <2>7, <2>8, <2>9 DEF MissingBefore
<1>21. toDirServer /\ ~fromBridge /\ (\A g \in ConsFormats : before[g] # "missing") =>
         \A g \in ConsFormats : file[g] = "listed"
  <2> SUFFICES ASSUME toDirServer, ~fromBridge, \A g \in ConsFormats : before[g] # "missing"
               PROVE  \A g \in ConsFormats : file[g] = "listed"
    OBVIOUS
  <2>1. consAll = Combine(st("ns_cons"), st("md_cons"), FALSE, FALSE)
    BY <1>18
  <2>2. \A g \in ConsFormats :
          /\ g \in Files /\ st(g) \in Statuses
          /\ st(g).code \notin {MISSING_FILE_CODE, NOT_YET_IMPLEMENTED_CODE}
    BY <1>16, <1>17 DEF ConsFormats
  <2> HIDE DEF consAll
  <2>3. st("ns_cons").code = SUCCESS_CODE /\ st("md_cons").code = SUCCESS_CODE
    BY <1>15, <2>1, <2>2, WorstOfTwo DEF ConsFormats
  <2> QED BY <1>17, <1>22, <2>2, <2>3 DEF ConsFormats, ListedIn
<1> QED
  BY <1>13, <1>14, <1>19, <1>20, <1>21 DEF SuccessHasEvidence, BothFlavoursCount

\* A node is never reported as published at another node without an entry of it
\* in that node's files, also when the other tor folds the journals meanwhile.
THEOREM SuccessSound == Spec => []SuccessHasEvidence
BY PollInv, Evidence, PTL

\* With both consensuses there, a directory server must have the node in both.
THEOREM FlavoursSound == Spec => []BothFlavoursCount
BY PollInv, Evidence, PTL

-----------------------------------------------------------------------------
(* The order of the dict: a combination is the winner of a set.            *)

\* w is what wins among the statuses of S.
Wins(S, w, best, ignoreMissing) ==
  \/ S = {} /\ w = NoStatus
  \/ /\ w \in Statuses
     /\ \E s \in S : s.code = w.code
     /\ \A s \in S : Rank(s.code, best, ignoreMissing) <= Rank(w.code, best, ignoreMissing)
     /\ w.formats = UNION {s.formats : s \in {t \in S : t.code = w.code}}

LEMMA WinnerIsWinning ==
  ASSUME NEW S \in SUBSET Statuses, NEW w, NEW best \in BOOLEAN, NEW ignoreMissing \in BOOLEAN,
         Wins(S, w, best, ignoreMissing)
  PROVE  Winning(S, best, ignoreMissing) = w
<1> DEFINE r(x) == Rank(x.code, best, ignoreMissing)
           V == Winners(S, best, ignoreMissing)
<1>1. CASE S = {} /\ w = NoStatus
  BY <1>1 DEF Winning
<1>2. CASE w \in Statuses /\ S # {}
  <2>1. PICK s \in S : s.code = w.code
    BY <1>2 DEF Wins
  <2>2. \A t \in S : r(t) <= r(w)
    BY <1>2 DEF Wins
  <2>3. \A t \in S : t \in Statuses /\ t.code \in Codes /\ r(t) \in Int
    BY RankType DEF Statuses
  <2>4. w.code \in Codes /\ r(w) \in Int
    BY <1>2, RankType DEF Statuses
  <2>5. \A t \in S : r(t) = r(w) => t.code = w.code
    BY <2>3, <2>4, HigherRankReplaces
  <2>6. V = {t \in S : t.code = w.code}
    <3>1. V = {t \in S : \A u \in S : r(u) <= r(t)}
      BY DEF Winners
    <3> HIDE DEF V
    <3>2. r(s) = r(w)
      BY <2>1
    <3>3. ASSUME NEW t \in S, t.code = w.code
          PROVE  \A u \in S : r(u) <= r(t)
      <4>1. r(t) = r(w)
        BY <3>3
      <4> HIDE DEF r
      <4> QED BY <2>2, <4>1
    <3> HIDE DEF r
    <3>4. ASSUME NEW t \in S, \A u \in S : r(u) <= r(t)
          PROVE  t.code = w.code
      BY <2>1, <2>2, <2>3, <2>4, <2>5, <3>2, <3>4
    <3> QED BY <3>1, <3>3, <3>4
  <2>7. (CHOOSE t \in V : TRUE).code = w.code
    <3>1. s \in V
      BY <2>1, <2>6
    <3>2. (CHOOSE t \in V : TRUE) \in V
      BY <3>1
    <3> QED BY <2>6, <3>2
  <2>8. Winning(S, best, ignoreMissing) = [code |-> (CHOOSE t \in V : TRUE).code, formats |-> UNION {t.formats : t \in V}]
    BY <1>2, Zenon DEF Winning
  <2>9. w.formats = UNION {t.formats : t \in V}
    BY <1>2, <2>6 DEF Wins
  <2>10. w = [code |-> w.code, formats |-> w.formats]
    BY <1>2 DEF Statuses
  <2> QED BY <2>7, <2>8, <2>9, <2>10
<1> QED
  BY <1>1, <1>2 DEF Wins

\* One status wins alone.
LEMMA FirstWins ==
  ASSUME NEW x \in Statuses \union {NoStatus}, NEW best \in BOOLEAN, NEW ignoreMissing \in BOOLEAN
  PROVE  Wins(Known(x), x, best, ignoreMissing)
<1>1. CASE x = NoStatus
  BY <1>1 DEF Wins, Known
<1>2. CASE x # NoStatus
  <2>1. Known(x) = {x} /\ x \in Statuses
    BY <1>2 DEF Known
  <2>2. Rank(x.code, best, ignoreMissing) \in Int
    BY <2>1, RankType DEF Statuses
  <2> QED BY <2>1, <2>2 DEF Wins
<1> QED
  BY <1>1, <1>2

\* One more status is combined with the winner of the others.
LEMMA NextWins ==
  ASSUME NEW S \in SUBSET Statuses, NEW w \in Statuses \union {NoStatus}, NEW z \in Statuses \union {NoStatus},
         NEW best \in BOOLEAN, NEW ignoreMissing \in BOOLEAN, Wins(S, w, best, ignoreMissing)
  PROVE  Wins(S \union Known(z), Combine(w, z, best, ignoreMissing), best, ignoreMissing)
<1> DEFINE r(x) == Rank(x.code, best, ignoreMissing)
           both == Combine(w, z, best, ignoreMissing)
<1>1. CASE z = NoStatus
  BY <1>1 DEF Known, Combine
<1>2. CASE S = {} /\ w = NoStatus /\ z # NoStatus
  <2>1. S \union Known(z) = Known(z) /\ both = z
    BY <1>2 DEF Combine
  <2> QED BY <2>1, FirstWins
<1>3. CASE w \in Statuses /\ z \in Statuses
  <2>1. S \union Known(z) = S \union {z}
    BY <1>3, CodesDiffer DEF Known
  <2>2. /\ \E s \in S : s.code = w.code
        /\ \A s \in S : r(s) <= r(w)
        /\ w.formats = UNION {s.formats : s \in {t \in S : t.code = w.code}}
    BY <1>3, CodesDiffer DEF Wins
  <2>3. /\ r(w) \in Int /\ r(z) \in Int /\ \A s \in S : r(s) \in Int
        /\ r(w) > r(z) => both = w
        /\ r(w) < r(z) => both = z
        /\ r(w) = r(z) => w.code = z.code /\ both = [code |-> w.code, formats |-> w.formats \union z.formats]
    BY <1>3, CombineByRank, RankType DEF Statuses
  <2>4. \A s \in S, x \in Statuses : s.code = x.code => r(s) = r(x)
    OBVIOUS
  <2> HIDE DEF r, both
  <2>5. CASE r(w) > r(z)
    <3>1. z.code # w.code
      BY <2>3, <2>5 DEF r
    <3>2. {t \in S \union {z} : t.code = w.code} = {t \in S : t.code = w.code}
      BY <3>1
    <3>3. \A s \in S \union {z} : r(s) <= r(w)
      BY <2>2, <2>3, <2>5
    <3> QED BY <1>3, <2>1, <2>2, <2>3, <2>5, <3>2, <3>3 DEF Wins, r, both
  <2>6. CASE r(w) < r(z)
    <3>1. \A s \in S : r(s) < r(z)
      BY <2>2, <2>3, <2>6
    <3>2. {t \in S \union {z} : t.code = z.code} = {z}
      BY <1>3, <2>3, <2>4, <3>1
    <3>3. \A s \in S \union {z} : r(s) <= r(z)
      BY <2>3, <3>1
    <3>4. z.formats = UNION {s.formats : s \in {t \in S \union {z} : t.code = z.code}}
      BY <3>2
    <3> QED BY <1>3, <2>1, <2>3, <2>6, <3>3, <3>4 DEF Wins, r, both
  <2>7. CASE r(w) = r(z)
    <3>1. w.code = z.code /\ both = [code |-> w.code, formats |-> w.formats \union z.formats]
      BY <2>3, <2>7
    <3>2. {t \in S \union {z} : t.code = w.code} = {t \in S : t.code = w.code} \union {z}
      BY <3>1
    <3>3. \A s \in S \union {z} : r(s) <= r(w)
      BY <2>2, <2>3, <2>7
    <3>4. w.formats \union z.formats = UNION {s.formats : s \in {t \in S \union {z} : t.code = w.code}}
      BY <2>2, <3>2
    <3>5. both \in Statuses /\ both.code = w.code /\ both.formats = w.formats \union z.formats
      BY <1>3, <3>1 DEF Statuses
    <3> QED BY <2>1, <2>2, <3>3, <3>4, <3>5 DEF Wins, r, both
  <2> QED BY <2>3, <2>5, <2>6, <2>7
<1> QED
  BY <1>1, <1>2, <1>3, CodesDiffer DEF Wins

\* So a fold over two or three keys is the winner of the statuses that they have.
LEMMA OfTwo ==
  ASSUME NEW x \in Statuses \union {NoStatus}, NEW y \in Statuses \union {NoStatus},
         NEW best \in BOOLEAN, NEW ignoreMissing \in BOOLEAN
  PROVE  Winning(Known(x) \union Known(y), best, ignoreMissing) = Combine(x, y, best, ignoreMissing)
<1>1. Known(x) \in SUBSET Statuses /\ Known(x) \union Known(y) \in SUBSET Statuses
  BY DEF Known
<1>2. Wins(Known(x) \union Known(y), Combine(x, y, best, ignoreMissing), best, ignoreMissing)
  BY <1>1, FirstWins, NextWins
<1> QED
  BY <1>1, <1>2, WinnerIsWinning

LEMMA OfThree ==
  ASSUME NEW x \in Statuses \union {NoStatus}, NEW y \in Statuses \union {NoStatus},
         NEW z \in Statuses \union {NoStatus}, NEW best \in BOOLEAN, NEW ignoreMissing \in BOOLEAN
  PROVE  Winning(Known(x) \union Known(y) \union Known(z), best, ignoreMissing)
           = Combine(Combine(x, y, best, ignoreMissing), z, best, ignoreMissing)
<1> DEFINE S == Known(x) \union Known(y)
           w == Combine(x, y, best, ignoreMissing)
<1>1. Known(x) \in SUBSET Statuses /\ S \in SUBSET Statuses /\ S \union Known(z) \in SUBSET Statuses
  BY DEF Known
<1>2. Wins(S, w, best, ignoreMissing)
  BY <1>1, FirstWins, NextWins
<1>3. w \in Statuses \union {NoStatus}
  BY CombineType
<1> HIDE DEF S, w
<1>4. Wins(S \union Known(z), Combine(w, z, best, ignoreMissing), best, ignoreMissing)
  BY <1>1, <1>2, <1>3, NextWins
<1>5. Winning(S \union Known(z), best, ignoreMissing) = Combine(w, z, best, ignoreMissing)
  BY <1>1, <1>4, WinnerIsWinning
<1> QED
  BY <1>5 DEF S, w

LEMMA Unordered ==
  ASSUME IInv
  PROVE  OrderIsIrrelevant
<1> SUFFICES ASSUME verdict # NoStatus PROVE OrderIsIrrelevant
  BY DEF OrderIsIrrelevant
<1> DEFINE st(f) == status[f]
           worst == ~toDirServer
           desc == Winning(Of(DescFormats), TRUE, TRUE)
           md == Winning(Of(MdFormats), TRUE, TRUE)
           cons == IF fromBridge THEN NoStatus ELSE Winning(Of(ConsFormats), worst, worst)
           docs == IF ~toBridgeClient THEN Winning(Known(desc) \union Known(md), worst, worst)
                   ELSE IF fromBridge \/ md.code = MISSING_FILE_CODE THEN desc ELSE md
<1>1. TypeOK /\ VerdictInv
  BY DEF IInv
<1>2. worst \in BOOLEAN /\ fromBridge \in BOOLEAN /\ toBridgeClient \in BOOLEAN
  BY <1>1 DEF TypeOK, toBridgeClient
<1>3. \A f \in Formats : st(f) \in Statuses \union {NoStatus}
  BY <1>1 DEF TypeOK
<1>4. {"ns_cons", "md_cons", "desc", "desc_new", "md", "md_new", "br_status"} \subseteq Formats
  BY DEF Formats, ConsFormats, DescFormats, MdFormats
<1>5. /\ Of(DescFormats) = Known(st("desc")) \union Known(st("desc_new"))
      /\ Of(MdFormats) = Known(st("md")) \union Known(st("md_new"))
      /\ Of(ConsFormats) = Known(st("ns_cons")) \union Known(st("md_cons"))
  BY DEF Of, Known, DescFormats, MdFormats, ConsFormats
<1>6. verdict = Combine(Combine(st("br_status"),
                                IF fromBridge THEN NoStatus ELSE Combine(st("ns_cons"), st("md_cons"), worst, worst),
                                FALSE, TRUE),
                        IF toBridgeClient
                          THEN IF fromBridge \/ Combine(st("md"), st("md_new"), TRUE, TRUE).code = MISSING_FILE_CODE
                                 THEN Combine(st("desc"), st("desc_new"), TRUE, TRUE)
                                 ELSE Combine(st("md"), st("md_new"), TRUE, TRUE)
                          ELSE Combine(Combine(st("desc"), st("desc_new"), TRUE, TRUE),
                                       Combine(st("md"), st("md_new"), TRUE, TRUE), worst, worst),
                        FALSE, TRUE)
  BY <1>1 DEF VerdictInv, summariseCacheDirInfoStatus
<1> HIDE DEF st, worst
<1>7. /\ desc = Combine(st("desc"), st("desc_new"), TRUE, TRUE)
      /\ md = Combine(st("md"), st("md_new"), TRUE, TRUE)
      /\ cons = IF fromBridge THEN NoStatus ELSE Combine(st("ns_cons"), st("md_cons"), worst, worst)
  <2>1. \A x, y \in Statuses \union {NoStatus}, b \in BOOLEAN :
          Winning(Known(x) \union Known(y), b, b) = Combine(x, y, b, b)
    BY OfTwo
  <2>2. desc = Combine(st("desc"), st("desc_new"), TRUE, TRUE)
    BY <1>3, <1>4, <1>5, <2>1
  <2>3. md = Combine(st("md"), st("md_new"), TRUE, TRUE)
    BY <1>3, <1>4, <1>5, <2>1
  <2>4. cons = IF fromBridge THEN NoStatus ELSE Combine(st("ns_cons"), st("md_cons"), worst, worst)
    BY <1>2, <1>3, <1>4, <1>5, <2>1
  <2> QED BY <2>2, <2>3, <2>4
<1> HIDE DEF desc, md, cons
<1>8. desc \in Statuses \union {NoStatus} /\ md \in Statuses \union {NoStatus} /\ cons \in Statuses \union {NoStatus}
  BY <1>3, <1>4, <1>7, CombineType
<1>9. docs = IF toBridgeClient THEN IF fromBridge \/ md.code = MISSING_FILE_CODE THEN desc ELSE md
             ELSE Combine(desc, md, worst, worst)
  BY <1>2, <1>8, OfTwo
<1>10. docs \in Statuses \union {NoStatus}
  BY <1>8, <1>9, CombineType
<1>11. verdict = Combine(Combine(st("br_status"), cons, FALSE, TRUE), docs, FALSE, TRUE)
  BY <1>6, <1>7, <1>9
<1> HIDE DEF docs
<1>12. verdict = Winning(Known(st("br_status")) \union Known(cons) \union Known(docs), FALSE, TRUE)
  <2> DEFINE br == st("br_status")
  <2>1. br \in Statuses \union {NoStatus}
    BY <1>3, <1>4
  <2> HIDE DEF br
  <2>2. Winning(Known(br) \union Known(cons) \union Known(docs), FALSE, TRUE)
          = Combine(Combine(br, cons, FALSE, TRUE), docs, FALSE, TRUE)
    BY <1>8, <1>10, <2>1, OfThree
  <2> QED BY <1>11, <2>2 DEF br
<1> QED
  BY <1>12 DEF OrderIsIrrelevant, st, worst, desc, md, cons, docs

\* The verdict is the same in whatever order the dicts hold the statuses.
THEOREM OrderNeverMatters == Spec => []OrderIsIrrelevant
BY PollInv, Unordered, PTL

-----------------------------------------------------------------------------
(* No false alarm but two. An entry that a journal alone had is found in   *)
(* it, or in the main file, or was moved past the reader; without the key  *)
(* the microdescriptors count for nothing, unless a file of them is empty. *)

\* What the poll cannot miss. A consensus or bridge networkstatus that was there when
\* the poll began is there when it is read. A descriptor is in one of its two files
\* until both are read, and found there, unless it is moved past the reader.
FoundInv ==
  /\ \A f \in Files \ Journals :
       /\ before[f] = "listed" => file[f] = "listed"
       /\ before[f] \notin {"missing", "empty"} => file[f] \notin {"missing", "empty"}
  /\ \A f \in Formats \ Journals : status[f] # NoStatus =>
       /\ before[f] = "listed" /\ HasPattern(f, hasKey) => status[f].code = SUCCESS_CODE
       /\ f = "br_status" /\ before[f] \notin {"missing", "empty"} => status[f].code = NOT_YET_IMPLEMENTED_CODE
  /\ \A j \in Journals \intersect Files :
       before[j] = "listed" /\ HasPattern(j, hasKey) =>
         \/ j \in folded
         \/ status[MainFile(j)].code = SUCCESS_CODE
         \/ status[j].code = SUCCESS_CODE
         \/ status[j] = NoStatus /\ file[j] = "listed"
         \/ status[MainFile(j)] = NoStatus /\ file[MainFile(j)] = "listed"

LEMMA ListedIsFound ==
  ASSUME NEW f \in Formats, NEW c \in Contents, hasKey \in BOOLEAN
  PROVE  LET s == getFileDirInfoStatus(f, c, hasKey) IN
         /\ c = "listed" /\ HasPattern(f, hasKey) => s.code = SUCCESS_CODE
         /\ f = "br_status" /\ c \notin {"missing", "empty"} => s.code = NOT_YET_IMPLEMENTED_CODE
<1>1. getFileDirInfoStatus(f, c, hasKey).code
        = IF c = "listed" /\ HasPattern(f, hasKey) THEN SUCCESS_CODE ELSE Unlisted(c, HasPattern(f, hasKey))
  BY DEF getFileDirInfoStatus
<1>2. f = "br_status" => ~HasPattern(f, hasKey)
  BY DEF HasPattern
<1>3. c \notin {"missing", "empty"} => Unlisted(c, FALSE) = NOT_YET_IMPLEMENTED_CODE
  BY DEF Unlisted, Contents
<1>4. (f = "br_status") => (HasPattern(f, hasKey) <=> FALSE)
  BY <1>2
<1> DEFINE searched == HasPattern(f, hasKey)
<1>5. searched \in BOOLEAN
  BY DEF HasPattern
<1>6. (f = "br_status") => searched = FALSE
  BY <1>4, <1>5
<1> HIDE DEF searched
<1> QED
  BY <1>1, <1>3, <1>5, <1>6 DEF searched

LEMMA InitFound == Init => FoundInv
<1> SUFFICES ASSUME Init PROVE FoundInv
  OBVIOUS
<1>1. TypeOK
  BY InitIInv DEF IInv
<1>2. Files \subseteq Formats /\ \A f \in Formats : status[f] = NoStatus
  BY <1>1, PathsInFormats DEF Init
<1> QED
  BY <1>2 DEF Init, FoundInv

LEMMA NextFound == IInv /\ FoundInv /\ [Next]_vars => FoundInv'
<1> SUFFICES ASSUME IInv, FoundInv, [Next]_vars PROVE FoundInv'
  OBVIOUS
<1>0. TypeOK /\ ReadInv /\ VerdictInv
  BY DEF IInv
<1>1. UNCHANGED nodes => UNCHANGED <<Paths, Files>>
  BY <1>0 DEF nodes, Paths, Files
<1>j. \A j \in Journals \intersect Files :
        /\ MainFile(j) \in Files /\ MainFile(j) \in Formats \ Journals /\ j \in Formats /\ MainFile(j) # j
        /\ HasPattern(MainFile(j), hasKey) <=> HasPattern(j, hasKey)
  BY <1>0, TogetherInFiles, PathsInFormats DEF Journals, MainFile, HasPattern, MdFormats
<1>2. ASSUME NEW w \in Files, Write(w) PROVE FoundInv'
  <2>1. \A c \in After(file[w]) :
          file[w] # "listed" /\ (file[w] # "missing" => c \notin {"missing", "empty"})
    BY <1>0 DEF TypeOK, After, Contents
  <2>2. \A g \in Files :
          /\ file[g] = "listed" => file'[g] = "listed"
          /\ file[g] \notin {"missing", "empty"} => file'[g] \notin {"missing", "empty"}
    BY <1>0, <1>2, <2>1 DEF Write, TypeOK
  <2>3. UNCHANGED <<hasKey, Files, status, before, folded>>
    BY <1>1, <1>2 DEF Write, nodes
  <2> QED BY <1>j, <2>2, <2>3 DEF FoundInv
<1>6. ASSUME NEW e \in Journals \intersect Files, EmptyJournal(e) PROVE FoundInv'
  <2>1. /\ \A g \in Files : g # e => file'[g] = file[g]
        /\ file[e] = "listed" => file[MainFile(e)] = "listed"
    BY <1>0, <1>6 DEF EmptyJournal, TypeOK
  <2>2. UNCHANGED <<hasKey, Files, status, before>>
    BY <1>1, <1>6 DEF EmptyJournal, nodes
  <2>3. folded \subseteq folded' /\ (status[MainFile(e)] # NoStatus /\ status[e] = NoStatus => e \in folded')
    BY <1>6 DEF EmptyJournal
  <2>4. \A f \in Files \ Journals : file'[f] = file[f]
    BY <2>1
  <2>5. ASSUME NEW j \in Journals \intersect Files, before[j] = "listed", HasPattern(j, hasKey)
        PROVE  \/ j \in folded'
               \/ status[MainFile(j)].code = SUCCESS_CODE
               \/ status[j].code = SUCCESS_CODE
               \/ status[j] = NoStatus /\ file'[j] = "listed"
               \/ status[MainFile(j)] = NoStatus /\ file'[MainFile(j)] = "listed"
    <3>1. file'[MainFile(j)] = file[MainFile(j)]
      BY <1>j, <2>4
    <3>2. CASE j = e
      BY <2>1, <2>3, <2>5, <3>1, <3>2 DEF FoundInv
    <3>3. CASE j # e
      BY <2>1, <2>3, <2>5, <3>1, <3>3 DEF FoundInv
    <3> QED BY <3>2, <3>3
  <2> QED BY <2>2, <2>4, <2>5 DEF FoundInv
<1>3. CASE ReadFile
  <2> DEFINE f == Paths[at]
  <2>1. at \in 1..Len(Paths) /\ f \in Files /\ f \in Formats
    BY <1>0, <1>3, PathsInFormats DEF ReadFile, TypeOK
  <2>2. file[f] \in Contents /\ hasKey \in BOOLEAN
    BY <1>0, <2>1 DEF TypeOK
  <2>3. UNCHANGED <<hasKey, Files, file, before, folded>>
    BY <1>1, <1>3 DEF ReadFile, nodes
  <2>4. status' = [status EXCEPT ![f] = getFileDirInfoStatus(f, file[f], hasKey)]
    BY <1>3 DEF ReadFile
  <2>n. status[f] = NoStatus
    BY <1>0, <2>1 DEF VerdictInv, TypeOK
  <2> HIDE DEF f
  <2>5. status'[f] = getFileDirInfoStatus(f, file[f], hasKey) /\ \A g \in Formats : g # f => status'[g] = status[g]
    BY <1>0, <2>1, <2>4 DEF TypeOK
  <2>6. /\ file[f] = "listed" /\ HasPattern(f, hasKey) => status'[f].code = SUCCESS_CODE
        /\ f = "br_status" /\ file[f] \notin {"missing", "empty"} => status'[f].code = NOT_YET_IMPLEMENTED_CODE
    BY <2>1, <2>2, <2>5, ListedIsFound
  <2>7. NoStatus.code # SUCCESS_CODE
    BY CodesDiffer DEF Codes
  <2>8. \A g \in Formats \ Journals : status'[g] # NoStatus =>
          /\ before[g] = "listed" /\ HasPattern(g, hasKey) => status'[g].code = SUCCESS_CODE
          /\ g = "br_status" /\ before[g] \notin {"missing", "empty"} => status'[g].code = NOT_YET_IMPLEMENTED_CODE
    BY <2>1, <2>5, <2>6 DEF FoundInv
  <2>9. ASSUME NEW j \in Journals \intersect Files, before[j] = "listed", HasPattern(j, hasKey)
        PROVE  \/ j \in folded
               \/ status'[MainFile(j)].code = SUCCESS_CODE
               \/ status'[j].code = SUCCESS_CODE
               \/ status'[j] = NoStatus /\ file[j] = "listed"
               \/ status'[MainFile(j)] = NoStatus /\ file[MainFile(j)] = "listed"
    <3>1. \/ j \in folded
          \/ status[MainFile(j)].code = SUCCESS_CODE
          \/ status[j].code = SUCCESS_CODE
          \/ status[j] = NoStatus /\ file[j] = "listed"
          \/ status[MainFile(j)] = NoStatus /\ file[MainFile(j)] = "listed"
      BY <2>9 DEF FoundInv
    <3>2. /\ MainFile(j) \in Formats /\ j \in Formats /\ MainFile(j) # j
          /\ HasPattern(MainFile(j), hasKey)
      BY <1>j, <2>9
    <3>3. CASE f = j
      <4>1. status'[MainFile(j)] = status[MainFile(j)]
        BY <2>5, <3>2, <3>3
      <4>2. file[j] = "listed" => status'[j].code = SUCCESS_CODE
        BY <2>6, <2>9, <3>3
      <4>3. status[j].code # SUCCESS_CODE
        BY <2>7, <2>n, <3>3
      <4> QED BY <3>1, <4>1, <4>2, <4>3
    <3>4. CASE f = MainFile(j)
      <4>1. status'[j] = status[j]
        BY <2>5, <3>2, <3>4
      <4>2. file[MainFile(j)] = "listed" => status'[MainFile(j)].code = SUCCESS_CODE
        BY <2>6, <3>2, <3>4
      <4>3. status[MainFile(j)].code # SUCCESS_CODE
        BY <2>7, <2>n, <3>4
      <4> QED BY <3>1, <4>1, <4>2, <4>3
    <3>5. CASE f # j /\ f # MainFile(j)
      <4>1. status'[j] = status[j] /\ status'[MainFile(j)] = status[MainFile(j)]
        BY <2>5, <3>2, <3>5
      <4> QED BY <3>1, <4>1
    <3> QED BY <3>3, <3>4, <3>5
  <2> QED BY <2>3, <2>8, <2>9 DEF FoundInv
<1>4. CASE Summarise
  BY <1>1, <1>4 DEF Summarise, FoundInv, nodes
<1>5. CASE UNCHANGED vars
  BY <1>1, <1>5 DEF vars, FoundInv, nodes
<1> QED
  BY <1>2, <1>3, <1>4, <1>5, <1>6 DEF Next

LEMMA Found == Spec => []FoundInv
BY PollInv, InitFound, NextFound, PTL DEF Spec

\* The best of two is success if one of them is.
LEMMA SuccessIsBest ==
  ASSUME NEW x \in Statuses \union {NoStatus}, NEW y \in Statuses \union {NoStatus},
         SUCCESS_CODE \in {x.code, y.code}
  PROVE  Combine(x, y, TRUE, TRUE).code = SUCCESS_CODE
BY DEF Combine, Replaces, Statuses, NoStatus, Codes, MISSING_FILE_CODE, NO_RECORDS_CODE, SHORT_FILE_CODE,
       NOT_YET_IMPLEMENTED_CODE, NO_PROGRESS_CODE, SUCCESS_CODE

\* Success is kept by another success, by nothing, and by what is not implemented.
LEMMA SuccessStays ==
  ASSUME NEW x \in Statuses \union {NoStatus}, NEW y \in Statuses \union {NoStatus},
         NEW best \in BOOLEAN, NEW ignoreMissing \in BOOLEAN,
         x.code \in {NoStatus.code, NOT_YET_IMPLEMENTED_CODE, SUCCESS_CODE}, y.code = SUCCESS_CODE
  PROVE  Combine(x, y, best, ignoreMissing).code = SUCCESS_CODE
BY DEF Combine, Replaces, Statuses, NoStatus, Codes, MISSING_FILE_CODE, NO_RECORDS_CODE, SHORT_FILE_CODE,
       NOT_YET_IMPLEMENTED_CODE, NO_PROGRESS_CODE, SUCCESS_CODE

\* Nor is it outweighed by what counts for nothing.
LEMMA SuccessOutweighs ==
  ASSUME NEW x \in Statuses \union {NoStatus}, NEW y \in Statuses \union {NoStatus},
         NEW best \in BOOLEAN, NEW ignoreMissing \in BOOLEAN,
         x.code = SUCCESS_CODE, y.code \in {NoStatus.code, NOT_YET_IMPLEMENTED_CODE, SUCCESS_CODE}
  PROVE  Combine(x, y, best, ignoreMissing).code = SUCCESS_CODE
BY DEF Combine, Replaces, Statuses, NoStatus, Codes, MISSING_FILE_CODE, NO_RECORDS_CODE, SHORT_FILE_CODE,
       NOT_YET_IMPLEMENTED_CODE, NO_PROGRESS_CODE, SUCCESS_CODE

\* Of two files that are not searched, of which one is there.
LEMMA NothingOfTwo ==
  ASSUME NEW x \in Statuses, NEW y \in Statuses,
         x.code \in {MISSING_FILE_CODE, NOT_YET_IMPLEMENTED_CODE},
         y.code \in {MISSING_FILE_CODE, NOT_YET_IMPLEMENTED_CODE},
         NOT_YET_IMPLEMENTED_CODE \in {x.code, y.code}
  PROVE  Combine(x, y, TRUE, TRUE).code = NOT_YET_IMPLEMENTED_CODE
BY DEF Combine, Replaces, Statuses, NoStatus, Codes, MISSING_FILE_CODE, NO_RECORDS_CODE, SHORT_FILE_CODE,
       NOT_YET_IMPLEMENTED_CODE, NO_PROGRESS_CODE, SUCCESS_CODE

\* What the status of a file that is not searched can be.
UnsearchedInv ==
  \A f \in Formats : status[f] # NoStatus /\ ~HasPattern(f, hasKey) =>
    status[f].code \in {MISSING_FILE_CODE, NO_RECORDS_CODE, NOT_YET_IMPLEMENTED_CODE}

LEMMA Unsearched == Spec => []UnsearchedInv
<1>1. Init => UnsearchedInv
  BY DEF Init, UnsearchedInv
<1>2. IInv /\ UnsearchedInv /\ [Next]_vars => UnsearchedInv'
  <2> SUFFICES ASSUME IInv, UnsearchedInv, [Next]_vars PROVE UnsearchedInv'
    OBVIOUS
  <2>0. TypeOK
    BY DEF IInv
  <2>1. CASE ReadFile
    <3> DEFINE f == Paths[at]
    <3>1. f \in Files /\ f \in Formats
      BY <2>0, <2>1, PathsInFormats DEF ReadFile, TypeOK
    <3>2. file[f] \in Contents /\ hasKey' = hasKey
      BY <2>0, <2>1, <3>1 DEF ReadFile, TypeOK, nodes
    <3>3. status' = [status EXCEPT ![f] = getFileDirInfoStatus(f, file[f], hasKey)]
      BY <2>1 DEF ReadFile
    <3> HIDE DEF f
    <3>4. status'[f].code = IF file[f] = "listed" /\ HasPattern(f, hasKey) THEN SUCCESS_CODE
                            ELSE Unlisted(file[f], HasPattern(f, hasKey))
      BY <2>0, <3>1, <3>3 DEF getFileDirInfoStatus, TypeOK
    <3>5. \A c \in Contents : Unlisted(c, FALSE) \in {MISSING_FILE_CODE, NO_RECORDS_CODE, NOT_YET_IMPLEMENTED_CODE}
      BY DEF Unlisted, Contents
    <3>6. HasPattern(f, hasKey) \in BOOLEAN
      BY DEF HasPattern
    <3>7. ~HasPattern(f, hasKey) => status'[f].code \in {MISSING_FILE_CODE, NO_RECORDS_CODE, NOT_YET_IMPLEMENTED_CODE}
      <4> DEFINE searched == HasPattern(f, hasKey)
      <4>1. searched \in BOOLEAN
        BY <3>6
      <4>2. status'[f].code = IF file[f] = "listed" /\ searched THEN SUCCESS_CODE ELSE Unlisted(file[f], searched)
        BY <3>4
      <4> HIDE DEF searched
      <4>3. ~searched => status'[f].code \in {MISSING_FILE_CODE, NO_RECORDS_CODE, NOT_YET_IMPLEMENTED_CODE}
        <5> SUFFICES ASSUME ~searched
                     PROVE  status'[f].code \in {MISSING_FILE_CODE, NO_RECORDS_CODE, NOT_YET_IMPLEMENTED_CODE}
          OBVIOUS
        <5>1. searched = FALSE
          BY <4>1
        <5>2. status'[f].code = Unlisted(file[f], searched)
          BY <4>2
        <5>3. status'[f].code = Unlisted(file[f], FALSE)
          BY <5>1, <5>2
        <5> QED BY <3>2, <3>5, <5>3
      <4> QED BY <4>3 DEF searched
    <3>8. \A g \in Formats : g # f => status'[g] = status[g]
      BY <2>0, <3>3 DEF TypeOK
    <3> QED BY <3>2, <3>7, <3>8 DEF UnsearchedInv
  <2>2. CASE UNCHANGED <<hasKey, status>>
    BY <2>2 DEF UnsearchedInv
  <2>3. ReadFile \/ UNCHANGED <<hasKey, status>>
    BY DEF Next, Write, EmptyJournal, Summarise, vars, nodes
  <2> QED BY <2>1, <2>2, <2>3
<1> QED
  BY <1>1, <1>2, PollInv, PTL DEF Spec

LEMMA NoAlarm ==
  ASSUME IInv, FoundInv, UnsearchedInv
  PROVE  CompleteIsFound
<1> SUFFICES ASSUME verdict # NoStatus, Complete(before), ~Moved, ~EmptyOutweighs PROVE Success
  BY DEF CompleteIsFound
<1> DEFINE st(f) == status[f]
           worst == ~toDirServer
           descAlts == Combine(st("desc"), st("desc_new"), TRUE, TRUE)
           mdAlts == Combine(st("md"), st("md_new"), TRUE, TRUE)
           consAll == IF fromBridge THEN NoStatus ELSE Combine(st("ns_cons"), st("md_cons"), worst, worst)
           descAll == IF toBridgeClient
                        THEN IF fromBridge \/ mdAlts.code = MISSING_FILE_CODE THEN descAlts ELSE mdAlts
                        ELSE Combine(descAlts, mdAlts, worst, worst)
           first == Combine(st("br_status"), consAll, FALSE, TRUE)
           found(f) == st(f).code = SUCCESS_CODE
<1>1. TypeOK /\ ReadInv /\ VerdictInv
  BY DEF IInv
<1>2. verdict = Combine(first, descAll, FALSE, TRUE)
  BY <1>1 DEF VerdictInv, summariseCacheDirInfoStatus
<1>3. \A f \in Formats : st(f) \in Statuses \union {NoStatus}
  BY <1>1 DEF TypeOK
<1>4. {"ns_cons", "md_cons", "desc", "desc_new", "md", "md_new", "br_status"} \subseteq Formats
  BY DEF Formats, ConsFormats, DescFormats, MdFormats
<1>5. worst \in BOOLEAN /\ fromBridge \in BOOLEAN
  BY <1>1 DEF TypeOK
<1>20. \A f \in Files : st(f) # NoStatus
  BY AllRead, CodesDiffer
<1>6. /\ \A f \in Files \ Journals : before[f] = "listed" /\ HasPattern(f, hasKey) => found(f)
      /\ \A j \in Journals \intersect Files :
           before[j] = "listed" /\ HasPattern(j, hasKey) => found(j) \/ found(MainFile(j))
  <2>1. ASSUME NEW f \in Files \ Journals, before[f] = "listed", HasPattern(f, hasKey)
        PROVE  found(f)
    BY <1>1, <1>20, <2>1, PathsInFormats DEF FoundInv
  <2>2. ASSUME NEW j \in Journals \intersect Files, before[j] = "listed", HasPattern(j, hasKey)
        PROVE  found(j) \/ found(MainFile(j))
    <3>1. MainFile(j) \in Files \ Journals /\ HasPattern(MainFile(j), hasKey)
      BY <1>1, <2>2, TogetherInFiles DEF Journals, MainFile, HasPattern, MdFormats
    <3>2. CASE before[MainFile(j)] = "listed"
      BY <2>1, <3>1, <3>2
    <3>3. CASE before[MainFile(j)] # "listed"
      <4>1. j \notin folded
        BY <2>2, <3>3 DEF Moved
      <4>2. status[j] # NoStatus /\ status[MainFile(j)] # NoStatus
        BY <1>20, <3>1
      <4> QED BY <2>2, <4>1, <4>2 DEF FoundInv
    <3> QED BY <3>2, <3>3
  <2> HIDE DEF found
  <2> QED BY <2>1, <2>2
<1>7. \A f \in Formats \ Files : st(f) = NoStatus
  BY <1>1 DEF ReadInv
<1>8. st("br_status").code \in {NoStatus.code, NOT_YET_IMPLEMENTED_CODE}
  <2>1. CASE "br_status" \in Files
    <3>1. before["br_status"] \notin {"missing", "empty"}
      BY <2>1 DEF Complete
    <3>2. st("br_status") # NoStatus
      BY <1>20, <2>1
    <3> QED BY <1>4, <3>1, <3>2 DEF FoundInv, Journals
  <2>2. CASE "br_status" \notin Files
    BY <1>4, <1>7, <2>2
  <2> QED BY <2>1, <2>2
<1>9. found("desc") \/ found("desc_new")
  <2>1. \E f \in {"desc", "desc_new"} \intersect Files : before[f] = "listed"
    BY DEF Complete, DescFormats
  <2>2. HasPattern("desc", hasKey) /\ HasPattern("desc_new", hasKey)
    BY DEF HasPattern, MdFormats
  <2> HIDE DEF found
  <2> QED BY <1>6, <2>1, <2>2 DEF Journals, MainFile
<1>10. ~fromBridge /\ hasKey => found("md") \/ found("md_new")
  <2> SUFFICES ASSUME ~fromBridge, hasKey PROVE found("md") \/ found("md_new")
    OBVIOUS
  <2>1. \E f \in {"md", "md_new"} \intersect Files : before[f] = "listed"
    BY DEF Complete, MdFormats
  <2>2. HasPattern("md", hasKey) /\ HasPattern("md_new", hasKey)
    BY DEF HasPattern
  <2> HIDE DEF found
  <2> QED BY <1>6, <2>1, <2>2 DEF Journals, MainFile
\* Without the key, the microdescriptors count for nothing.
<1>21. ~fromBridge /\ ~hasKey => mdAlts.code = NOT_YET_IMPLEMENTED_CODE
  <2> SUFFICES ASSUME ~fromBridge, ~hasKey PROVE mdAlts.code = NOT_YET_IMPLEMENTED_CODE
    OBVIOUS
  <2>1. \A f \in {"md", "md_new"} :
          /\ f \in Files /\ st(f) \in Statuses
          /\ st(f).code \in {MISSING_FILE_CODE, NOT_YET_IMPLEMENTED_CODE}
          /\ st(f).code = MISSING_FILE_CODE => before[f] = "missing"
    <3> SUFFICES ASSUME NEW f \in {"md", "md_new"}
                 PROVE  /\ f \in Files /\ st(f) \in Statuses
                        /\ st(f).code \in {MISSING_FILE_CODE, NOT_YET_IMPLEMENTED_CODE}
                        /\ st(f).code = MISSING_FILE_CODE => before[f] = "missing"
      OBVIOUS
    <3>1. f \in Files /\ st(f) \in Statuses /\ (st(f).code = MISSING_FILE_CODE => before[f] = "missing")
      BY <1>1, TogetherInFiles, AllRead
    <3>2. ~HasPattern(f, hasKey) /\ f \in MdFormats
      BY DEF HasPattern, MdFormats
    <3>3. st(f).code # NO_RECORDS_CODE
      BY <3>2 DEF EmptyOutweighs
    <3>4. st(f).code \in {MISSING_FILE_CODE, NO_RECORDS_CODE, NOT_YET_IMPLEMENTED_CODE}
      BY <1>1, <1>20, <3>1, <3>2, PathsInFormats DEF UnsearchedInv
    <3> QED BY <3>1, <3>3, <3>4
  <2>2. \E f \in {"md", "md_new"} : before[f] = "listed"
    BY DEF Complete, MdFormats
  <2> DEFINE x == st("md")
             y == st("md_new")
  <2>3. /\ x \in Statuses /\ x.code \in {MISSING_FILE_CODE, NOT_YET_IMPLEMENTED_CODE}
        /\ y \in Statuses /\ y.code \in {MISSING_FILE_CODE, NOT_YET_IMPLEMENTED_CODE}
        /\ x.code = MISSING_FILE_CODE => before["md"] = "missing"
        /\ y.code = MISSING_FILE_CODE => before["md_new"] = "missing"
    BY <2>1
  <2>4. mdAlts = Combine(x, y, TRUE, TRUE)
    OBVIOUS
  <2> HIDE DEF x, y, mdAlts
  <2>5. NOT_YET_IMPLEMENTED_CODE \in {x.code, y.code}
    <3>1. before["md"] = "listed" \/ before["md_new"] = "listed"
      BY <2>2
    <3>2. x.code # MISSING_FILE_CODE \/ y.code # MISSING_FILE_CODE
      BY <2>3, <3>1
    <3> QED BY <2>3, <3>2
  <2> QED BY <2>3, <2>4, <2>5, NothingOfTwo
<1>11. ~fromBridge => IF toDirServer THEN found("ns_cons") /\ found("md_cons") ELSE found("ns_cons") \/ found("md_cons")
  <2> SUFFICES ASSUME ~fromBridge
               PROVE  IF toDirServer THEN found("ns_cons") /\ found("md_cons") ELSE found("ns_cons") \/ found("md_cons")
    OBVIOUS
  <2>1. {"ns_cons", "md_cons"} \subseteq Files
    BY DEF Files, Paths
  <2>2. IF toDirServer THEN before["ns_cons"] = "listed" /\ before["md_cons"] = "listed"
                       ELSE before["ns_cons"] = "listed" \/ before["md_cons"] = "listed"
    BY <2>1 DEF Complete, ConsFormats
  <2>3. HasPattern("ns_cons", hasKey) /\ HasPattern("md_cons", hasKey)
    BY DEF HasPattern, MdFormats
  <2> HIDE DEF found
  <2> QED BY <1>6, <2>1, <2>2, <2>3 DEF Journals
<1>12. fromBridge => st("md") = NoStatus /\ st("md_new") = NoStatus
  <2>1. fromBridge => "md" \notin Files /\ "md_new" \notin Files
    BY DEF Files, Paths
  <2> QED BY <1>4, <1>7, <2>1
<1> HIDE DEF st
<1>13. /\ descAlts \in Statuses \union {NoStatus} /\ mdAlts \in Statuses \union {NoStatus}
       /\ consAll \in Statuses \union {NoStatus}
  BY <1>3, <1>4, CombineType
<1>14. descAlts.code = SUCCESS_CODE
  BY <1>3, <1>4, <1>9, SuccessIsBest
<1>15. IF fromBridge THEN mdAlts = NoStatus ELSE mdAlts.code \in {NOT_YET_IMPLEMENTED_CODE, SUCCESS_CODE}
  <2>1. fromBridge => mdAlts = NoStatus
    BY <1>12 DEF Combine
  <2>2. ~fromBridge /\ hasKey => mdAlts.code = SUCCESS_CODE
    BY <1>3, <1>4, <1>10, SuccessIsBest
  <2> HIDE DEF mdAlts
  <2> QED BY <1>21, <2>1, <2>2
<1>16. IF fromBridge THEN consAll = NoStatus ELSE consAll.code = SUCCESS_CODE
  <2> SUFFICES ASSUME ~fromBridge PROVE consAll.code = SUCCESS_CODE
    OBVIOUS
  <2> DEFINE x == st("ns_cons")
             y == st("md_cons")
  <2>0. consAll = Combine(x, y, worst, worst)
    OBVIOUS
  <2>1. x \in Statuses \union {NoStatus} /\ y \in Statuses \union {NoStatus}
    BY <1>3, <1>4
  <2>2. IF toDirServer THEN x.code = SUCCESS_CODE /\ y.code = SUCCESS_CODE ELSE SUCCESS_CODE \in {x.code, y.code}
    BY <1>11
  <2> HIDE DEF x, y, consAll
  <2>3. CASE toDirServer
    <3>1. Combine(x, y, worst, worst).code = SUCCESS_CODE
      <4> HIDE DEF worst
      <4> QED BY <1>5, <2>1, <2>2, <2>3, SuccessStays
    <3> QED BY <2>0, <3>1
  <2>4. CASE ~toDirServer
    <3>1. consAll = Combine(x, y, TRUE, TRUE)
      BY <2>0, <2>4
    <3> QED BY <2>1, <2>2, <2>4, <3>1, SuccessIsBest
  <2> QED BY <2>3, <2>4
<1>17. /\ descAll \in Statuses \union {NoStatus}
       /\ descAll.code \in {NOT_YET_IMPLEMENTED_CODE, SUCCESS_CODE}
       /\ fromBridge => descAll.code = SUCCESS_CODE
  <2> HIDE DEF descAlts, mdAlts, worst
  <2>1. \A b \in BOOLEAN : Combine(descAlts, mdAlts, b, b) \in Statuses \union {NoStatus}
    BY <1>13, CombineType
  <2>2. \A b \in BOOLEAN : ~fromBridge => Combine(descAlts, mdAlts, b, b).code = SUCCESS_CODE
    BY <1>13, <1>14, <1>15, SuccessOutweighs
  <2>3. \A b \in BOOLEAN : fromBridge => Combine(descAlts, mdAlts, b, b) = descAlts
    BY <1>15 DEF Combine
  <2>4. ~fromBridge => mdAlts.code # MISSING_FILE_CODE
    BY <1>15 DEF MISSING_FILE_CODE, NOT_YET_IMPLEMENTED_CODE, SUCCESS_CODE
  <2> QED BY <1>5, <1>13, <1>14, <1>15, <2>1, <2>2, <2>3, <2>4
<1>18. /\ first \in Statuses \union {NoStatus}
       /\ first.code \in {NoStatus.code, NOT_YET_IMPLEMENTED_CODE, SUCCESS_CODE}
       /\ ~fromBridge => first.code = SUCCESS_CODE
  <2> DEFINE br == st("br_status")
  <2>1. br \in Statuses \union {NoStatus} /\ br.code \in {NoStatus.code, NOT_YET_IMPLEMENTED_CODE}
    BY <1>3, <1>4, <1>8
  <2> HIDE DEF br, consAll
  <2>2. Combine(br, consAll, FALSE, TRUE) \in Statuses \union {NoStatus}
    BY <1>13, <2>1, CombineType
  <2>3. fromBridge => Combine(br, consAll, FALSE, TRUE) = br
    BY <1>16 DEF Combine
  <2>4. ~fromBridge => Combine(br, consAll, FALSE, TRUE).code = SUCCESS_CODE
    BY <1>13, <1>16, <2>1, SuccessStays
  <2> QED BY <2>1, <2>2, <2>3, <2>4 DEF br
<1>19. Combine(first, descAll, FALSE, TRUE).code = SUCCESS_CODE
  <2> HIDE DEF first, descAll
  <2>1. CASE descAll.code = SUCCESS_CODE
    BY <1>17, <1>18, <2>1, SuccessStays
  <2>2. CASE first.code = SUCCESS_CODE
    BY <1>17, <1>18, <2>2, SuccessOutweighs
  <2> QED BY <1>17, <1>18, <2>1, <2>2
<1> QED
  BY <1>2, <1>19 DEF Success

\* A node that is published everywhere the poll looks when it begins is found, however
\* the other tor's writes fall between the reads, with the two exceptions that
\* CompleteIsFound names.
THEOREM CompleteFound == Spec => []CompleteIsFound
BY PollInv, Found, Unsearched, NoAlarm, PTL
=============================================================================
