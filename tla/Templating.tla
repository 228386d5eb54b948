----------------------------- MODULE Templating -----------------------------
(***************************************************************************)
(* Environments and templates (lib/chutney/Templating.py), and the values  *)
(* that TorEnviron computes (lib/chutney/TorNet.py).                       *)
(*                                                                         *)
(* A text is a sequence of tokens: what stands for itself, and what        *)
(* substitute() replaces. Whatever may be missing is a set of at most one  *)
(* text; the empty set is a KeyError, or a ValueError of substitute().     *)
(***************************************************************************)
EXTENDS Integers, SequencesExt

CONSTANT MaxIterations   \* Template.MAX_ITERATIONS

ASSUME TemplatingAssumption == MaxIterations \in Nat

Literal(s) == [kind |-> "literal", name |-> s]
Number(n) == [kind |-> "number", value |-> n]
Line(option, who, keys) == [kind |-> "line", option |-> option, who |-> who, keys |-> keys]

Variable(key) == [kind |-> "variable", name |-> key]    \* ${key}
File(f) == [kind |-> "file", name |-> f]                \* ${include:f}
Program(p) == [kind |-> "program", name |-> p]          \* ${path:p}
Deferred(key) == [kind |-> "deferred", name |-> key]    \* $${include:$key}

Replaced == {"variable", "file", "program", "deferred"}

-----------------------------------------------------------------------------
(* Environments: a sequence of dictionaries, the node's own one first.     *)

Explicit(env, key) ==
  LET holders == {i \in DOMAIN env : key \in DOMAIN env[i]} IN
  IF holders = {} THEN {} ELSE {env[Min(holders)][key]}

\* Sums and texts that TorEnviron computes. It asks the most specific environment for
\* what they consist of.
Sums == [orport |-> "orport_base", dirport |-> "dirport_base",
         controlport |-> "controlport_base", socksport |-> "socksport_base",
         extorport |-> "extorport_base", ptport |-> "ptport_base"]

Texts == [nick |-> <<Literal("test"), Variable("nodenum"), Variable("tag")>>,
          dir |-> <<Variable("net_base_dir"), Literal("/nodes/"), Variable("nodenum"), Variable("tag")>>]

Plus(a, b) == <<Number(a[1].value + b[1].value)>>

Part(env, token) == IF token.kind = "variable" THEN Explicit(env, token.name) ELSE {<<token>>}

\* The texts of some places one after the other, if there is one for each.
Joined(values) ==
  IF \E i \in DOMAIN values : values[i] = {} THEN {}
  ELSE {FlattenSeq([i \in DOMAIN values |-> CHOOSE text \in values[i] : TRUE])}

Computed(env, key) ==
  IF key \in DOMAIN Sums
  THEN {Plus(base, num) : base \in Explicit(env, Sums[key]), num \in Explicit(env, "nodenum")}
  ELSE IF key \in DOMAIN Texts
  THEN Joined([i \in DOMAIN Texts[key] |-> Part(env, Texts[key][i])])
  ELSE {}

\* What is computed comes before all that a parent says: the environments of the node
\* and of its parents all have the methods, and the first one is asked first.
Lookup(env, key) ==
  IF key \in DOMAIN env[1] THEN {env[1][key]}
  ELSE IF Computed(env, key) # {} THEN Computed(env, key)
  ELSE Explicit(env, key)

-----------------------------------------------------------------------------
(* Templates. The world of a template is its environment, the files on its *)
(* include path, and the mode bits of the programs on the PATH.            *)

\* 0x111, where 0o111 is meant: readable by the owner, writable by the group,
\* executable by others.
ModeMask == {8, 4, 0}

\* A deferred include is the text of an include afterwards, if the key has a name.
Value(world, token) ==
  CASE token.kind = "variable" -> Lookup(world.env, token.name)
    [] token.kind = "file" -> {world.files[f] : f \in {token.name} \intersect DOMAIN world.files}
    [] token.kind = "program" ->
         {<<Literal(token.name)>> :
            p \in {q \in {token.name} \intersect DOMAIN world.modes : world.modes[q] \intersect ModeMask # {}}}
    [] token.kind = "deferred" ->
         {<<File(text[1].name)>> :
            text \in {t \in Lookup(world.env, token.name) : Len(t) = 1 /\ t[1].kind = "literal"}}
    [] OTHER -> {<<token>>}

Substitute(world, text) == Joined([i \in DOMAIN text |-> Value(world, text[i])])

\* The text after n substitutions.
After(world, pattern) ==
  LET after[n \in 0..(MaxIterations + 1)] ==
        IF n = 0 THEN {pattern} ELSE UNION {Substitute(world, text) : text \in after[n - 1]}
  IN after

\* Mutant: when the iterations are used up, the text so far is the result.
FormatGivesUp(world, pattern) ==
  LET after == After(world, pattern)
      final == {n \in 0..MaxIterations : after[n + 1] = after[n]}
  IN IF final = {} THEN after[MaxIterations] ELSE after[Min(final)]

\* Template.format: substitutes until nothing changes. One substitution is needed to
\* see that, the iterations before it are counted.
Format(world, pattern) ==
  LET after == After(world, pattern)
      final == {n \in 0..MaxIterations : after[n + 1] = after[n]}
  IN IF final = {} THEN {} ELSE after[Min(final)]

-----------------------------------------------------------------------------
(* What a template means, told from inside: within n levels a token means  *)
(* what its value means within n - 1, and a text what its tokens mean.     *)

Names(world) ==
  (UNION {DOMAIN world.env[i] : i \in DOMAIN world.env})
    \union DOMAIN Sums \union DOMAIN Texts \union DOMAIN world.files \union DOMAIN world.modes

\* A token read with these meanings; one without a meaning there has none.
Reading(meanings, token) ==
  IF token.kind \notin Replaced THEN {<<token>>}
  ELSE UNION {meanings[named] :
                named \in {[kind |-> token.kind, name |-> token.name]} \intersect DOMAIN meanings}

Read(meanings, text) == Joined([i \in DOMAIN text |-> Reading(meanings, text[i])])

Meanings(world) ==
  LET within[n \in 0..MaxIterations] ==
        [token \in [kind : Replaced, name : Names(world)] |->
           IF n = 0 THEN {} ELSE UNION {Read(within[n - 1], value) : value \in Value(world, token)}]
  IN within

Meaning(world, text) == Read(Meanings(world)[MaxIterations], text)

\* Environments and files hold texts: sequences of tokens.
IsText(text) == text \in Seq(Range(text))

IsWorld(world) ==
  /\ 1 \in DOMAIN world.env /\ DOMAIN world.env \subseteq Nat
  /\ \A i \in DOMAIN world.env : \A key \in DOMAIN world.env[i] : IsText(world.env[i][key])
  /\ \A f \in DOMAIN world.files : IsText(world.files[f])

\* The one exception are texts that substitution reproduces.
MeansWhatItSays(world, text) ==
  \/ Format(world, text) = Meaning(world, text)
  \/ \E t \in Format(world, text) :
       Substitute(world, t) = {t} /\ \E i \in DOMAIN t : t[i].kind \in Replaced
=============================================================================
