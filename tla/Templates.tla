----------------------------- MODULE Templates -----------------------------
(***************************************************************************)
(* The text level of the permission catalog: command, group and path       *)
(* templates with {placeholders}, the constraint a record puts on each     *)
(* parameter, the gates a finished text must pass, and rendering.          *)
(*                                                                         *)
(* A text is a sequence of atoms: a word of a command, a component of a    *)
(* path, or the name of a placeholder.  What a character-level check looks *)
(* for is a mark on the text.  The length of a value is its atom count.    *)
(***************************************************************************)
EXTENDS Naturals, Sequences, FiniteSets, SequencesExt, Sequencing

CONSTANTS Params,        \* placeholder names
          DefaultMaxLen, \* PARAM_DEFAULT_MAX_LEN, in atoms
          PortableNames  \* the user names that useradd accepts

ASSUME TextAssumption == DefaultMaxLen \in Nat /\ IsFiniteSet(Params) /\ ".." \notin Params

\* "ctl" control character, "blank" white space inside a value, "meta" a
\* sudoers or shell metacharacter, "star" a * or ?, "bracket" a [,
\* "at" one of @ : / \ which a token may hold and a plain name may not.
Marks == {"ctl", "blank", "meta", "star", "bracket", "at"}

NoBound == 0             \* max_len left out
Bits == {"read", "write", "execute", "traverse"}

Text(abs, atoms, marks) == [abs |-> abs, atoms |-> atoms, marks |-> marks, slash |-> FALSE]
IsText(t) == t = [abs |-> t.abs, atoms |-> t.atoms, marks |-> t.marks, slash |-> t.slash]
Grant(path, access, recursive) == [path |-> path, access |-> access, recursive |-> recursive]
Lit(a) == Text(TRUE, <<a>>, {})
Word(a) == Text(FALSE, <<a>>, {})

Placeholders(t) == Range(t.atoms) \cap Params
HasPlaceholder(t) == Placeholders(t) # {}
HasDotDot(t) == ".." \in Range(t.atoms)
HasGlob(t) == t.marks \cap {"star", "bracket"} # {}

PathAtOrUnder(parent, child) ==
  parent.abs = child.abs /\ IsPrefix(parent.atoms, child.atoms)

(***************************************************************************)
(* The gates on a finished text, and their parse-time forms, which leave   *)
(* to the rendered text what a template cannot be judged on.               *)
(***************************************************************************)
AlwaysIllegal(t) == "ctl" \in t.marks \/ t.atoms = <<>>
NotRooted(t) == ~t.abs \/ HasDotDot(t)

SudoCommandDefect(t) == AlwaysIllegal(t) \/ NotRooted(t)
SudoStaticDefect(t) == AlwaysIllegal(t) \/ (~HasPlaceholder(t) /\ ~t.abs)
FilePathDefect(t) == AlwaysIllegal(t) \/ NotRooted(t)
FilePathStaticDefect(t) == AlwaysIllegal(t) \/ (~HasPlaceholder(t) /\ NotRooted(t))
GroupNameDefect(t) == AlwaysIllegal(t) \/ t.abs \/ HasDotDot(t) \/ t.marks # {}
RunasDefect(u) == u \notin PortableNames

\* The shape decides the backend; a glob is never a plain path.
Shape(g) == CASE HasGlob(g.path) -> "pattern"
              [] ~HasGlob(g.path) /\ (g.recursive \/ g.path.slash) -> "dir"
              [] OTHER -> "file"

TrailingSlashDefect(g) == g.path.slash /\ ~g.recursive
StaticPathDefect(g) ==
  \/ FilePathStaticDefect(g.path)
  \/ TrailingSlashDefect(g) /\ ~HasPlaceholder(g.path)

(***************************************************************************)
(* Parameter constraints.                                                  *)
(***************************************************************************)
Constraint(kind, prefixes, values, deny, max) ==
  [kind |-> kind, allow_prefix |-> prefixes, values |-> values,
   deny_glob |-> deny, max_len |-> max]
IsConstraint(c) == c = Constraint(c.kind, c.allow_prefix, c.values, c.deny_glob, c.max_len)

DeclarationDefect(c) ==
  \/ c.kind = "path" /\ (c.allow_prefix = {} \/ \E p \in c.allow_prefix : ~p.abs \/ ~p.slash)
  \/ c.kind = "enum" /\ c.values = {}

Normalized(c) ==
  [c EXCEPT !.max_len = IF c.kind # "enum" /\ @ = NoBound THEN DefaultMaxLen ELSE @,
            !.deny_glob = IF c.kind = "path" /\ @ = "unset" THEN "deny" ELSE @]

TooLong(c, v) == Len(v.atoms) > Normalized(c).max_len

ValueDefect(c, v) ==
  CASE c.kind = "token" -> v.atoms = <<>> \/ TooLong(c, v) \/ ~(v.marks \subseteq {"at"})
    [] c.kind = "path" ->
         \/ TooLong(c, v)
         \/ \A p \in c.allow_prefix : ~PathAtOrUnder(p, v)
         \/ Normalized(c).deny_glob = "deny" /\ HasGlob(v)
    [] c.kind = "enum" -> v \notin c.values
    [] c.kind = "segment" ->
         \/ v.atoms = <<>> \/ TooLong(c, v)
         \/ v.abs \/ Len(v.atoms) > 1 \/ HasDotDot(v) \/ v.marks # {}

\* What no role may pass, whatever the constraint says.
ParamValueDefect(v) ==
  v.atoms = <<>> \/ v.marks \cap {"ctl", "blank", "meta", "star"} # {}

(***************************************************************************)
(* Rendering.  A parameter value is a scalar, a list of scalars, or        *)
(* something that has no string form ("other").                            *)
(***************************************************************************)
Scalar(v) == [form |-> "scalar", items |-> <<v>>]
List(s) == [form |-> "list", items |-> s]
Other == [form |-> "other", items |-> <<>>]

Fail(e) == [ok |-> FALSE, err |-> e]

\* scalar_param_string, param_value_defect and check_param_constraint, for one
\* placeholder; "none" when its value may be spliced in.
ParamError(p, params, constraints) ==
  CASE p \notin DOMAIN params -> "MissingParam"
    [] p \in DOMAIN params /\ params[p].form = "other" -> "InvalidParamValue"
    [] p \in DOMAIN params /\ (\E v \in Range(params[p].items) : ParamValueDefect(v)) -> "InvalidParamValue"
    [] p \in DOMAIN params /\ params[p].items # <<>> /\ p \notin DOMAIN constraints ->
         "ParamConstraintViolation"
    [] p \in DOMAIN params /\ p \in DOMAIN constraints
         /\ (\E v \in Range(params[p].items) : ValueDefect(constraints[p], v)) -> "ParamConstraintViolation"
    [] OTHER -> "none"

\* The text with every placeholder p of f replaced by f[p].
Substitute(t, f) ==
  [abs |-> IF t.atoms # <<>> /\ Head(t.atoms) \in DOMAIN f THEN f[Head(t.atoms)].abs ELSE t.abs,
   atoms |-> FlattenSeq([i \in DOMAIN t.atoms |->
                           IF t.atoms[i] \in DOMAIN f THEN f[t.atoms[i]].atoms ELSE <<t.atoms[i]>>]),
   marks |-> t.marks \cup UNION {f[p].marks : p \in Range(t.atoms) \cap DOMAIN f},
   slash |-> IF t.atoms # <<>> /\ Last(t.atoms) \in DOMAIN f THEN f[Last(t.atoms)].slash ELSE t.slash]

OrElse(e, f) == IF e # "none" THEN e ELSE f

\* The error of each placeholder of t, in the order they are met; the second
\* list among them is one.
SecondList(t, i, lists) ==
  t.atoms[i] \in lists /\ \E j \in 1..(i - 1) : t.atoms[j] \in lists \ {t.atoms[i]}
PlaceholderErrors(t, lists, params, constraints) ==
  [i \in DOMAIN t.atoms |->
     IF t.atoms[i] \notin Params THEN "none"
     ELSE OrElse(ParamError(t.atoms[i], params, constraints),
                 IF SecondList(t, i, lists) THEN "MultipleListParams" ELSE "none")]

FirstOf(errors) ==
  IF \A i \in DOMAIN errors : errors[i] = "none" THEN "none"
  ELSE errors[CHOOSE i \in DOMAIN errors :
                errors[i] # "none" /\ \A j \in 1..(i - 1) : errors[j] = "none"]

\* The k-th value of each placeholder: a list gives its k-th element.
Picked(names, lists, params, k) ==
  [p \in names |-> params[p].items[IF p \in lists THEN k ELSE 1]]

RenderWith(t, lists, params) ==
  [ok |-> TRUE,
   texts |-> [k \in 1..(IF lists = {} THEN 1 ELSE Len(params[CHOOSE p \in lists : TRUE].items)) |->
                Substitute(t, Picked(Placeholders(t), lists, params, k))]]

\* Every placeholder has a value to splice in, and at most one of them is a list.
Renderable(t, lists, params, constraints) ==
  /\ \A p \in Placeholders(t) : ParamError(p, params, constraints) = "none"
  /\ \A p, q \in lists : p = q

ListsAmong(names, params) == {p \in names : p \in DOMAIN params /\ params[p].form = "list"}
RenderOver(t, lists, params, constraints) ==
  IF Renderable(t, lists, params, constraints) THEN RenderWith(t, lists, params)
  ELSE Fail(FirstOf(PlaceholderErrors(t, lists, params, constraints)))

\* The texts a template stands for: one, or one per element of its only list.
Render(t, params, constraints) ==
  RenderOver(t, ListsAmong(Placeholders(t), params), params, constraints)
=============================================================================
