-------------------------------- MODULE L10n --------------------------------
(***************************************************************************)
(* The texts that label permissions and controls (l10n.rs).  A source of   *)
(* texts is a sequence of files [locale, map, broken] in load order, root  *)
(* by root; a description is a function from some of its fields to words.  *)
(***************************************************************************)
EXTENDS Naturals, Sequences, FiniteSets, SequencesExt

CONSTANTS SafeLocales    \* the names is_safe_locale accepts

DefaultLocale == "en"
Overlay(below, above) == [f \in DOMAIN below \cup DOMAIN above |->
                            IF f \in DOMAIN above THEN above[f] ELSE below[f]]

\* load_locale: the files of one locale in order, a broken one left out.
LoadLocale(texts, locale) ==
  LET use == SelectSeq(texts, LAMBDA t : t.locale = locale /\ ~t.broken)
      put(m, t) == [id \in DOMAIN m \cup DOMAIN t.map |->
                      IF id \notin DOMAIN t.map THEN m[id]
                      ELSE Overlay(IF id \in DOMAIN m THEN m[id] ELSE <<>>, t.map[id])]
  IN IF locale \in SafeLocales THEN FoldLeft(put, <<>>, use) ELSE <<>>

AvailableLocales(texts) == {t.locale : t \in Range(texts)} \cap SafeLocales

\* resolve_text: each field from the locale asked for, else from English; the
\* title is the bare id when neither has one.
ResolveText(texts, locale, id) ==
  LET of(l) == LET m == LoadLocale(texts, l) IN IF id \in DOMAIN m THEN m[id] ELSE <<>>
      d == Overlay(of(DefaultLocale), of(locale))
  IN [title |-> IF "title" \in DOMAIN d THEN d["title"] ELSE id, rest |-> d]

\* lang_from_env: the locale asked for by name is taken as it is; one from the
\* environment, a pair <<base, rest>>, is cut to its base.
Unset == <<"", "">>
LangFromEnv(env) ==
  LET set == SelectSeq(<<env.explicit, env.lc_messages[1], env.lang[1]>>, LAMBDA s : s # "")
  IN IF set = <<>> THEN DefaultLocale ELSE Head(set)

MissingTranslations(texts, locales, ids) ==
  {x \in locales \X ids :
     LET m == LoadLocale(texts, x[1]) IN x[2] \notin DOMAIN m \/ "title" \notin DOMAIN m[x[2]]}
OrphanTranslations(texts, locales, ids) ==
  UNION {{<<l, id>> : id \in DOMAIN LoadLocale(texts, l) \ ids} : l \in locales}
=============================================================================
