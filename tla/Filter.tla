--------------------------------- MODULE Filter ---------------------------------
(***************************************************************************)
(* The patterns by which files are excluded from backups and selected for  *)
(* restores: internal/filter.                                              *)
(*                                                                         *)
(* A path is the sequence that splitPath makes of it, with "/" in front if *)
(* it is absolute; a pattern has its parts and isNegated.  The parts are   *)
(* names, "*" (for all patterns that filepath.Match knows), "[" (for the   *)
(* malformed ones) and "**".  The answers are "yes", "no" and "error".     *)
(***************************************************************************)
EXTENDS Integers, Sequences
LOCAL INSTANCE SequencesExt
LOCAL INSTANCE FiniteSetsExt

Wildcard == "**"

\* filepath.Match, or a comparison if the part is simple.
matchPart(part, str) ==
  IF part = "[" THEN "error" ELSE IF part = str \/ (part = "*" /\ str # "/") THEN "yes" ELSE "no"

\* The position of the first "**", or 0.
hasDoubleWildcard(parts) ==
  IF Contains(parts, Wildcard) THEN Min({i \in DOMAIN parts : parts[i] = Wildcard}) ELSE 0

\* The first answer other than "no", in the order of the sequence.
FirstAnswer(answers) ==
  LET some == {i \in DOMAIN answers : answers[i] # "no"}
  IN  IF some = {} THEN "no" ELSE answers[Min(some)]

\* The parts are compared from the last to the first, until one does not match.
matchAt(parts, strs, offset) ==
  LET no == {i \in DOMAIN parts : matchPart(parts[i], strs[offset + i]) # "yes"}
  IN  IF no = {} THEN "yes" ELSE matchPart(parts[Max(no)], strs[offset + Max(no)])

\* Mutant of matchFixed: a pattern is only compared with the end of the path.
matchEnd(parts, strs) ==
  IF parts = <<>> THEN IF strs = <<>> THEN "yes" ELSE "no"
  ELSE IF Len(parts) > Len(strs) THEN "no"
  ELSE matchAt(parts, strs, Len(strs) - Len(parts))

\* match for a pattern without "**": an absolute one is for the start of the path, others may
\* match anywhere, and what is below the last part is matched as well.
matchFixed(parts, strs) ==
  IF parts = <<>> THEN IF strs = <<>> THEN "yes" ELSE "no"
  ELSE IF Len(parts) > Len(strs) THEN "no"
  ELSE LET maxOffset == IF parts[1] = "/" THEN 0 ELSE Len(strs) - Len(parts)
           minOffset == IF parts[1] # "/" /\ strs[1] = "/" THEN 1 ELSE 0
       IN  FirstAnswer([k \in 1 .. (maxOffset - minOffset + 1) |-> matchAt(parts, strs, maxOffset - k + 1)])

\* "**" is expanded to no, one, two, ... wildcards.
RECURSIVE match(_, _)
match(parts, strs) ==
  LET pos == hasDoubleWildcard(parts)
      expanded(i) == SubSeq(parts, 1, pos - 1) \o [j \in 1 .. i |-> "*"] \o SubSeq(parts, pos + 1, Len(parts))
  IN  IF pos = 0 THEN matchFixed(parts, strs)
      ELSE FirstAnswer([k \in 1 .. (Len(strs) - Len(parts) + 2) |-> match(expanded(k - 1), strs)])

\* Whether something below the path may match.
childMatch(parts, strs) ==
  IF parts[1] # "/" THEN "yes"
  ELSE LET pos == hasDoubleWildcard(parts)
           cut == IF pos # 0 /\ Len(strs) >= pos - 1 THEN SubSeq(strs, 1, pos - 1) ELSE strs
       IN  match(SubSeq(parts, 1, Min({Len(cut), Len(parts)})), cut)

-----------------------------------------------------------------------------
(* list: the first error ends it, and without negated patterns it ends when nothing can change *)

hasNegatedPattern(patterns) == \E i \in DOMAIN patterns : patterns[i].isNegated

listEnds(acc, patterns) == acc.err \/ (acc.matched /\ acc.child /\ ~hasNegatedPattern(patterns))

listPattern(acc, pat, strs) ==
  LET m == match(pat.parts, strs)
      c == childMatch(pat.parts, strs)
  IN  IF "error" \in {m, c} THEN [matched |-> FALSE, child |-> FALSE, err |-> TRUE]
      ELSE IF pat.isNegated
           THEN [acc EXCEPT !.matched = @ /\ m = "no", !.child = @ /\ m = "no"]
           ELSE [acc EXCEPT !.matched = @ \/ m = "yes", !.child = @ \/ c = "yes"]

list(patterns, strs) ==
  FoldLeft(LAMBDA acc, pat : IF listEnds(acc, patterns) THEN acc ELSE listPattern(acc, pat, strs),
           [matched |-> FALSE, child |-> FALSE, err |-> FALSE], patterns)

ValidatePatterns(patterns) == \A i \in DOMAIN patterns : ~Contains(patterns[i].parts, "[")

-----------------------------------------------------------------------------
(* What the patterns mean *)

\* The parts describe the names one by one, and "**" any number of them.
RECURSIVE Stands(_, _)
Stands(parts, strs) ==
  IF parts = <<>> THEN strs = <<>>
  ELSE IF Head(parts) = Wildcard
       THEN \E k \in 0 .. Len(strs) : Stands(Tail(parts), SubSeq(strs, k + 1, Len(strs)))
       ELSE /\ strs # <<>>
            /\ matchPart(Head(parts), Head(strs)) = "yes"
            /\ Stands(Tail(parts), Tail(strs))

\* The pattern describes the path or a directory it is in, from its start or from any name on.
Describes(parts, strs) ==
  \E lo, hi \in DOMAIN strs :
    /\ IF parts[1] = "/" THEN lo = 1 ELSE strs[lo] # "/"
    /\ lo <= hi
    /\ Stands(parts, SubSeq(strs, lo, hi))

Wildcards(parts) == Cardinality({i \in DOMAIN parts : parts[i] = Wildcard})

\* match answers what the pattern means: "**" stands for any number of directories, a relative
\* pattern may match anywhere, and a match of a directory is one of all that is in it.  With more
\* than one "**" in the pattern, match may need as many further levels of the path.
MatchExact(parts, strs, deeper) ==
  ~Contains(parts, "[") =>
    /\ match(parts, strs) = "yes" => Describes(parts, strs)
    /\ Describes(parts, strs) =>
         IF Wildcards(parts) <= 1 THEN match(parts, strs) = "yes"
         ELSE Len(deeper) >= Wildcards(parts) - 1 => match(parts, strs \o deeper) = "yes"

\* With patterns that ValidatePatterns accepts there is no error.  The last pattern that matches
\* decides, and a directory is only skipped, because childMayMatch is false, when the patterns
\* select nothing that is in it.
ListExact(patterns, strs, deeper) ==
  LET answer == list(patterns, strs)
      matching == {i \in DOMAIN patterns : match(patterns[i].parts, strs) = "yes"}
  IN  ValidatePatterns(patterns) =>
        /\ ~answer.err
        /\ answer.matched <=> (matching # {} /\ ~patterns[Max(matching)].isNegated)
        /\ list(patterns, strs \o deeper).matched => answer.child
=============================================================================
