-------------------------------- MODULE Sides --------------------------------
(***************************************************************************)
(* What makes the digests of the two sides comparable: the settings each   *)
(* file was parsed under, the stamp its table carries (ibha_compare_id),   *)
(* the projection onto the columns in common, which folds and stamps anew  *)
(* (project_side), and the checks of ibha_csvd_diff_run (check_sides).     *)
(* The caller gives options to each of the three calls; nothing makes them *)
(* agree.                                                                  *)
(*                                                                         *)
(* All settings of the comparators but the column policy are one value.    *)
(* A stamp is what is hashed into it: stamps are taken not to collide.     *)
(***************************************************************************)
EXTENDS ColumnPlan

CONSTANTS
  TypeAt,    \* the declared type of the source's column, by its place
  Unknown,   \* IBHA_CSVD_TYPE_UNKNOWN
  Options    \* of the three calls: records of source, target and diff

VARIABLES
  opts,      \* the options of the calls
  sides      \* the two tables as they are compared, <<>> before

sideVars == <<opts, sides>>

SidesInit == Init /\ opts = <<>> /\ sides = <<>>

Parsed == Next /\ UNCHANGED sideVars

-----------------------------------------------------------------------------
\* A mutant: the column policy is not stamped.
StampWithoutPolicy(compare, pol, schema) == <<compare, schema>>

\* ibha_compare_id: the settings, the policy, and every column's flags and type.
Stamp(compare, pol, schema) == <<compare, pol, schema>>

\* A side whose rows are digested over these columns of its file.  The fold is what
\* went into the digests.
Digested(columns, schema, compare, pol, side) ==
  [fold |-> [columns |-> columns, schema |-> schema, compare |-> compare],
   stamp |-> Stamp(compare, pol, schema), quote |-> side.quote, digests |-> side.digests]

SourceSchema == [s \in DOMAIN src |-> [key |-> s \in keys, type |-> TypeAt[s]]]

\* A column that inherits nothing has no flags and no declared type.
TargetSchema ==
  [t \in DOMAIN tgt |->
     IF inherited[t] = None THEN [key |-> FALSE, type |-> Unknown]
     ELSE SourceSchema[inherited[t]]]

All(header) == [c \in DOMAIN header |-> c]

ParsedSource(o) == Digested(All(src), SourceSchema, o.source.compare, o.source.policy, o.source)
ParsedTarget(o) == Digested(All(tgt), TargetSchema, o.target.compare, policy, o.target)

\* The merge under the diff's policy takes the same turns as the one the target
\* was parsed under: a policy only refuses a turn.
DiffMap == IF Lenient THEN map ELSE All(tgt)

Unmatched == {t \in DOMAIN tgt : DiffMap[t] = None}
Dropped   == DOMAIN src \ {DiffMap[t] : t \in DOMAIN tgt}

\* tgt_cols and src_cols: the loop over the target's columns that fills them.
Kept[t \in 0 .. Len(tgt)] ==
  IF t = 0 THEN <<>>
  ELSE IF DiffMap[t] = None THEN Kept[t - 1] ELSE Append(Kept[t - 1], t)

TargetColumns == Kept[Len(tgt)]
SourceColumns == [i \in DOMAIN TargetColumns |-> DiffMap[TargetColumns[i]]]

\* build_compare_schema.
ComparedSchema == [i \in DOMAIN SourceColumns |-> SourceSchema[SourceColumns[i]]]

\* project_side, of both sides: the digests are folded again even where the columns
\* are all there, and stamped for what they are now.
Projected(o) ==
  <<Digested(SourceColumns, ComparedSchema, o.diff.compare, o.diff.policy, o.source),
    Digested(TargetColumns, ComparedSchema, o.diff.compare, o.diff.policy, o.target)>>

\* plan_columns and what it refuses.
Refused(p) == \/ Unmatched # {} /\ "added" \notin p
              \/ Dropped # {} /\ "removed" \notin p

PlanError(p) ==
  IF p = {} THEN "ok"
  ELSE IF Refused(p) THEN "columns"
  ELSE IF Dropped \cap keys # {} THEN "missing key" ELSE "ok"

Planned(o) ==
  IF o.diff.policy = {} \/ Unmatched \cup Dropped = {}
  THEN <<ParsedSource(o), ParsedTarget(o)>> ELSE Projected(o)

\* check_sides, in its order.
SidesError(s, t, o) ==
  LET want == Stamp(o.diff.compare, o.diff.policy, s.fold.schema)
  IN IF ~(s.digests /\ t.digests) THEN "no digests"
     ELSE IF Len(s.fold.columns) # Len(t.fold.columns) THEN "columns"
     ELSE IF s.quote # t.quote THEN "quote"
     ELSE IF s.stamp # want \/ t.stamp # want THEN "settings"
     ELSE IF o.diff.requireKey /\ \A i \in DOMAIN s.fold.schema : ~s.fold.schema[i].key
     THEN "missing key"
     ELSE "ok"

\* ibha_csvd_diff_run, as far as the matching: a diff of the target as parsed, under
\* options of its own.
DiffRun ==
  /\ phase = "plan" /\ phase' = "compared"
  /\ \E o \in Options :
       LET two == Planned(o)
           error == IF PlanError(o.diff.policy) # "ok" THEN PlanError(o.diff.policy)
                    ELSE SidesError(two[1], two[2], o)
       IN /\ opts' = o /\ status' = error
          /\ IF error = "ok"
             THEN /\ sides' = two
                  /\ compared' = {<<two[1].fold.columns[i], two[2].fold.columns[i]>> :
                                    i \in DOMAIN two[1].fold.columns}
             ELSE UNCHANGED <<sides, compared>>
  /\ UNCHANGED <<files, si, ti, map, inherited>>

SidesNext == Parsed \/ DiffRun

SidesSpec == SidesInit /\ [][SidesNext]_<<vars, sideVars>>

-----------------------------------------------------------------------------
OneSetting ==
  /\ opts.source.compare = opts.diff.compare /\ opts.target.compare = opts.diff.compare
  /\ opts.source.policy = opts.diff.policy /\ policy = opts.diff.policy

\* "Comparing them across a settings mismatch would not fail, it would produce a
\* confidently wrong report, so the stamp is checked rather than trusted"
\* (diff.c:66).  Whatever the options of the three calls, when the diff goes on to
\* match rows, both sides' digests were folded through the diff's own comparators,
\* column by column over cells of one name, with the key set and the types the
\* source declares; and three calls under one set of settings are never refused
\* for their settings.
DigestsMeanTheDiff ==
  phase = "compared" =>
    /\ status = "ok" =>
         LET s == sides[1].fold
             t == sides[2].fold
         IN /\ s.compare = opts.diff.compare /\ t.compare = opts.diff.compare
            /\ DOMAIN s.columns = DOMAIN t.columns
            /\ \A i \in DOMAIN s.columns :
                 /\ src[s.columns[i]] = tgt[t.columns[i]]
                 /\ s.schema[i] = SourceSchema[s.columns[i]] /\ t.schema[i] = s.schema[i]
    /\ OneSetting => status # "settings"

=============================================================================
