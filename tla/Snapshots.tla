----------------------------- MODULE Snapshots -----------------------------
(***************************************************************************)
(* restic/snapshot_find.go, snapshot_group.go, backend_find.go and the     *)
(* methods of restic/snapshot.go they use: finding and grouping snapshots. *)
(* ForAllSnapshots calls its callback for one snapshot after the other, in *)
(* the order in which its workers have loaded them.                        *)
(*                                                                         *)
(* restic/snapshot_policy.go and duration.go: which snapshots a policy     *)
(* keeps.  There a snapshot is [time, tags]; time counts half hours of a   *)
(* calendar with days of HoursPerDay hours, weeks of DaysPerWeek days,     *)
(* months of DaysPerMonth days and years of MonthsPerYear months.          *)
(***************************************************************************)
EXTENDS Integers, FiniteSets, SequencesExt

CONSTANTS
  SnapFiles,     \* snapshot ID, a sequence of digits -> [time, host, tags, paths]
  Filters,       \* filters: [hosts, tags, paths, limit]; a limit of 0 is none
  NoSnapshot,    \* <<>>
  HoursPerDay,
  DaysPerWeek,
  DaysPerMonth,
  MonthsPerYear

VARIABLES
  snFilter,      \* the filter
  unread,        \* snapshots that have not been loaded
  latest,        \* the newest snapshot found, or NoSnapshot
  findResult     \* "running", "ok", "none" (ErrNoSnapshotFound) or "error"

findVars == <<snFilter, unread, latest, findResult>>

-----------------------------------------------------------------------------
(* Filters.                                                                *)

HasHostname(sn, hosts) == hosts = {} \/ sn.host \in hosts

\* HasTags: an empty tag stands for having no tags, and ends the search for the others.
HasAllTags(sn, l) ==
  LET stops == {i \in DOMAIN l : l[i] = "" /\ sn.tags = <<>>}
      n == IF stops = {} THEN Len(l) ELSE (CHOOSE i \in stops : \A j \in stops : i <= j) - 1
  IN \A i \in 1..n : l[i] \in Range(sn.tags)

HasTagList(sn, ls) == ls = {} \/ \E l \in ls : HasAllTags(sn, l)

HasPaths(sn, paths) == paths \subseteq Range(sn.paths)

Matches(f, sn) == HasHostname(sn, f.hosts) /\ HasTagList(sn, f.tags) /\ HasPaths(sn, f.paths)

\* AddTags and RemoveTags.  A removed tag is replaced by the last one.
AddTags(tags, new) == FoldLeft(LAMBDA s, t : IF t \in Range(s) THEN s ELSE Append(s, t), tags, new)

RemoveTag(s, t) ==
  IF t \notin Range(s) THEN s
  ELSE LET i == CHOOSE i \in DOMAIN s : s[i] = t /\ \A j \in 1..i - 1 : s[j] # t
       IN [j \in 1..Len(s) - 1 |-> IF j = i THEN s[Len(s)] ELSE s[j]]
RemoveTags(tags, old) == FoldLeft(RemoveTag, tags, old)

-----------------------------------------------------------------------------
(* findLatest.                                                             *)

FindInit ==
  /\ snFilter \in Filters
  /\ unread = DOMAIN SnapFiles /\ latest = NoSnapshot /\ findResult = "running"

\* The callback: what is after the limit, older than the latest or does not match is ignored.
TakeIfLatest(id) ==
  LET sn == SnapFiles[id]
  IN latest' = IF \/ snFilter.limit # 0 /\ sn.time > snFilter.limit
                  \/ latest # NoSnapshot /\ sn.time < SnapFiles[latest].time
                  \/ ~Matches(snFilter, sn)
                 THEN latest ELSE id

VisitSnapshot(id) ==
  /\ findResult = "running" /\ id \in unread
  /\ unread' = unread \ {id}
  /\ TakeIfLatest(id)
  /\ UNCHANGED <<snFilter, findResult>>

\* The snapshot cannot be loaded: the callback returns the error, which ends the search.
VisitUnloadable(id) ==
  /\ findResult = "running" /\ id \in unread
  /\ findResult' = "error" /\ latest' = NoSnapshot
  /\ UNCHANGED <<snFilter, unread>>

FindReturns ==
  /\ findResult = "running" /\ unread = {}
  /\ findResult' = IF latest = NoSnapshot THEN "none" ELSE "ok"
  /\ UNCHANGED <<snFilter, unread, latest>>

FindNext == (\E id \in DOMAIN SnapFiles : VisitSnapshot(id) \/ VisitUnloadable(id)) \/ FindReturns

-----------------------------------------------------------------------------
(* FindAll, Find and GroupSnapshots.                                       *)

\* Find: the file whose name starts with the prefix, if there is one only.
FindPrefix(prefix) ==
  LET found == {id \in DOMAIN SnapFiles : IsPrefix(prefix, id)}
  IN IF Cardinality(found) = 1 THEN CHOOSE id \in found : TRUE ELSE NoSnapshot

\* FindAll for a list of arguments: "latest", the prefix of an ID, or one that has a folder after
\* it.  last is what findLatest returns, empty whether the filter is.  The result is what the
\* callback is called with; NoSnapshot comes with an error.
FindAll(args, last, empty) ==
  LET step(s, a) ==
        LET id == CASE a.kind = "latest" -> last
                    [] a.kind = "id" -> FindPrefix(a.id)
                    [] a.kind = "folder" -> NoSnapshot
            calls == Append(s.calls, <<a, id>>)
            ids == s.ids \cup ({id} \ {NoSnapshot})
        IN IF a.kind = "latest"
             THEN IF s.usedFilter THEN s ELSE [usedFilter |-> TRUE, ids |-> ids, calls |-> calls]
             ELSE IF id \in s.ids THEN s ELSE [s EXCEPT !.ids = ids, !.calls = calls]
      end == FoldLeft(step, [usedFilter |-> FALSE, ids |-> {}, calls |-> <<>>], args)
  IN IF end.usedFilter \/ empty THEN end.calls
     ELSE Append(end.calls, <<[kind |-> "filters", id |-> NoSnapshot], NoSnapshot>>)

\* A sorted list, as what it has in common with every list of the same elements.
SortedList(s) == [x \in Range(s) |-> Cardinality({i \in DOMAIN s : s[i] = x})]

\* The key of a snapshot.  by is a subset of {"host", "path", "tag"}.
GroupKey(sn, by) ==
  [host |-> IF "host" \in by THEN sn.host ELSE "",
   paths |-> IF "path" \in by THEN SortedList(sn.paths) ELSE <<>>,
   tags |-> IF "tag" \in by THEN SortedList(sn.tags) ELSE <<>>]

\* GroupSnapshots, for IDs in the order of list.
GroupSnapshots(list, by) ==
  [k \in {GroupKey(SnapFiles[id], by) : id \in Range(list)} |->
     SelectSeq(list, LAMBDA id : GroupKey(SnapFiles[id], by) = k)]

-----------------------------------------------------------------------------
\* findLatest returns a snapshot that passes the filter and its time limit and that no other such
\* snapshot is newer than, in whatever order the snapshots are loaded; it says that there is none
\* only if that is so.
LatestExact ==
  LET passing == {id \in DOMAIN SnapFiles :
        /\ Matches(snFilter, SnapFiles[id])
        /\ snFilter.limit = 0 \/ SnapFiles[id].time <= snFilter.limit}
  IN /\ findResult = "ok" => /\ latest \in passing
                             /\ \A id \in passing : SnapFiles[id].time <= SnapFiles[latest].time
     /\ findResult = "none" => passing = {}

\* Two snapshots are in one group exactly if their hosts, paths and tags agree as far as they are
\* asked for, in whatever order the paths and tags are listed; every snapshot is in one group.
GroupsExact(list, by) ==
  LET g == GroupSnapshots(list, by)
      group(id) == {k \in DOMAIN g : id \in Range(g[k])}
      same(s, t) == /\ "host" \in by => s.host = t.host
                    /\ "path" \in by => SortedList(s.paths) = SortedList(t.paths)
                    /\ "tag" \in by => SortedList(s.tags) = SortedList(t.tags)
  IN /\ \A a, b \in Range(list) : group(a) = group(b) <=> same(SnapFiles[a], SnapFiles[b])
     /\ \A a \in Range(list) : Cardinality(group(a)) = 1

\* FindAll passes on every snapshot that an argument names and an error for every argument that
\* names none, and no snapshot twice, unless "latest" comes after the ID of the one it stands for.
FindAllExact(args, last, empty) ==
  LET calls == FindAll(args, last, empty)
      names(a) == IF a.kind = "latest" THEN {last} ELSE {id \in DOMAIN SnapFiles : IsPrefix(a.id, id)}
  IN /\ \A a \in Range(args) :
          IF a.kind # "folder" /\ Cardinality(names(a)) = 1
            THEN \E c \in Range(calls) : names(a) = {c[2]}
            ELSE <<a, NoSnapshot>> \in Range(calls)
     /\ \A i, j \in DOMAIN calls :
          i < j /\ calls[i][2] = calls[j][2] /\ calls[j][2] # NoSnapshot => calls[j][1].kind = "latest"

\* Adding and then removing tags leaves each tag that is not removed once, and no other, although a
\* removed tag's place is taken by the last one.
TagsExact(tags, added, removed) ==
  LET t == RemoveTags(AddTags(tags, added), removed)
  IN /\ IsInjective(t)
     /\ Range(t) = (Range(tags) \cup Range(added)) \ Range(removed)

-----------------------------------------------------------------------------
(* Durations: [h, d, m, y].                                                *)

ZeroDuration == [h |-> 0, d |-> 0, m |-> 0, y |-> 0]
IsZero(d) == d = ZeroDuration

\* String: a sequence of numbers with their units; a part that is zero is left out.
DurationString(d) ==
  SelectSeq(<<<<d.y, "y">>, <<d.m, "m">>, <<d.d, "d">>, <<d.h, "h">>>>, LAMBDA p : p[1] # 0)

\* ParseDuration: a later part replaces an earlier one; an unknown unit is an error.
ParseDuration(s) ==
  IF \E i \in DOMAIN s : s[i][2] \notin {"y", "m", "d", "h"} THEN [err |-> TRUE]
  ELSE [err |-> FALSE,
        val |-> FoldLeft(LAMBDA d, p : [d EXCEPT ![p[2]] = p[1]], ZeroDuration, s)]

-----------------------------------------------------------------------------
(* Time.                                                                   *)

ymdh(t, nr) == t \div 2
ymd(t, nr) == t \div (2 * HoursPerDay)
yw(t, nr) == t \div (2 * HoursPerDay * DaysPerWeek)
ym(t, nr) == t \div (2 * HoursPerDay * DaysPerMonth)
yy(t, nr) == t \div (2 * HoursPerDay * DaysPerMonth * MonthsPerYear)
always(t, nr) == nr

\* AddDate and Add with the negated parts of a duration.
Before(t, d) == t - 2 * (d.h + HoursPerDay * (d.d + DaysPerMonth * (d.m + MonthsPerYear * d.y)))

-----------------------------------------------------------------------------
(* Policies: Last, Hourly ... Yearly, Within, WithinHourly ..., Tags.      *)

EmptyPolicy ==
  [count |-> <<0, 0, 0, 0, 0, 0>>, within |-> ZeroDuration,
   withins |-> <<ZeroDuration, ZeroDuration, ZeroDuration, ZeroDuration, ZeroDuration>>, tags |-> {}]

\* The buckets of the counts and, from the second on, those of the durations.
Bucker(k, t, nr) ==
  CASE k = 1 -> always(t, nr) [] k = 2 -> ymdh(t, nr) [] k = 3 -> ymd(t, nr)
    [] k = 4 -> yw(t, nr) [] k = 5 -> ym(t, nr) [] k = 6 -> yy(t, nr)

\* sort.Stable with Less: the newest first, equal times in the order of the list.
InsertSnapshot(s, sn) ==
  LET n == Cardinality({i \in DOMAIN s : s[i].time >= sn.time})
  IN [i \in 1..Len(s) + 1 |-> IF i <= n THEN s[i] ELSE IF i = n + 1 THEN sn ELSE s[i - 1]]
SortNewestFirst(list) == FoldLeft(InsertSnapshot, <<>>, list)

\* The time of the newest snapshot that is not in the future; -1 is the zero time.
findLatestTimestamp(list, now) ==
  FoldLeft(LAMBDA t, sn : IF sn.time > t /\ sn.time < now THEN sn.time ELSE t, -1, list)

HasTags(sn, l) == l \subseteq sn.tags \/ (sn.tags = {} /\ "" \in l)

\* The loop without the update of Last.
PolicyStepForgets(s, sn, nr, n, newest, p) ==
  LET fresh(k) == Bucker(k, sn.time, nr) # s.last[k] \/ nr = n
      counted == {k \in 1..6 : s.count[k] # 0 /\ fresh(k)}
      kept == (\E l \in p.tags : HasTags(sn, l)) \/ counted # {}
  IN [s EXCEPT !.count = [k \in 1..6 |-> IF k \in counted /\ @[k] > 0 THEN @[k] - 1 ELSE @[k]],
               !.keep = IF kept THEN Append(@, sn) ELSE @,
               !.remove = IF kept THEN @ ELSE Append(@, sn)]

\* The loop of ApplyPolicy: one snapshot, the counts and the last values of the buckets.
PolicyStep(s, sn, nr, n, newest, p) ==
  LET fresh(k) == Bucker(k, sn.time, nr) # s.last[k] \/ nr = n
      counted == {k \in 1..6 : s.count[k] # 0 /\ fresh(k)}
      within(d) == ~IsZero(d) /\ sn.time > Before(newest, d)
      lasting == {k \in 1..5 : /\ within(p.withins[k])
                               /\ Bucker(k + 1, sn.time, nr) # s.lastWithin[k] \/ nr = n}
      kept == \/ \E l \in p.tags : HasTags(sn, l)
              \/ within(p.within)
              \/ counted # {} \/ lasting # {}
  IN [count |-> [k \in 1..6 |-> IF k \in counted /\ s.count[k] > 0 THEN s.count[k] - 1 ELSE s.count[k]],
      last |-> [k \in 1..6 |-> IF k \in counted THEN Bucker(k, sn.time, nr) ELSE s.last[k]],
      lastWithin |-> [k \in 1..5 |-> IF k \in lasting THEN Bucker(k + 1, sn.time, nr) ELSE s.lastWithin[k]],
      keep |-> IF kept THEN Append(s.keep, sn) ELSE s.keep,
      remove |-> IF kept THEN s.remove ELSE Append(s.remove, sn)]

ApplyPolicy(list, p, now) ==
  LET sorted == SortNewestFirst(list)
      n == Len(sorted)
      start == [count |-> p.count, last |-> [k \in 1..6 |-> -1], lastWithin |-> [k \in 1..5 |-> -1],
                keep |-> <<>>, remove |-> <<>>]
      newest == findLatestTimestamp(sorted, now)
      run[i \in 0..n] == IF i = 0 THEN start ELSE PolicyStep(run[i - 1], sorted[i], i, n, newest, p)
  IN IF p = EmptyPolicy \/ list = <<>> THEN [keep |-> sorted, remove |-> <<>>]
     ELSE [keep |-> run[n].keep, remove |-> run[n].remove]

-----------------------------------------------------------------------------
(* What a policy is to do, said without counters and for all snapshots at  *)
(* once.  sn is the i-th newest of sorted.                                 *)

NewestOfBucket(sorted, i, k) ==
  \A j \in 1..i - 1 : Bucker(k, sorted[j].time, j) # Bucker(k, sorted[i].time, i)

KeptByCount(sorted, i, k, count) ==
  /\ count # 0
  /\ NewestOfBucket(sorted, i, k) \/ i = Len(sorted)
  /\ count = -1 \/ Cardinality({j \in 1..i - 1 : NewestOfBucket(sorted, j, k)}) < count

KeptByTime(sorted, i, k, d, newest) ==
  /\ ~IsZero(d) /\ sorted[i].time > Before(newest, d)
  /\ NewestOfBucket(sorted, i, k) \/ i = Len(sorted)

PolicyKeeps(sorted, i, p, now) ==
  LET newest == findLatestTimestamp(sorted, now)
  IN \/ p = EmptyPolicy
     \/ \E l \in p.tags : HasTags(sorted[i], l)
     \/ ~IsZero(p.within) /\ sorted[i].time > Before(newest, p.within)
     \/ \E k \in 1..6 : KeptByCount(sorted, i, k, p.count[k])
     \/ \E k \in 1..5 : KeptByTime(sorted, i, k + 1, p.withins[k], newest)

\* ApplyPolicy keeps the newest snapshot of each of the newest hours, days, ... up to the count,
\* the oldest snapshot while a count is left, those within the durations and those with the tags;
\* the others are removed, and no snapshot is dropped from both lists.
PolicyExact(list, p, now) ==
  LET sorted == SortNewestFirst(list)
      kept == {i \in DOMAIN sorted : PolicyKeeps(sorted, i, p, now)}
      picked(S) == [i \in 1..Cardinality(S) |-> sorted[CHOOSE j \in S : Cardinality({h \in S : h < j}) = i - 1]]
      r == ApplyPolicy(list, p, now)
  IN r.keep = picked(kept) /\ r.remove = picked(DOMAIN sorted \ kept)

\* What String writes of a duration, ParseDuration reads back.
DurationRoundTrip(d) == ParseDuration(DurationString(d)) = [err |-> FALSE, val |-> d]
=============================================================================
