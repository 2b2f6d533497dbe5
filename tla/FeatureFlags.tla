----------------------------- MODULE FeatureFlags -----------------------------
(***************************************************************************)
(* One feature flag (src/services/featureFlags.ts): its rows in            *)
(* feature_flags, one of the organisation or the global one, and the       *)
(* answers that each process caches for five minutes.                      *)
(*                                                                         *)
(* getFlag awaits up to two queries and then fills the cache; setFlag      *)
(* awaits its write and then clears the cache of its own process.          *)
(*                                                                         *)
(* Abstractions.  The global row is seeded by its migration.  What its     *)
(* rules and its rollout percentage answer for an organisation is fixed,   *)
(* as nothing in the code writes them, and a lookup's context is part of   *)
(* the organisation.  An entry may expire, or be evicted, at any time.     *)
(***************************************************************************)
EXTENDS Naturals

CONSTANTS
    Orgs,
    Global,     \* the owner of the global row
    Targeted,   \* of each organisation: "on", "off" or "none", by rule or rollout
    Servers,
    Lookups,    \* calls of getFlag under way
    Settings    \* calls of setFlag under way

ASSUME FlagAssumption ==
    /\ Global \notin Orgs
    /\ Targeted \in [Orgs -> {"on", "off", "none"}]

VARIABLES
    flag,     \* of each owner: "on", "off", or "none" where there is no row
    cached,   \* of each process and owner: the answer, and whether it is late
    lookup,   \* what each getFlag has read
    setting   \* what each setFlag has done

flagVars == <<flag, cached, lookup, setting>>

Owners == Orgs \cup {Global}
FlagValues == {"on", "off"}
Uncached == [value |-> "none", late |-> FALSE]
NoLookup == [at |-> "idle", server |-> 0, owner |-> Global, saw |-> "none", late |-> FALSE]
NoSetting == [at |-> "idle", server |-> 0, owner |-> Global, to |-> "none"]

FlagInit ==
    /\ flag = [o \in Owners |-> IF o = Global THEN "off" ELSE "none"]
    /\ cached = [s \in Servers |-> [o \in Owners |-> Uncached]]
    /\ lookup = [g \in Lookups |-> NoLookup]
    /\ setting = [w \in Settings |-> NoSetting]

\* evaluateTargetedFlag: what the global row says to o.
EvaluateTargeted(o, row) ==
    IF o # Global /\ Targeted[o] # "none" THEN Targeted[o] ELSE row
Evaluate(o) == IF flag[o] # "none" THEN flag[o] ELSE EvaluateTargeted(o, flag[Global])

-----------------------------------------------------------------------------
(* getFlag, of an owner that the process has not cached *)

EndLookup(g) == lookup' = [lookup EXCEPT ![g] = NoLookup]
Fill(g, value) ==
    cached' = [cached EXCEPT ![lookup[g].server][lookup[g].owner] =
                  [value |-> value, late |-> lookup[g].late]]

StartLookup(g, s, o) ==
    /\ lookup[g].at = "idle" /\ cached[s][o].value = "none"
    /\ lookup' = [lookup EXCEPT ![g] =
           [NoLookup EXCEPT !.at = IF o = Global THEN "global" ELSE "org",
                            !.server = s, !.owner = o]]
    /\ UNCHANGED <<flag, cached, setting>>

\* The query of the organisation's row; its error is logged and passed over.
ReadOrgRow(g) ==
    /\ lookup[g].at = "org"
    /\ \/ lookup' = [lookup EXCEPT ![g].at = "orgRead", ![g].saw = flag[lookup[g].owner]]
       \/ lookup' = [lookup EXCEPT ![g].at = "orgRead", ![g].late = TRUE]
    /\ UNCHANGED <<flag, cached, setting>>

\* A row is the answer.  Without one the cache is asked again, under the same key.
TakeOrgRow(g) ==
    /\ lookup[g].at = "orgRead"
    /\ IF lookup[g].saw # "none" THEN Fill(g, lookup[g].saw) /\ EndLookup(g)
       ELSE IF cached[lookup[g].server][lookup[g].owner].value # "none"
       THEN EndLookup(g) /\ UNCHANGED cached
       ELSE lookup' = [lookup EXCEPT ![g].at = "global"] /\ UNCHANGED cached
    /\ UNCHANGED <<flag, setting>>

ReadGlobalRow(g) ==
    /\ lookup[g].at = "global"
    /\ \/ lookup' = [lookup EXCEPT ![g].at = "globalRead", ![g].saw = flag[Global]]
       \/ EndLookup(g)    \* an error: the answer is no, and is not cached
    /\ UNCHANGED <<flag, cached, setting>>

TakeGlobalRow(g) ==
    /\ lookup[g].at = "globalRead"
    /\ Fill(g, EvaluateTargeted(lookup[g].owner, lookup[g].saw))
    /\ EndLookup(g)
    /\ UNCHANGED <<flag, setting>>

-----------------------------------------------------------------------------
(* setFlag *)

HasRead(l, o) ==
    IF o = Global THEN l.at = "globalRead"
    ELSE l.owner = o /\ l.at \in {"orgRead", "global", "globalRead"}
Answers(o, k) == k = o \/ (o = Global /\ flag[k] = "none")

\* The row of o is written by process s: lookups that have read it are late, and so
\* is what other processes have cached of it.
Write(s, o, value) ==
    /\ flag' = [flag EXCEPT ![o] = value]
    /\ lookup' = [g \in Lookups |-> IF HasRead(lookup[g], o)
                                    THEN [lookup[g] EXCEPT !.late = TRUE] ELSE lookup[g]]
    /\ cached' = [t \in Servers |-> [k \in Owners |->
                     IF t # s /\ Answers(o, k) /\ cached[t][k] # Uncached
                     THEN [cached[t][k] EXCEPT !.late = TRUE] ELSE cached[t][k]]]

UpdateFlag(w, s, o, value) ==
    /\ setting[w].at = "idle"
    /\ setting' = [setting EXCEPT ![w] =
           [at |-> IF flag[o] = "none" THEN "insert" ELSE "invalidate",
            server |-> s, owner |-> o, to |-> value]]
    /\ IF flag[o] = "none" THEN UNCHANGED <<flag, lookup, cached>> ELSE Write(s, o, value)

\* A row that another call has inserted since makes this one fail.
InsertFlag(w) ==
    LET o == setting[w].owner
    IN  /\ setting[w].at = "insert"
        /\ IF flag[o] = "none"
           THEN /\ Write(setting[w].server, o, setting[w].to)
                /\ setting' = [setting EXCEPT ![w].at = "invalidate"]
           ELSE /\ setting' = [setting EXCEPT ![w] = NoSetting]
                /\ UNCHANGED <<flag, lookup, cached>>

\* Mutant of InvalidateAll: only the key of the owner that was written.
InvalidateKey(w) ==
    /\ setting[w].at = "invalidate"
    /\ cached' = [cached EXCEPT ![setting[w].server][setting[w].owner] = Uncached]
    /\ setting' = [setting EXCEPT ![w] = NoSetting]
    /\ UNCHANGED <<flag, lookup>>

InvalidateAll(w) ==
    /\ setting[w].at = "invalidate"
    /\ cached' = [cached EXCEPT ![setting[w].server] = [o \in Owners |-> Uncached]]
    /\ setting' = [setting EXCEPT ![w] = NoSetting]
    /\ UNCHANGED <<flag, lookup>>

\* Five minutes pass, or the entry is the oldest of a full cache.
DropEntry(s, o) ==
    /\ cached[s][o].value # "none"
    /\ cached' = [cached EXCEPT ![s][o] = Uncached]
    /\ UNCHANGED <<flag, lookup, setting>>

\* A process starts anew, with an empty cache and none of its calls.
RestartServer(s) ==
    /\ cached' = [cached EXCEPT ![s] = [o \in Owners |-> Uncached]]
    /\ lookup' = [g \in Lookups |-> IF lookup[g].server = s THEN NoLookup ELSE lookup[g]]
    /\ setting' = [w \in Settings |-> IF setting[w].server = s THEN NoSetting ELSE setting[w]]
    /\ UNCHANGED flag

FlagNext ==
    \/ \E s \in Servers, o \in Owners :
         \/ DropEntry(s, o)
         \/ \E g \in Lookups : StartLookup(g, s, o)
         \/ \E w \in Settings, value \in FlagValues : UpdateFlag(w, s, o, value)
    \/ \E g \in Lookups : \/ ReadOrgRow(g) \/ TakeOrgRow(g)
                          \/ ReadGlobalRow(g) \/ TakeGlobalRow(g)
    \/ \E w \in Settings : InsertFlag(w) \/ InvalidateAll(w)
    \/ \E s \in Servers : RestartServer(s)

FlagSpec == FlagInit /\ [][FlagNext]_flagVars

FlagTypeOK ==
    /\ flag \in [Owners -> FlagValues \cup {"none"}]
    /\ cached \in [Servers -> [Owners -> [value : FlagValues \cup {"none"}, late : BOOLEAN]]]
    /\ lookup \in [Lookups -> [at : {"idle", "org", "orgRead", "global", "globalRead"},
                               server : Servers \cup {0}, owner : Owners,
                               saw : FlagValues \cup {"none"}, late : BOOLEAN]]
    /\ setting \in [Settings -> [at : {"idle", "insert", "invalidate"},
                                 server : Servers \cup {0}, owner : Owners,
                                 to : FlagValues \cup {"none"}]]

\* docs/enterprise.md, "Cache invalidation: automatic on setFlag() updates": a
\* cached answer is what the rows say, the organisation's before the global
\* one's, once no setFlag of its process is between write and invalidation; but
\* for an answer whose row another process has written since, that a lookup brought
\* which had read the row before the write, or whose row could not be read.
CachedFlagIsCurrent ==
    \A s \in Servers, o \in Owners :
        \/ cached[s][o].value \in {"none", Evaluate(o)}
        \/ cached[s][o].late
        \/ \E w \in Settings : setting[w].at = "invalidate" /\ setting[w].server = s
=============================================================================
