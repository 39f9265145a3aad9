---------------------------- MODULE FingerprintDb -----------------------------
(***************************************************************************)
(* The database of fingerprints (probableCause.py): a directory for each   *)
(* chip, in it a file for each page.  Pages that are added become a chip   *)
(* of their own, which is then merged with the chips it shares a page      *)
(* with.  Every file is written or removed in a step of its own, and the   *)
(* script may be ended between two.                                        *)
(*                                                                         *)
(* A page is a model value: with the margin of the code, less than one     *)
(* bit, pages match when they are equal.                                   *)
(***************************************************************************)
EXTENDS Integers, Sequences, FiniteSets

CONSTANTS
    Numbers,      \* the numbers a chip can get: 1 to 1000
    Uploads,      \* the sequences of pages that are added or checked
    MaxCalls,     \* bound on the calls of the script
    MayCrash,     \* whether the script may be ended
    MayCheck      \* whether it is called with --check

DbAssumption ==
    /\ Numbers \subseteq Nat \ {0}
    /\ MaxCalls \in Nat
    /\ {MayCrash, MayCheck} \subseteq BOOLEAN

VARIABLES
    files,     \* the database: [chip, loc, page]
    pc,
    given, k,  \* the pages the script was called with, the next to be looked for
    matches,   \* results of match(): [chip, loc, offset]
    chip, loc, queue,   \* pages to be written, to a chip from a place on
    calls,
    stored,    \* pages that have been in the database (model only, as those below)
    unmerged,  \* chips with pages of a call that failed before they were merged
    merging,   \* pages of the two chips that are being merged
    atRisk     \* those of merges that were not completed

writeVars == <<chip, loc, queue>>
matchVars == <<given, k, matches>>
dbVars == <<files, stored>>
historyVars == <<unmerged, merging, atRisk>>
vars == <<pc, writeVars, matchVars, dbVars, calls, historyVars>>

Init ==
    /\ files = {} /\ stored = {} /\ calls = 0
    /\ unmerged = {} /\ merging = {} /\ atRisk = {}
    /\ pc = "idle"
    /\ given = <<>> /\ k = 1 /\ matches = <<>>
    /\ chip = 0 /\ loc = 0 /\ queue = <<>>

-----------------------------------------------------------------------------
(* Directories and files.                                                  *)

FilesOf(c) == {f \in files : f.chip = c}

ChipNumbers == {f.chip : f \in files}

Exists(c, l) == \E f \in FilesOf(c) : f.loc = l

\* What pageRead() gives where there is no file.
NoPage == "no page"

PageRead(c, l) ==
    IF Exists(c, l) THEN (CHOOSE f \in FilesOf(c) : f.loc = l).page ELSE NoPage

\* Mutant: numbers are not used again.
HigherNumbers == {n \in Numbers : \A c \in ChipNumbers : n > c}

\* random.randint() until there is no such directory.
FreeNumbers == Numbers \ ChipNumbers

End ==
    /\ pc' = "idle"
    /\ given' = <<>> /\ k' = 1 /\ matches' = <<>>
    /\ chip' = 0 /\ loc' = 0 /\ queue' = <<>>
    /\ atRisk' = atRisk \union merging /\ merging' = {}
    /\ UNCHANGED calls

\* An exception that nobody catches, or the end of the script from outside.
Fail == End /\ unmerged' = (unmerged \union {chip}) \intersect ChipNumbers

Goto(p) == pc' = p /\ UNCHANGED calls

-----------------------------------------------------------------------------
(* --add and --check.                                                      *)

Begin(p) ==
    /\ pc = "idle" /\ calls < MaxCalls
    /\ calls' = calls + 1
    /\ \E u \in Uploads :
         /\ given' = u /\ pc' = p
         /\ queue' = IF p = "number" THEN u ELSE <<>>
    /\ UNCHANGED <<dbVars, k, matches, chip, loc, historyVars>>

Add == Begin("number")

Check == MayCheck /\ Begin("check")

\* The chips that were left unmerged, when the merged one gets number c.
Renamed(c) ==
    IF unmerged \subseteq ChipNumbers THEN unmerged
    ELSE (unmerged \intersect ChipNumbers) \union {c}

\* chipAdd(): a number for the pages, which are written next.
ChipAdd ==
    /\ pc \in {"number", "renumber"}
    /\ chip' \in FreeNumbers /\ loc' = 0
    /\ IF pc = "number" THEN Goto("write") /\ UNCHANGED unmerged
       ELSE Goto("rewrite") /\ unmerged' = Renamed(chip')
    /\ UNCHANGED <<dbVars, matchVars, queue, merging, atRisk>>

\* getChipNumber() goes on for ever, if all numbers are taken.
SearchOn ==
    /\ pc \in {"number", "renumber"} /\ FreeNumbers = {}
    /\ UNCHANGED vars

\* pageWrite(): the next page.  What is no page has no place to be set.
WritePage ==
    /\ pc \in {"write", "rewrite"} /\ queue # <<>>
    /\ IF Head(queue) = NoPage THEN Fail /\ UNCHANGED dbVars
       ELSE /\ files' = files \union {[chip |-> chip, loc |-> loc, page |-> Head(queue)]}
            /\ stored' = stored \union {Head(queue)}
            /\ queue' = Tail(queue) /\ loc' = loc + 1
            /\ Goto(pc)
            /\ UNCHANGED <<chip, matchVars, historyVars>>

\* The chip is complete.  The first time its pages are matched.
Written ==
    /\ pc \in {"write", "rewrite"} /\ queue = <<>>
    /\ Goto(IF pc = "write" THEN "match" ELSE "merge")
    /\ merging' = {}
    /\ UNCHANGED <<dbVars, writeVars, matchVars, unmerged, atRisk>>

\* The chips find() takes off the list: without a chip of its own, match() has 0.
Ignored == {chip} \union {matches[j].chip : j \in DOMAIN matches}

\* list.remove() raises ValueError for what is not in the list.
FindFails == ~(Ignored \subseteq ChipNumbers)

\* approxPage.__eq__(): fewer than NOISE_DISTANCE bits, which is 1, differ.
Match(p, q) == p = q

\* find(): a page like the next one in another chip, whichever os.walk() and
\* os.listdir() come upon first.
MatchPage ==
    /\ pc \in {"match", "check"} /\ k <= Len(given)
    /\ IF FindFails THEN Fail
       ELSE LET found == {f \in files : Match(f.page, given[k]) /\ f.chip \notin Ignored}
            IN /\ IF found = {} THEN matches' = matches
                  ELSE \E f \in found : matches' = Append(matches,
                           [chip |-> f.chip, loc |-> f.loc, offset |-> k - 1])
               /\ k' = k + 1
               /\ Goto(pc)
               /\ UNCHANGED <<given, writeVars, historyVars>>
    /\ UNCHANGED dbVars

\* "Need to shift the offset of other merges": a number is added to a name, which
\* is a TypeError.
ShiftFails == Len(matches) > 1 /\ matches[1].offset = 0

Matched ==
    /\ pc \in {"match", "check"} /\ k > Len(given)
    /\ IF pc = "check" THEN End /\ UNCHANGED unmerged
       ELSE IF ShiftFails THEN Fail
       ELSE Goto("merge") /\ UNCHANGED <<matchVars, writeVars, historyVars>>
    /\ UNCHANGED dbVars

-----------------------------------------------------------------------------
(* chipMerge(): of the chip and the first of the matches.                  *)

\* Mutant: the common one too.
OneMore(c1, l1, c2, l2) ==
    IF l1 < l2 THEN [j \in 1 .. l2 + 1 |-> PageRead(c2, j - 1)]
    ELSE [j \in 1 .. l1 + 1 |-> PageRead(c1, j - 1)]

\* The pages before the first common one, of the chip that has more of them.
Before(c1, l1, c2, l2) ==
    IF l1 < l2 THEN [j \in 1 .. l2 |-> PageRead(c2, j - 1)]
    ELSE IF l2 < l1 THEN [j \in 1 .. l1 |-> PageRead(c1, j - 1)]
    ELSE <<>>

\* pageMerge(): "This doesn't actually merge".
PageMerge(p1, p2) == IF p1 # NoPage THEN p1 ELSE p2

While(c1, l1, c2, l2) == Exists(c1, l1) \/ Exists(c2, l2)

\* The pages from the common one on, until both chips end.
From(c1, l1, c2, l2) ==
    LET n == CHOOSE n \in 0 .. Cardinality(files) :
                 /\ ~While(c1, l1 + n, c2, l2 + n)
                 /\ \A j \in 0 .. n - 1 : While(c1, l1 + j, c2, l2 + j)
    IN [j \in 1 .. n |-> PageMerge(PageRead(c1, l1 + j - 1), PageRead(c2, l2 + j - 1))]

Merge ==
    /\ pc = "merge"
    /\ IF matches = <<>> THEN End /\ UNCHANGED unmerged
       ELSE LET m == matches[1] IN
            /\ queue' = Before(chip, m.offset, m.chip, m.loc)
                        \o From(chip, m.offset, m.chip, m.loc)
            /\ merging' = {f.page : f \in FilesOf(chip) \union FilesOf(m.chip)}
            /\ Goto("remove")
            /\ UNCHANGED <<chip, loc, matchVars, unmerged, atRisk>>
    /\ UNCHANGED dbVars

\* shutil.rmtree(): a file of the first chip, or of the second when it is gone.
RemoveFile ==
    /\ pc = "remove"
    /\ LET old == IF FilesOf(chip) # {} THEN FilesOf(chip) ELSE FilesOf(matches[1].chip)
       IN \E f \in old : files' = files \ {f}
    /\ Goto(pc)
    /\ UNCHANGED <<stored, writeVars, matchVars, historyVars>>

MoreMatches == Tail(matches)

\* "Make a new chip using the combined pages".
Combine ==
    /\ pc = "remove"
    /\ FilesOf(chip) = {} /\ FilesOf(matches[1].chip) = {}
    /\ matches' = MoreMatches
    /\ Goto("renumber")
    /\ UNCHANGED <<dbVars, given, k, writeVars, historyVars>>

\* The script is ended.
Crash == MayCrash /\ pc # "idle" /\ Fail /\ UNCHANGED dbVars

Step ==
    \/ ChipAdd \/ WritePage \/ Written \/ MatchPage \/ Matched
    \/ Merge \/ RemoveFile \/ Combine

Finished == pc = "idle" /\ calls = MaxCalls /\ UNCHANGED vars

Next == Add \/ Check \/ SearchOn \/ Step \/ Crash \/ Finished

Spec == Init /\ [][Next]_vars

\* A call that was made goes on.
FairSpec == Spec /\ WF_vars(Step)

-----------------------------------------------------------------------------
CONSTANT TrueChips   \* what the pages of real chips are

TypeOK ==
    /\ \A f \in files : f.chip \in Numbers /\ f.loc \in Nat
    /\ pc \in {"idle", "number", "write", "check", "match", "merge", "remove",
               "renumber", "rewrite"}
    /\ loc \in Nat /\ k \in 1 .. Len(given) + 1
    /\ \A f, g \in files : f.chip = g.chip /\ f.loc = g.loc => f = g

Pages == {f.page : f \in files}

\* Where chip c is in the true chip t.
IsAt(c, t, o) ==
    \A f \in FilesOf(c) : o + f.loc + 1 \in DOMAIN t /\ t[o + f.loc + 1] = f.page

\* "Assumes ordering of pages matches ordering of memory": whatever was merged,
\* the pages of a chip in the database are those of a real one, in their places.
PlacesAreTrue ==
    \A c \in ChipNumbers : \E t \in TrueChips, o \in -1 .. 9 : IsAt(c, t, o)

\* Not even calls that are interrupted put pages of two chips together.
ChipsAreNotMixed ==
    \A c \in ChipNumbers : \E t \in TrueChips : \A f \in FilesOf(c) :
        \E o \in DOMAIN t : t[o] = f.page

\* "If there is more than one chip matching, it shows link between two of the
\* previous recorded chips.  So we merge": no page is in two chips, unless one of
\* them holds what a call left behind that failed after it had stored its pages.
LinkedAreMerged ==
    pc = "idle" =>
        \A f, g \in files : f.page = g.page /\ f.chip # g.chip =>
            {f.chip, g.chip} \intersect unmerged # {}

\* Merging keeps what the chips held: a page that was stored is in the database
\* when no call is under way.
PagesAreKept == pc = "idle" => stored \subseteq Pages

\* A call that is ended may lose pages, but only of the two chips it was merging.
OnlyMergesLose == stored \ Pages \subseteq merging \union atRisk

\* A call of the script ends, or it looks for a number for its pages for ever, but
\* only when all are taken; a merge, which has freed two, always finds one.
CallsEnd == pc # "idle" ~> pc = "idle" \/ (pc = "number" /\ ChipNumbers = Numbers)
=============================================================================
