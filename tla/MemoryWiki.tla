----------------------------- MODULE MemoryWiki -----------------------------
(***************************************************************************)
(* From daily logs to wiki pages: MemoryIndexer.process_user and the Dream *)
(* Wiki, its default backend (insert and consolidate).  The scheduler runs *)
(* a pass over the logs when the user is idle; memory.py runs the same     *)
(* code as a command, in a process of its own, on the same files.          *)
(*                                                                         *)
(* A pass analyses each log that changed since it was indexed.  What the   *)
(* model makes of a log is a note on one or more pages; pages that overlap *)
(* are merged.  Every page is read, then written whole, and the other      *)
(* process, an error or the end of the process may come between.  A file   *)
(* of modification times, written whole at the end of a pass, says which   *)
(* logs are indexed.  A log's modification time stands for its content.    *)
(* dreamed_files.json, index.md and log.md are written along and steer     *)
(* nothing here: they are left out.                                        *)
(***************************************************************************)
EXTENDS Integers, FiniteSets

CONSTANTS
    Docs,           \* daily logs, in the order of their dates
    Slugs,          \* names of pages
    MaxPages,       \* bound: pages that one answer writes
    MaxIncidents    \* bound: changes to logs of past days, errors and deferrals, commands
                    \* and ends of a process, together

NoSlug == "none"

ASSUME WikiAssumption ==
    /\ Docs \subseteq Nat /\ IsFiniteSet(Docs)
    /\ IsFiniteSet(Slugs) /\ NoSlug \notin Slugs
    /\ MaxPages \in Nat /\ MaxIncidents \in Nat

VARIABLES
    mtime,      \* of each log
    tracked,    \* .indexed_files_markdown.json
    pages,      \* the notes on each page
    proc,       \* the scheduler's indexer and the command's
    edits, failures, commands, stops,
    \* -- history variables --
    ingested,   \* notes written
    twice,      \* notes written again by another insert
    excused,    \* notes that are nowhere for a reason: the model noted nothing of the
                \* content, the page was created anew, its write broke off, or it was
                \* written in a pass that ran beside another
    cut,        \* logs of which something was noted, but not that they are indexed
    beside,     \* the processes that were not alone since they began
    overlapped  \* two processes were at work at once

wikiVars == <<mtime, tracked, pages, proc, edits, failures, commands, stops,
              ingested, twice, excused, cut, beside, overlapped>>
wikiCounts == <<edits, failures, commands, stops>>
wikiHistory == <<ingested, twice, excused, cut, beside, overlapped>>

Procs == {"scheduler", "command"}
Untracked == 0
NoPage == [exists |-> FALSE, notes |-> {}]
Unindexed == [d \in Docs |-> Untracked]

Idle == [pc |-> "idle", todo |-> {}, doc |-> 0, seen |-> Untracked, tracked |-> Unindexed,
         changed |-> FALSE, onHold |-> {}, known |-> {}, fresh |-> FALSE, written |-> 0,
         page |-> NoSlug, appends |-> FALSE, held |-> {}, into |-> NoSlug, gone |-> NoSlug, links |-> {}]

Present == {s \in Slugs : pages[s].exists}

WikiInit ==
    /\ mtime = [d \in Docs |-> 1]
    /\ tracked = Unindexed
    /\ pages = [s \in Slugs |-> NoPage]
    /\ proc = [p \in Procs |-> Idle]
    /\ edits = 0 /\ failures = 0 /\ commands = 0 /\ stops = 0
    /\ ingested = {} /\ twice = {} /\ excused = {} /\ cut = {} /\ beside = {}
    /\ overlapped = FALSE

MayHappen == edits + failures + commands + stops < MaxIncidents

Others(p) == {q \in Procs \ {p} : proc[q].pc # "idle"}

-----------------------------------------------------------------------------
(* A pass over the logs *)

Begun(w) == [w EXCEPT !.pc = "pass", !.todo = Docs, !.tracked = tracked, !.changed = FALSE]

\* memory.py consolidate and lint: no log is analysed, and no time recorded.
Linting(w) == [Begun(w) EXCEPT !.pc = "consolidating", !.todo = {}, !.known = Present]

\* A process goes to work.
Starts(p, w) ==
    /\ proc[p].pc = "idle"
    /\ p = "command" => MayHappen
    /\ commands' = IF p = "command" THEN commands + 1 ELSE commands
    /\ proc' = [proc EXCEPT ![p] = w]
    /\ beside' = IF Others(p) = {} THEN beside ELSE Procs
    /\ overlapped' = (overlapped \/ Others(p) # {})
    /\ UNCHANGED <<mtime, tracked, pages, edits, failures, stops, ingested, twice, excused, cut>>

BeginPass(p) == Starts(p, Begun(proc[p]))

BeginLint(p) ==
    /\ p = "command" /\ Cardinality(Present) > 1
    /\ Starts(p, Linting(proc[p]))

\* A step of which only the process itself knows.
Goes(p, w) ==
    /\ proc' = [proc EXCEPT ![p] = w]
    /\ UNCHANGED <<mtime, tracked, pages, wikiCounts, wikiHistory>>

\* Mutant of Outdated: a log that was indexed once is done with.
OutdatedIfNew(w, d) == w.tracked[d] = Untracked /\ d \notin w.onHold

\* A changed log, unless it was tried in vain less than an hour ago.
Outdated(w, d) == w.tracked[d] # mtime[d] /\ d \notin w.onHold

\* The logs are taken in the order of their dates.
Earliest(w) == {d \in w.todo : \A e \in w.todo : d <= e}

Passed(w, d) == [w EXCEPT !.todo = @ \ {d}]

Skip(p) ==
    /\ proc[p].pc = "pass"
    /\ \E d \in Earliest(proc[p]) : ~Outdated(proc[p], d) /\ Goes(p, Passed(proc[p], d))

\* A chat keeps the model busy: the other logs have to wait for the next pass.
Deferred(w) == [w EXCEPT !.todo = {}]

Defer(p) ==
    /\ p = "scheduler" /\ proc[p].pc = "pass" /\ proc[p].todo # {} /\ MayHappen
    /\ failures' = failures + 1
    /\ proc' = [proc EXCEPT ![p] = Deferred(@)]
    /\ UNCHANGED <<mtime, tracked, pages, edits, commands, stops, wikiHistory>>

\* insert, up to the question to the model.
Asking(w, d) == [Passed(w, d) EXCEPT !.pc = "analyzing", !.doc = d, !.seen = mtime[d], !.known = Present]

Analyze(p) ==
    /\ proc[p].pc = "pass"
    /\ \E d \in Earliest(proc[p]) : Outdated(proc[p], d) /\ Goes(p, Asking(proc[p], d))

\* On with the pass.
Onward(w) ==
    [w EXCEPT !.pc = "pass", !.doc = 0, !.seen = Untracked, !.known = {}, !.fresh = FALSE,
              !.written = 0, !.page = NoSlug, !.appends = FALSE, !.held = {}, !.into = NoSlug,
              !.gone = NoSlug, !.links = {}]

\* Mutant of Indexed: the time of the log when the work is done.
IndexedLate(w) ==
    [Onward(w) EXCEPT !.tracked[w.doc] = mtime[w.doc], !.changed = TRUE, !.onHold = @ \ {w.doc}]

Indexed(w) ==
    [Onward(w) EXCEPT !.tracked[w.doc] = w.seen, !.changed = TRUE, !.onHold = @ \ {w.doc}]

\* The exception of an insert: not again within an hour, which nobody but this object knows.
Held(w) == [Onward(w) EXCEPT !.onHold = @ \cup {w.doc}]

-----------------------------------------------------------------------------
(* Pages: the answer's actions one by one *)

NoteOf(w) == <<w.doc, w.seen>>

\* _update_page reads the page it appends to; for any other action, or a page that is not
\* there, it will write a new one.  The name is the answer's, or one like it that exists.
Opened(w, slug, action) ==
    LET appends == action = "update" /\ pages[slug].exists
    IN  [w EXCEPT !.pc = "updating", !.page = slug, !.appends = appends,
                  !.held = IF appends THEN pages[slug].notes ELSE {},
                  !.fresh = @ \/ slug \notin w.known, !.known = @ \cup {slug}]

OpenPage(p, slug, action) ==
    /\ proc[p].pc \in {"analyzing", "noting"} /\ proc[p].written < MaxPages
    /\ Goes(p, Opened(proc[p], slug, action))

\* Mutant of Contents: the section is written without what the page said.
SectionOnly(w) == IF w.pc = "updating" THEN {NoteOf(w)} ELSE w.held

\* What a page is going to hold.
Contents(w) == IF w.pc = "updating" THEN w.held \cup {NoteOf(w)} ELSE w.held

Closed(w, pc) == [w EXCEPT !.pc = pc, !.page = NoSlug, !.appends = FALSE, !.held = {}]

Counted(w) == [w EXCEPT !.written = @ + 1]

\* open(path, "w") and write.  Whatever else the page held is gone.
Puts(p, w) ==
    /\ pages' = [pages EXCEPT ![w.page] = [exists |-> TRUE, notes |-> Contents(w)]]
    /\ excused' = IF w.appends /\ p \notin beside THEN excused
                  ELSE excused \cup (pages[w.page].notes \ Contents(w))

WritePage(p) ==
    LET w == proc[p]
    IN  /\ w.pc = "updating"
        /\ Puts(p, w)
        /\ ingested' = ingested \cup {NoteOf(w)}
        /\ twice' = IF w.written = 0 /\ NoteOf(w) \in ingested THEN twice \cup {NoteOf(w)} ELSE twice
        /\ proc' = [proc EXCEPT ![p] = Counted(Closed(w, "noting"))]
        /\ UNCHANGED <<mtime, tracked, wikiCounts, cut, beside, overlapped>>

\* A new page is a reason to look for overlaps.
Noted(w) ==
    IF w.fresh /\ Cardinality(Present) > 1 THEN [w EXCEPT !.pc = "consolidating", !.known = Present]
    ELSE Indexed(w)

EndInsert(p) == proc[p].pc = "noting" /\ Goes(p, Noted(proc[p]))

\* An answer that is not JSON, or empty, counts as no pages.
NothingToNote(p) ==
    LET w == proc[p]
    IN  /\ w.pc = "analyzing"
        /\ ingested' = ingested \cup {NoteOf(w)}
        /\ excused' = excused \cup {NoteOf(w)}
        /\ proc' = [proc EXCEPT ![p] = Indexed(w)]
        /\ UNCHANGED <<mtime, tracked, pages, wikiCounts, twice, cut, beside, overlapped>>

\* A write that broke off leaves an empty page.
BreaksOff(w) ==
    \/ UNCHANGED <<pages, excused>>
    \/ /\ w.pc \in {"updating", "rewriting"}
       /\ pages' = [pages EXCEPT ![w.page] = [exists |-> TRUE, notes |-> {}]]
       /\ excused' = excused \cup pages[w.page].notes

\* The model is not reached or busy, an action of its answer is malformed, a file cannot be
\* written: the pages written before stay.
InsertFails(p) ==
    LET w == proc[p]
    IN  /\ w.pc \in {"analyzing", "noting", "updating"} /\ MayHappen
        /\ failures' = failures + 1
        /\ BreaksOff(w)
        /\ cut' = IF w.written = 0 THEN cut ELSE cut \cup {w.doc}
        /\ proc' = [proc EXCEPT ![p] = Held(w)]
        /\ UNCHANGED <<mtime, tracked, edits, commands, stops, ingested, twice, beside, overlapped>>

-----------------------------------------------------------------------------
(* consolidate: merges and links, by an answer about an earlier state of the wiki *)

\* The page that goes is read.
Merging(w, keep, gone) ==
    [w EXCEPT !.pc = "merging", !.page = keep, !.appends = TRUE, !.held = pages[gone].notes,
              !.into = keep, !.gone = gone, !.known = @ \ {gone}]

\* Two pages that are there, but nobody looks again for the one that stays if more pages go
\* into it; an answer names a page to go once at most.
Merge(p, keep, gone) ==
    /\ proc[p].pc \in {"consolidating", "merged"} /\ keep # gone
    /\ gone \in Present \cap proc[p].known /\ keep \in Present \cup {proc[p].into}
    /\ Goes(p, Merging(proc[p], keep, gone))

\* Mutant of Joined: the page that goes is not copied.
JoinedWithout(w) == pages[w.page].notes

\* What the page that stays holds then.
Joined(w) == pages[w.page].notes \cup w.held

\* It is appended to the page that stays, and the links to it are going to be redirected,
\* of which the page that stays has one now.
Relinking(w, links) == [Closed(w, "relinking") EXCEPT !.links = links]

AppendMerged(p, links) ==
    LET w == proc[p]
    IN  /\ w.pc = "merging" /\ w.page \in links /\ links \subseteq Present \cup {w.page}
        /\ pages' = [pages EXCEPT ![w.page] = [exists |-> TRUE, notes |-> Joined(w)]]
        /\ proc' = [proc EXCEPT ![p] = Relinking(w, links)]
        /\ UNCHANGED <<mtime, tracked, wikiCounts, wikiHistory>>

\* A page with a link to change is read; one that is no longer there is passed over.
Rereading(w, s) ==
    IF pages[s].exists
    THEN [w EXCEPT !.pc = "rewriting", !.page = s, !.appends = TRUE, !.held = pages[s].notes, !.links = @ \ {s}]
    ELSE [w EXCEPT !.links = @ \ {s}]

ReadLinks(p, s) ==
    /\ proc[p].pc = "relinking" /\ s \in proc[p].links
    /\ Goes(p, Rereading(proc[p], s))

\* And written.
WriteLinks(p) ==
    /\ proc[p].pc = "rewriting"
    /\ Puts(p, proc[p])
    /\ proc' = [proc EXCEPT ![p] = Closed(@, "relinking")]
    /\ UNCHANGED <<mtime, tracked, wikiCounts, ingested, twice, cut, beside, overlapped>>

\* os.remove fails on a page that is not there, which ends this merge only.
MergeOver(w) == [Closed(w, "merged") EXCEPT !.gone = NoSlug, !.links = {}]

RemoveMerged(p) ==
    LET w == proc[p]
    IN  /\ w.pc = "relinking" /\ w.links = {} /\ w.gone # NoSlug
        /\ pages' = [pages EXCEPT ![w.gone] = NoPage]
        /\ excused' = IF p \in beside THEN excused \cup pages[w.gone].notes ELSE excused
        /\ proc' = [proc EXCEPT ![p] = MergeOver(w)]
        /\ UNCHANGED <<mtime, tracked, wikiCounts, ingested, twice, cut, beside, overlapped>>

\* An error within a merge ends it where it is; within a page's links, only that page.
Interrupted(w) == IF w.pc = "rewriting" THEN Closed(w, "relinking") ELSE MergeOver(w)

MergeFails(p) ==
    LET w == proc[p]
    IN  /\ w.pc = "rewriting" \/ (w.pc \in {"merging", "relinking"} /\ w.gone # NoSlug)
        /\ MayHappen
        /\ failures' = failures + 1
        /\ BreaksOff(w)
        /\ proc' = [proc EXCEPT ![p] = Interrupted(w)]
        /\ UNCHANGED <<mtime, tracked, edits, commands, stops, ingested, twice, cut, beside, overlapped>>

\* A consolidation that belongs to an insert ends with the log indexed, whatever came of it.
Consolidated(w) == IF w.written > 0 THEN Indexed(w) ELSE Onward(w)

\* After the merges, if any, or without an answer, links that miss are added to some pages.
AddLinks(p, links) ==
    /\ proc[p].pc \in {"consolidating", "merged"} /\ links \subseteq Present
    /\ Goes(p, IF links = {} THEN Consolidated(proc[p]) ELSE Relinking(proc[p], links))

EndLinks(p) ==
    /\ proc[p].pc = "relinking" /\ proc[p].links = {} /\ proc[p].gone = NoSlug
    /\ Goes(p, Consolidated(proc[p]))

-----------------------------------------------------------------------------
(* The end of a pass, and what happens around it *)

\* Mutant of Saved: the pass has to have gone through.
SavedIfAll(w) == IF w.changed /\ w.onHold = {} THEN w.tracked ELSE tracked

Saved(w) == IF w.changed THEN w.tracked ELSE tracked

\* A command's process ends here; the scheduler keeps its indexer.
Rests(p, w) == IF p = "command" THEN Idle ELSE [Idle EXCEPT !.onHold = w.onHold]

EndPass(p) ==
    /\ proc[p].pc = "pass" /\ proc[p].todo = {}
    /\ tracked' = Saved(proc[p])
    /\ proc' = [proc EXCEPT ![p] = Rests(p, @)]
    /\ beside' = beside \ {p}
    /\ UNCHANGED <<mtime, pages, wikiCounts, ingested, twice, excused, cut, overlapped>>

\* The file is truncated before it is written: an error or the end of the process between
\* leaves one that no pass can read, and every log counts as new.
SaveBreaksOff(p) ==
    /\ proc[p].pc = "pass" /\ proc[p].todo = {} /\ proc[p].changed /\ MayHappen
    /\ stops' = stops + 1
    /\ tracked' = Unindexed
    /\ cut' = cut \cup {d \in Docs : Untracked # tracked[d] \/ Untracked # proc[p].tracked[d]}
    /\ \E w \in {Idle, Rests(p, proc[p])} : proc' = [proc EXCEPT ![p] = w]
    /\ beside' = beside \ {p}
    /\ UNCHANGED <<mtime, pages, edits, failures, commands, ingested, twice, excused, overlapped>>

\* A process ends at work: the logs it has analysed are not recorded as indexed.
Stop(p) ==
    LET w == proc[p]
    IN  /\ MayHappen /\ w.pc # "idle"
        /\ stops' = stops + 1
        /\ BreaksOff(w)
        /\ proc' = [proc EXCEPT ![p] = Idle]
        /\ cut' = cut \cup {d \in Docs : w.tracked[d] # tracked[d] \/ (d = w.doc /\ w.written > 0)}
        /\ beside' = beside \ {p}
        /\ UNCHANGED <<mtime, tracked, edits, failures, commands, ingested, twice, overlapped>>

Edit(d) ==
    /\ MayHappen
    /\ edits' = edits + 1
    /\ mtime' = [mtime EXCEPT ![d] = @ + 1]
    /\ UNCHANGED <<tracked, pages, proc, failures, commands, stops, wikiHistory>>

\* RETRY_COOLDOWN is over.
Released(w, d) == [w EXCEPT !.onHold = @ \ {d}]

HoldEnds(p, d) == d \in proc[p].onHold /\ Goes(p, Released(proc[p], d))

\* reload_config drops the indexer, and with it its failures.
Reload ==
    /\ proc["scheduler"].pc = "idle" /\ proc["scheduler"] # Idle
    /\ Goes("scheduler", Idle)

-----------------------------------------------------------------------------

Inserts(p) ==
    \/ \E s \in Slugs, a \in {"create", "update"} : OpenPage(p, s, a)
    \/ WritePage(p) \/ EndInsert(p) \/ NothingToNote(p) \/ InsertFails(p)

Consolidates(p) ==
    \/ \E s, g \in Slugs : Merge(p, s, g)
    \/ \E links \in SUBSET Slugs : AppendMerged(p, links) \/ AddLinks(p, links)
    \/ \E s \in Slugs : ReadLinks(p, s)
    \/ WriteLinks(p) \/ RemoveMerged(p) \/ MergeFails(p) \/ EndLinks(p)

PassStep(p) ==
    \/ BeginPass(p) \/ Skip(p) \/ Defer(p) \/ Analyze(p) \/ EndPass(p)
    \/ Inserts(p) \/ Consolidates(p)

WikiNext ==
    \/ \E p \in Procs : PassStep(p) \/ BeginLint(p) \/ SaveBreaksOff(p) \/ Stop(p)
    \/ \E d \in Docs : Edit(d) \/ \E p \in Procs : HoldEnds(p, d)
    \/ Reload

WikiSpec == WikiInit /\ [][WikiNext]_wikiVars

\* The scheduler comes back to an idle user, and an hour passes.
FairWikiSpec ==
    /\ WikiSpec
    /\ WF_wikiVars(PassStep("scheduler"))
    /\ \A d \in Docs : WF_wikiVars(HoldEnds("scheduler", d))

-----------------------------------------------------------------------------
(* Properties *)

Times == 0 .. MaxIncidents + 1
Notes == Docs \X Times

\* The variables have their types; only a page that exists has notes, and a process that has
\* a page open knows which.
WikiTypeOK ==
    /\ mtime \in [Docs -> Times] /\ tracked \in [Docs -> Times]
    /\ \A s \in Slugs : pages[s].notes \subseteq Notes /\ (pages[s].notes # {} => pages[s].exists)
    /\ \A p \in Procs : /\ proc[p].pc \in {"idle", "pass", "analyzing", "noting", "updating", "consolidating",
                                           "merging", "merged", "relinking", "rewriting"}
                        /\ proc[p].todo \subseteq Docs /\ proc[p].tracked \in [Docs -> Times]
                        /\ proc[p].pc \in {"updating", "merging", "rewriting"} => proc[p].page \in Slugs

\* A log that is recorded as indexed was analysed as it was at the recorded time or later:
\* an edit during the analysis, or the other process, never makes old content count as new.
IndexedIsFresh ==
    \A d \in Docs : tracked[d] # Untracked => \E n \in ingested : n[1] = d /\ n[2] >= tracked[d]

\* What a log said is noted by one insert for each of its contents, unless two processes were
\* at work at a time, or an insert or a pass was cut short after something of the log was noted.
NotedOnce == ~overlapped => \A n \in twice : n[1] \in cut

\* A note stays on a page, through updates of the page, merges, redirected links, errors in
\* the middle of a merge and the end of the process anywhere, unless its page was created anew
\* in its place, a write of it broke off, or the pass that wrote it ran beside another.
NotesKept == \A n \in ingested \ excused : \E s \in Slugs : n \in pages[s].notes

\* Once logs are no longer edited and the model can be reached, every log is indexed as
\* it is, and stays so.
LogsGetIndexed == <>[](\A d \in Docs : tracked[d] = mtime[d])
=============================================================================
