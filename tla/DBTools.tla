------------------------------ MODULE DBTools ------------------------------
(***************************************************************************)
(* The command line tools of utils/kvdb over the files of a directory.     *)
(* Each run of a tool is one process; dbcompact and mkdb, which loop, are  *)
(* one step per entry and per line, the others one step.  The engine is    *)
(* taken at the level KVDB is proved to keep: a database is its capacity   *)
(* and its sequence of entries.                                            *)
(*                                                                         *)
(* Keys, values and texts are characters; a text is the sequence of the    *)
(* pieces that fgets returns, each but perhaps the last ended by a newline *)
(* or as long as the buffer admits.  The types of keys and values, which   *)
(* the tools make text, are left out.                                      *)
(***************************************************************************)
EXTENDS Naturals, TxtTok

CONSTANTS
    Path,           \* the file names
    stdout,         \* no export path was given
    Hash, nul,      \* what begins a comment; what ends a string of C
    Keys, Vals,     \* the keys and values put
    InitialFiles,   \* what the directory may hold at first
    Caps,           \* the capacities newdb and mkdb are called with
    BUFFER_SIZE,    \* of mkdb's line buffer
    MAX_KEY_SIZE,   \* of the engine
    MaxRuns         \* bound on the runs of tools

VARIABLES
    files,          \* what each path holds
    run,            \* the current or last run: tool, its paths, how it stands
    before,         \* files when that run began
    src, new,       \* the databases it has open: read from, written to
    i, drift,       \* entries or lines passed; how far mkdb's line has moved
    runs            \* how many runs there were

work == <<src, new, i, drift>>
vars == <<files, run, before, work, runs>>

NoFile        == [kind |-> "none"]
Unclosed      == [kind |-> "unclosed"]   \* created, and no header until close
Report        == [kind |-> "report"]     \* text for people
Text(lines)   == [kind |-> "text", lines |-> lines]
DB(cap, ents) == [kind |-> "db", cap |-> cap, entries |-> ents]
Entry(k, v)   == [key |-> k, val |-> v, deleted |-> FALSE]

EntryType == [key : Seq(Char), val : Seq(Char), deleted : BOOLEAN]
DBType    == [kind : {"db"}, cap : Nat, entries : Seq(EntryType)]
FileType  == {NoFile, Unclosed, Report} \cup [kind : {"text"}, lines : Seq(Seq(Char))] \cup DBType

\* A database as the engine writes it (KVDB's OneLiveEntryPerKey and TypeOK).
WellFormed(d) ==
    /\ Len(d.entries) <= d.cap
    /\ \A n \in DOMAIN d.entries : Len(d.entries[n].key) <= MAX_KEY_SIZE
    /\ \A m, n \in DOMAIN d.entries :
          /\ d.entries[m].key = d.entries[n].key
          /\ ~d.entries[m].deleted /\ ~d.entries[n].deleted
          => m = n

ASSUME ToolsAssumption ==
    /\ Delim \in Char /\ nl \in Char /\ nul \notin {Delim, nl}
    /\ Keys \subseteq Seq(Char) /\ Vals \subseteq Seq(Char)
    /\ Caps \subseteq Nat /\ MAX_KEY_SIZE \in Nat /\ MaxRuns \in Nat
    /\ BUFFER_SIZE \in Nat /\ BUFFER_SIZE > 1
    /\ InitialFiles \subseteq [Path -> FileType]
    /\ \A fs \in InitialFiles, p \in Path :
          /\ fs[p].kind = "db" => WellFormed(fs[p])
          /\ fs[p].kind = "text" => \A n \in DOMAIN fs[p].lines :
                                      fs[p].lines[n] # <<>> /\ Len(fs[p].lines[n]) < BUFFER_SIZE

-----------------------------------------------------------------------------
(* The engine on a database d. *)

LiveIDs(d)  == {n \in DOMAIN d.entries : ~d.entries[n].deleted}
IDsOf(d, k) == {n \in LiveIDs(d) : d.entries[n].key = k}
Dict(d)     == [k \in {d.entries[n].key : n \in LiveIDs(d)} |->
                  d.entries[CHOOSE n \in IDsOf(d, k) : TRUE].val]

\* open fails without a header, and on an empty key (KVDB's ReopenSucceeds).
Opens(p) == /\ files[p].kind = "db"
            /\ \A n \in DOMAIN files[p].entries : files[p].entries[n].key # <<>>

Deleted(d, ids) ==
    [d EXCEPT !.entries = [n \in DOMAIN @ |-> IF n \in ids THEN [@[n] EXCEPT !.deleted = TRUE]
                                                          ELSE @[n]]]

\* Refused when the database is full or the key is too long.
KVDB_DBObject_put(d, k, v) ==
    IF Len(d.entries) >= d.cap \/ Len(k) > MAX_KEY_SIZE THEN d
    ELSE [Deleted(d, IDsOf(d, k)) EXCEPT !.entries = Append(@, Entry(k, v))]

\* A lookup after a deletion in the same session may meet the tombstone: any two
\* keys may share a bucket.  (A database that was just created has no other.)  A
\* refused put looks nothing up.
MeetsTombstone(d, k) ==
    Len(d.entries) < d.cap /\ Len(k) <= MAX_KEY_SIZE /\ LiveIDs(d) # DOMAIN d.entries

-----------------------------------------------------------------------------
(* Tools of one step. *)

Idle == run.st # "running"

\* The run of a tool begins; t, in and out are its name and paths.
Begins(t, in, out, st) ==
    /\ Idle
    /\ runs < MaxRuns
    /\ runs' = runs + 1
    /\ run' = [tool |-> t, in |-> in, out |-> out, st |-> st]
    /\ before' = files

\* A run of one step that leaves the files as fs.
Runs(t, in, out, fs) ==
    /\ Begins(t, in, out, "done")
    /\ files' = fs
    /\ UNCHANGED work

\* fopen(export_filepath, "w") comes first, and then open may find nothing.
Exported(x) == IF x = stdout THEN files ELSE [files EXCEPT ![x] = Report]

OpensAfter(p, x) == x # p /\ Opens(p)

newdb(p, cap) == Runs("newdb", p, p, [files EXCEPT ![p] = DB(cap, <<>>)])

dbput(p, k, v, x) ==
    Runs("dbput", p, x,
         IF OpensAfter(p, x)
         THEN [Exported(x) EXCEPT ![p] = KVDB_DBObject_put(files[p], k, v)]
         ELSE Exported(x))

dbdel(p, k) ==
    Runs("dbdel", p, p,
         IF Opens(p) THEN [files EXCEPT ![p] = Deleted(@, IDsOf(@, k))] ELSE files)

dbdel_by_id(p, id) ==
    Runs("dbdel-by-id", p, p,
         IF Opens(p) THEN [files EXCEPT ![p] = Deleted(@, {id + 1})] ELSE files)

dbget(p, x)   == Runs("dbget", p, x, Exported(x))
dblskeys(p, x) == Runs("dblskeys", p, x, Exported(x))
dbdmp(p, x)   == Runs("dbdmp", p, x, Exported(x))

\* The capacity is changed in memory, and close writes only what db_modified says.
dbresize(p, cap) ==
    /\ Opens(p) /\ cap > Len(files[p].entries)
    /\ Runs("dbresize", p, p, files)

\* What "%s" prints of a string, and strlen counts.
Cut(str) == LET end == SelectInSeq(str, LAMBDA c : c = nul)
            IN  IF end = 0 THEN str ELSE SubSeq(str, 1, end - 1)

\* "%.*s=%.*s\n"
Printed(e) == Cut(e.key) \o <<Delim>> \o Cut(e.val) \o <<nl>>

\* A piece that fgets returns: it goes on to a newline, or fills the buffer.
IsWhole(piece) == Last(piece) = nl \/ Len(piece) = BUFFER_SIZE - 1

WithChar(pieces, c) ==
    IF pieces = <<>> \/ IsWhole(Last(pieces)) THEN Append(pieces, <<c>>)
    ELSE Append(Front(pieces), Append(Last(pieces), c))

\* How fgets takes what was printed apart.
PiecesOf(str) ==
    LET taken[n \in 0 .. Len(str)] ==
          IF n = 0 THEN <<>> ELSE WithChar(taken[n - 1], str[n])
    IN  taken[Len(str)]

\* Mutant: the deleted entries too.
DumpAll(d) ==
    LET dumped[n \in 0 .. Len(d.entries)] ==
          IF n = 0 THEN <<>> ELSE dumped[n - 1] \o PiecesOf(Printed(d.entries[n]))
    IN  dumped[Len(d.entries)]

\* The text of a dump: "key=value" for each live entry, as mkdb will read it.
Dump(d) ==
    LET dumped[n \in 0 .. Len(d.entries)] ==
          IF n = 0 THEN <<>>
          ELSE IF d.entries[n].deleted THEN dumped[n - 1]
          ELSE dumped[n - 1] \o PiecesOf(Printed(d.entries[n]))
    IN  dumped[Len(d.entries)]

dbdmpkv(p, x) ==
    Runs("dbdmpkv", p, x,
         IF x = stdout THEN files
         ELSE [files EXCEPT ![x] = Text(IF OpensAfter(p, x) THEN Dump(files[p]) ELSE <<>>)])

-----------------------------------------------------------------------------
(* Steps of the tools that loop. *)

Ends(st) == run' = [run EXCEPT !.st = st]

\* A process that is killed, or faults, leaves the file it created unclosed.
Stops(st) ==
    /\ run.st = "running"
    /\ Ends(st)
    /\ UNCHANGED <<files, before, work, runs>>

Kill == Stops("killed")

\* The loop is over: the new database is closed.
Closes ==
    /\ Ends("done")
    /\ files' = [files EXCEPT ![run.out] = new]
    /\ UNCHANGED <<before, work, runs>>

Goes(on) == run.tool = on /\ run.st = "running"

\* dbcompact opens the one file and then creates the other, which may be the same.
dbcompact(p, q) ==
    /\ Opens(p)
    /\ Begins("dbcompact", p, q, "running")
    /\ files' = [files EXCEPT ![q] = Unclosed]
    /\ src' = files[p]
    /\ new' = DB(files[p].cap, <<>>)
    /\ i' = 0
    /\ UNCHANGED drift

\* create failed, and the test is of the other pointer: the first put faults.
dbcompact_uncreated(p, q) ==
    /\ Opens(p)
    /\ Begins("dbcompact", p, q, IF LiveIDs(files[p]) = {} THEN "failed" ELSE "dead")
    /\ UNCHANGED <<files, work>>

\* Mutant: deleted entries are copied too.
CopiesDeleted(d, e, k, v) == KVDB_DBObject_put(d, k, v)

Copied(d, e, k, v) == IF e.deleted THEN d ELSE KVDB_DBObject_put(d, k, v)

\* Reading from a file that was emptied: the stream still has a part of it, or
\* get fails, or it returns memory that fread did not fill.
CompactEntry ==
    /\ Goes("dbcompact")
    /\ i < Len(src.entries)
    /\ LET e == src.entries[i + 1]
       IN  \/ new' = Copied(new, e, e.key, e.val)
           \/ /\ run.in = run.out /\ ~e.deleted
              /\ \/ UNCHANGED new
                 \/ \E k \in Keys, v \in Vals : new' = Copied(new, e, k, v)
    /\ i' = i + 1
    /\ UNCHANGED <<files, run, before, src, drift, runs>>

CompactDone ==
    /\ Goes("dbcompact")
    /\ i >= Len(src.entries)
    /\ Closes

\* mkdb opens the text and then creates the database over whatever was there.
mkdb(p, q, cap) ==
    /\ files[p].kind = "text"
    /\ Begins("mkdb", p, q, "running")
    /\ files' = [files EXCEPT ![q] = Unclosed]
    /\ new' = DB(cap, <<>>)
    /\ i' = 0
    /\ drift' = 0
    /\ UNCHANGED src

\* The lines fgets still returns: none if the text was the file that create emptied.
Lines == IF run.in = run.out THEN <<>> ELSE before[run.in].lines

Line(piece) == rstrip(lstrip(Cut(piece)))
Toks(piece) == MarkTokPosMeta(Line(piece), 2, Delim)

IsData(piece) == Line(piece) # <<>> /\ Line(piece)[1] # Hash

\* Mutant: the tokens are taken in the wrong order.
SecondToken(piece) == TokOf(Line(piece), Toks(piece)[2])

KeyOf(piece) == TokOf(Line(piece), Toks(piece)[1])
ValOf(piece) == TokOf(Line(piece), Toks(piece)[2])

\* Mutant: the array of tokens has no room to spare.
OverrunsAtSecond(piece) ==
    \/ drift + Len(piece) + 1 > BUFFER_SIZE
    \/ IsData(piece) /\ Len(Marks(Line(piece), Delim)) > 2

\* fgets may write BUFFER_SIZE bytes behind line, which lstrip has moved.  A second
\* '=' writes behind the array of two tokens, where the block that calloc hands out
\* still has room for one more; a third writes past the block.
Overruns(piece) ==
    \/ drift + Len(piece) + 1 > BUFFER_SIZE
    \/ IsData(piece) /\ Len(Marks(Line(piece), Delim)) > 3

\* Mutant: the first value of a key stays.
KeepsFirst(piece) ==
    IF IsData(piece) /\ KeyOf(piece) \notin DOMAIN Dict(new)
    THEN KVDB_DBObject_put(new, KeyOf(piece), ValOf(piece)) ELSE new

Loaded(piece) ==
    IF IsData(piece) THEN KVDB_DBObject_put(new, KeyOf(piece), ValOf(piece)) ELSE new

LoadLine ==
    /\ Goes("mkdb")
    /\ i < Len(Lines)
    /\ new' = Loaded(Lines[i + 1])
    /\ i' = i + 1
    /\ drift' = drift + Leading(Cut(Lines[i + 1]))
    /\ UNCHANGED <<files, run, before, src, runs>>

LoadFaults ==
    /\ Goes("mkdb")
    /\ i < Len(Lines)
    /\ LET piece == Lines[i + 1]
       IN  Overruns(piece) \/ (IsData(piece) /\ MeetsTombstone(new, KeyOf(piece)))
    /\ Stops("dead")

LoadDone ==
    /\ Goes("mkdb")
    /\ i >= Len(Lines)
    /\ Closes

-----------------------------------------------------------------------------
Init ==
    /\ files \in InitialFiles
    /\ run = [tool |-> "none", in |-> stdout, out |-> stdout, st |-> "done"]
    /\ before = files
    /\ src = DB(0, <<>>) /\ new = DB(0, <<>>)
    /\ i = 0 /\ drift = 0 /\ runs = 0

Export == Path \cup {stdout}

OneStepTool ==
    \E p \in Path :
       \/ \E cap \in Caps : newdb(p, cap) \/ dbresize(p, cap)
       \/ \E k \in Keys, v \in Vals, x \in Export : dbput(p, k, v, x)
       \/ \E k \in Keys : dbdel(p, k)
       \/ \E id \in 0 .. Max(Caps) : dbdel_by_id(p, id)
       \/ \E x \in Export : dbget(p, x) \/ dblskeys(p, x) \/ dbdmp(p, x) \/ dbdmpkv(p, x)

ToolStep == CompactEntry \/ CompactDone \/ LoadLine \/ LoadDone

Next ==
    \/ OneStepTool
    \/ \E p, q \in Path :
          \/ dbcompact(p, q) \/ dbcompact_uncreated(p, q)
          \/ \E cap \in Caps : mkdb(p, q, cap)
    \/ ToolStep
    \/ LoadFaults
    \/ Kill

Spec == Init /\ [][Next]_vars

-----------------------------------------------------------------------------
(* Correctness. *)

Done(t) == run.tool = t /\ run.st = "done" /\ run.in # run.out

(* Compaction into another file keeps the dictionary, the order and the      *)
(* capacity, leaves no deleted entry, and does not touch what it reads        *)
(* (dbcompact.c 36-58).  Into the same file it keeps nothing of this.         *)
CompactKeepsDictionary ==
    Done("dbcompact") =>
       LET old == before[run.in]
           cpy == files[run.out]
       IN  /\ files[run.in] = old
           /\ cpy.kind = "db" /\ cpy.cap = old.cap
           /\ Dict(cpy) = Dict(old)
           /\ LiveIDs(cpy) = DOMAIN cpy.entries
           /\ \A m, n \in LiveIDs(old) : m < n =>
                 \E x, y \in LiveIDs(cpy) :
                    /\ x < y
                    /\ cpy.entries[x].key = old.entries[m].key
                    /\ cpy.entries[y].key = old.entries[n].key

\* A line as the document of mkdb has it: stripped, neither blank nor a comment.
Stated(piece)   == Stripped(Cut(piece))
Assigns(piece)  == Stated(piece) # <<>> /\ Stated(piece)[1] # Hash
KeyField(piece) == RowOf(Cut(piece), 2)[1]
ValField(piece) == RowOf(Cut(piece), 2)[2]

\* An assignment that the engine does not refuse for its key.
Fits(piece) == Assigns(piece) /\ Len(KeyField(piece)) <= MAX_KEY_SIZE

(* What mkdb loads: of the lines "key=value" whose key is not too long, as    *)
(* many as the capacity admits, the last one of a key counts; what stands     *)
(* behind a second '=' is left out (mkdb.c 38-67, kvdb.c 271-279).            *)
FittingLines(lines, cap) ==
    {n \in DOMAIN lines : /\ Fits(lines[n])
                          /\ Cardinality({m \in 1 .. n : Fits(lines[m])}) <= cap}

LoadIsLastAssignment ==
    Done("mkdb") =>
       LET lines == before[run.in].lines
           out   == files[run.out]
           fit   == FittingLines(lines, out.cap)
       IN  Dict(out) = [k \in {KeyField(lines[n]) : n \in fit} |->
                          ValField(lines[Max({n \in fit : KeyField(lines[n]) = k})])]

(* mkdb faults only on a text with leading whitespace or blank lines enough to *)
(* move its buffer too far, with a third '=' in a line, or with a key that was *)
(* assigned twice before another line (mkdb.c 39-53, txt_tok.c 27-32, kvdb.c   *)
(* 24-29).                                                                     *)
LoadFaultsOnlyOn ==
    run.tool = "mkdb" /\ run.st = "dead" =>
       LET lines   == before[run.in].lines
           strings == [n \in DOMAIN lines |-> Cut(lines[n])]
       IN  \/ \E n \in DOMAIN lines : Assigns(lines[n]) /\ FieldCnt(Stated(lines[n])) > 3
           \/ \E n \in DOMAIN lines : MovedUpTo(strings)[n - 1] + Len(lines[n]) >= BUFFER_SIZE
           \/ \E l, m, n \in DOMAIN lines :
                 /\ l < m /\ m < n /\ Fits(lines[l]) /\ Fits(lines[m]) /\ Fits(lines[n])
                 /\ KeyField(lines[l]) = KeyField(lines[m])

(* A database that mkdb wrote can be opened, unless a line begins with '='    *)
(* (mkdb.c 45-64, kvdb.c 122-128).                                            *)
LoadedDatabaseOpens ==
    Done("mkdb") /\ ~Opens(run.out) =>
       LET lines == before[run.in].lines
       IN  \E n \in DOMAIN lines : Stated(lines[n]) # <<>> /\ Stated(lines[n])[1] = Delim

(* Dumping a database with dbdmpkv and loading the text with mkdb gives its    *)
(* dictionary back, if no key or value has a '=', a newline or a nul, no key   *)
(* begins with whitespace or looks like a comment, no value ends in whitespace *)
(* and every line fits the buffer (dbdmpkv.c 35-50 against mkdb.c 38-67): what *)
(* fgets, lstrip, rstrip and the tokenizer do in between loses the rest.       *)
Plain(e) ==
    LET chars == e.key \o e.val
    IN  /\ \A n \in DOMAIN chars : chars[n] \notin {Delim, nl, nul}
        /\ e.key # <<>> => Head(e.key) \notin Space \cup {Hash}
        /\ e.val # <<>> => Last(e.val) \notin Space
        /\ Len(chars) + 2 < BUFFER_SIZE

DumpLoadRoundTrip ==
    Done("mkdb") =>
       \A p \in Path :
          /\ Opens(p) /\ \A n \in LiveIDs(files[p]) : Plain(files[p].entries[n])
          /\ before[run.in] = Text(Dump(files[p]))
          /\ Cardinality(LiveIDs(files[p])) <= files[run.out].cap
          => Dict(files[run.out]) = Dict(files[p])
=============================================================================
