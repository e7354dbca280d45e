# Verification of bsym

bsym maintains RDF data about Bloomberg's open symbology (FIGI).  Besides the
data (Turtle files) the repository holds three C programs, a row of awk
scripts that turn listings into Turtle, and SPARQL queries that look for
contradictions in the result.  This directory holds TLA+ modules of the
programs, TLC configurations that check them, and TLAPS proofs.

## 1. Inventory

| Component | State | Operations | Interacts with |
|---|---|---|---|
| `src/nquads-explode.c`: cache of open files | the static table `last`, `when`, `fp` and `tick` in `explode`; `prfx`/`prfz`; the buffers of the stdio streams; the files | lookup, eviction, opening, failing `fopen`, writing, end of an input, next input | reads N-Quads files, appends to one file per graph |
| `src/nquads-explode.c`: file names | offsets of the scan | `snarf_graph`, `mkfn`, `mtrcpy` | used by the cache |
| `src/bsym-isin-scrape.c`: chunk collector | `st`, static in `recv_cb`; `ctx->buf`, `bix`, `bsz` | `recv_cb` for every chunk of every response | called back by libcurl; fills the buffer `print1` parses |
| `src/bsym-isin-scrape.c`: paging client | `iitem`, `nitem`, `bid`, the arguments | `main`, `repl`, `fetch1`, `print1`, `get_sess` | the web service; jsmn; its output is what `ttlify-isin-scrape.awk` reads |
| `src/jsmn.c` | the tokens, `pos`, `toknext`, `toksuper` | `jsmn_parse` | parses the buffer for `print1` |
| `src/meld-cfi.c` | the bytes of the melded code | column by column, the first that is not `X` wins | a filter over tab-separated lines |
| `scripts/statementify.awk` | subject and predicate of the line before, the line held back | one step per line, `END` | folds sorted triples into Turtle statements |
| `scripts/ttlify-*.awk`, `ttlify.awk` | date of the current file (`boff`), parents of the current row (`gics-xls`); else tables | one rule per record | listings in, Turtle out; for GICS the makefile runs one per language and merges them by `sort`, `uniq`, `sed` and `statementify.awk` |
| `sql/*.sql` | none; the triples | inference (`infer-*`, `transclo-*`), consistency (`inconsistent-*`), extraction | the triples the scripts make |
| `scripts/*.sh`, `*.R`, `*.sed`, `*.xsl`, `Makefile` | none | pipelines of the above | |
| `build-aux/yuck.c`: line reader | the static variables of `usagep`, `optionp`, `interp`, `snarf_ln` | one line after the other, `yield_*`, the end of a file | reads `.yuck` files, prints calls of the macros of `yuck.m4` |
| `build-aux/yuck-coru.c.m4`, `yuck.m4`: generated parser | `argv`, `i`, `op`, the fields of `yuck_t` | `yuck_parse` with a coroutine for arguments, long and short options | made of what the line reader prints; called first by `main` of the three programs |
| `build-aux/yuck.c`: gen, genman, gendsl | the intermediary file, the list of includes, the pipe, the exit code | read the inputs, copy includes, run m4 once or twice, copy its output, remove what is temporary | m4 is a child process; the line reader writes what it reads |
| `build-aux/` (the rest of yuck) | two static flags of the man page formatter | formats man pages; version files, which are not built here | |
| `*.ttl`, `snippets/` | data | | |

What is hard about each of them:

* **Cache of open files.**  Whether a line goes where it should depends on the
  whole history of hits, evictions and failures.  One `memset` clears four rows
  instead of one; rows are not terminated and are compared up to the length of
  the name looked for; streams buffer what they are given, so that a file
  opened twice is written to out of order; the table outlives an input.
  Correct means: no stream is misused or forgotten, no line is lost, doubled or
  filed under another name, and, as long as nothing fails, the files look as if
  each line had simply been appended.
* **File names.**  Backward scans, `j += j || ...`, and truncation, with
  off-by-ones to be made at each end.  Correct means: in bounds, the last
  `<...>` of the line, a plain file name.
* **Chunk collector.**  libcurl cuts a response where the network does, and one
  static state and one buffer serve all responses, also those that fail
  halfway.  Correct means: what is parsed is the answer that was asked for.
* **Paging client.**  The number of rows printed decides which page comes next,
  the pages decide when to stop.  Correct means: every row once, in order,
  behind its own ISIN, to the end.
* **jsmn.**  A token's parent is whatever was allocated last when a colon came,
  the brace that closes an object climbs from parent to parent, and a comma may
  read in front of the array.  Correct means: braces match as by a stack, sizes
  are the numbers of children `print1` steps over, and the parser returns.
* **ttlify-boff.awk and the queries.**  The script is sequential, but the store
  it fills is read and rewritten by queries between and after its files, next
  to what other sources state.  Correct means: links and dates add up over all
  files, what is moved is not lost, no contradiction disappears because one half
  of it was moved first, and a query that closes gaps agrees with the one that
  reports them.
* **yuck's line reader.**  Four functions are asked in turn whose a line is, and
  each keeps in static variables what it has not printed; one that prints too
  late or forgets to start over gives a description to the wrong option, or an
  option to the wrong command.  Correct means: the calls printed are the
  document as it is laid out.
* **The generated parser.**  Coroutines that jump into each other move `i` and
  `op` by hand, and positional arguments are packed into the front of the same
  array.  Correct means: every argument is used once, what is passed on keeps
  its order, and options are looked up at the command that was named.
* **yuck gen.**  Parent and child share a pipe of limited size, any call may
  fail and m4 may die at any point, and what is temporary goes by a list that
  held names of the user before.  Correct means: success is whole outputs,
  nothing is left behind, and nobody waits for ever.
* **meld-cfi, the GICS pipeline.**  Sequential; their hazards are stale state
  from one line or row to the next: a buffer that is used again, parents and
  definitions that belong to a row above, statements that lean on the line
  before.  Correct means: a class is below all that are melded and says no more
  than they do, every GICS class has one parent and its own definition, and the
  statements read back as the triples.

The only concurrency inside these programs is that of yuck and m4.  Otherwise
the environment is what acts next to them: the file system, the network and the
service, and whoever else writes to the store.

## 2. Modules

| Module | Models | Correspondence |
|---|---|---|
| `GraphNames` | `snarf_graph`, `mtrcpy`, `mkfn` as operators on sequences of characters | `SnarfGraph(line)` is the slice returned, `Truncate` the cut to `MAX_GN` bytes, `Mkfn` the file name without the prefix |
| `NameScan` | the same functions, loop by loop | one action per round of a loop; `ep`, `fp`, `i`, `j`, `tgt` are the variables of the code; offsets count from 0 as there |
| `NquadsExplode` | `explode` and `main` | `tick`, `last`, `when`, `fp` are the code's; `buf` and `disk` are stdio and the file system; `lines`, `reported` are history |
| `ExplodeSpec` | what `explode` promises | one sequence of lines per file, a line is appended at once |
| `ExplodePromise` | how `NquadsExplode` keeps it | `File` is what has reached a file, followed by what the stream open on it holds back |
| `Body` | what the service sends | symbols: parts of an answer, beacons, noise |
| `RecvCb` | `recv_cb` | a body is a sequence of symbols; each beacon is two symbols, so a chunk boundary can go through it |
| `Print1` | `print1`, and what `jsmn_parse` makes of a buffer | `Valid` is the parser's verdict, `Tokens` the tokens, `Rounds` the loop over the rows, `Rows` and `Size` what comes of it |
| `Scrape` | `main`, `repl`, `fetch1`, `print1` | extends `RecvCb`; `Answer` is the service; `Fetch`, `Chunk`, `TransferEnds`, `PrintPage` follow `repl`'s loop |
| `Jsmn` | `jsmn_parse`, loop by loop | one action per round of a loop; `pos`, `toksuper`, `count` are the code's, `toks` the tokens allocated; tokens count from 1, 0 is the -1 of the code |
| `Brackets` | what a tokenizer makes of braces | a stack of what is open, each with its type and a number, and the brace being matched |
| `Store` | the triples about FIGIs and their provenance | one variable per predicate |
| `Queries` | ten queries of `sql/` | one set of rows per query, under its name |
| `TtlifyBoff` | the rules of `ttlify-boff.awk` for `TIMESTARTED=` and for records | `TimeStarted`, `Came` and `Gone` are the rules; `date` is the awk variable, `since` and `till` the dates printed |
| `Symbology` | the store over time | extends `Queries` and `TtlifyBoff`; `MoveIssuer`, `MoveGics`, `HandDownCfi` apply a row of a `transclo-` query |
| `YuckDocument` | how a `.yuck` file is meant to be read | usage lines, options, paragraphs, and the lines that describe them |
| `YuckReader` | `usagep`, `optionp`, `interp`, `setoptp`, `snarf_ln`, `snarf_f` | one operator per function, which gives whether the line is its own and the static variables behind it |
| `YuckParse` | `yuck_parse` as the macros generate it | `i`, `op`, `cmd`, `args` are the code's; one action per way through the loop |
| `YuckGen` | `main`, `cmd_gen`, `cmd_genman`, `cmd_gendsl`, `wr_intermediary`, `run_m4`, `unmassage_fd`, and m4 | `Parent` is yuck, one action per call that may fail; `Child` is m4; `incs` is `include_args` |
| `MeldCfi` | `meld_them` | `line` is getline's buffer; `Columns`, `Melded`, `Printed` are the loops over a line |
| `Statementify` | both rules of `statementify.awk` | `subj`, `pred`, `held` are `s`, `p`, `x` |
| `Gics` | `ttlify-gics-xls.awk` and the makefile's rule for `gics.owl.ttl` | extends `Statementify`; `Row` is the script's rules, `last` its `l1` to `l7`; `Sort` and `Sed` the pipeline |
| `NquadsExplodeProofs`, `NameScanProofs`, `ScrapeProofs`, `JsmnProofs`, `SymbologyProofs`, `FilterProofs`, `YuckGenProofs`, `YuckParseProofs` | proofs about the module of the name; `FilterProofs` about `MeldCfi`, `Statementify`, `Gics` and `YuckReader` | |
| `MC*` | instances for TLC | |

`NquadsExplode` extends `GraphNames`, `Scrape` extends `RecvCb` and
`Print1`, and both extend `Body`;
`ExplodePromise` instantiates `ExplodeSpec` with the files of `NquadsExplode`,
`Jsmn` instantiates `Brackets` with its open tokens, `MCJsmn` `Print1`; `YuckReader`
instantiates `YuckDocument` with what has been printed and what is still held;
`MCFilters` puts `MeldCfi`, `Gics` and `YuckReader` next to each other, one of
which runs.

In the modules some definitions are preceded by one marked "Variant of": a
slip that could be made in the code, used by nothing, kept to test that the
properties would notice it.

**NquadsExplode.**  A line of the input is its graph label, or `NoLabel`.  For
each line one of `NoGraph` (error message), `Hit(l, w)` (the row of slot `w`
matches), `MissOpen(l, w)` (slot `w` is evicted and `fopen` succeeds) or
`MissFail(l, w)` (it fails) happens; each is the whole body of the loop in
`explode`.  `fwrite` puts the two halves of a line into the buffer of the
stream and lets any number of pieces through to the file.  At the end of the
input `EndOfInput`, `CloseSlot` (one per slot) and `Reset` follow.  `main`
opens the next input (`OpenInput`, which may be refused) or ends (`Exit`).
`memset(last[which], 0, countof(prfx))` is `Cleared(w)`, `ClearRows` rows from
`w` on.  Beyond the table, up to 768 bytes, it hits what the build has laid
there, which `Spill` lists, as sets of `prefix` (`prfz` and `prfx`), `tick` and
`when`: gcc puts `prfz` and `prfx` behind `last` when it optimises, as the
makefile tells it to, with `tick` in front; without, the order is that of the
declarations, `tick` and `when` or `when` alone; `{"tick", "prefix"}` is their
reverse, `{}` padding or something else.  The layout is chosen anew for every
failing `fopen`, which is more than any build does.  Where `when` is hit its
first slots are zeroed, `k` of them, and their streams are forgotten open: they
are overwritten later, or at the end of the input, and are then `adrift`, until
`Flush`, the C library's part of exit, writes them out.  `ExplodeSpec` is void
from the first `fopen` that fails, since its damage is what `ExplodeReopen`
shows; a line is reported in it only when it has no graph.

**Jsmn.**  The build is not strict, keeps parents, and hands over an array.
Where the code reads `tokens[-1]`, at a comma on the top level, it finds bytes
of the buffer of `print_data`, which are zero: a primitive whose parent is the
first token.  Another layout may put an object there, which leaves `toksuper`
alone; `Comma` allows both.  A text may be any: `recv_cb` starts at a brace only
when the chunk with the beacon has one.  Hence a comma may come before there is
a token, and makes the first one, when it comes, its own parent and child; a
second comma in front reads that token's place as the parse before has left it.
A brace that closes nothing then has the parser climb from the first token to
itself for ever (`Endless`), which `Returns` and the theorems name as the one
text they do not hold for.

**Scrape.**  The service knows `Total[t]` rows for ISIN `t` and answers with at
most `LIMIT` of them.  A reply is a page, a refusal, a page that breaks off, or
an error page without beacons (`Replies`).  The chunks are cut at any place, or
(`AnyCut` false) at any but inside of a beacon, right behind one, or in what
stands between the opening beacon and the brace, a word and a comma.  A cut there
matters: the beacon is found, but the next chunk is copied from its start, so
that the word and the comma stand in front of the answer.  jsmn is represented by
what it finds (`Print1`): the objects open behind each symbol, where a closing
brace too many is overlooked and a wrong one is not, and the tokens with their
sizes, over which `Rounds` goes as `print1` does; a buffer with more than
`MaxTokens` of them is invalid.  A buffer without tokens passes, and `print1`
looks at those the parse before has left in its static array (`PrintNothing`);
one that begins with a comma may keep the parser for ever (`PrintNever`).  After failures a buffer may
hold an answer inside of another; `print_data` then prints a line that is no
row, `<<t, 0>>`.  A `)` cut from its `;` counts as a word of its own.  `fresh`
is history: `recv_cb` was waiting for a beacon when the request was sent, and
no chunk of the answer has ended at one of the places above; `calm` says the
same of all answers so far, and that none was an error page or broke off.

**Symbology.**  `NextFile` and `Record` are `ttlify-boff.sh` at work: files in
the order of their dates, each saying one thing of a FIGI.  `TellIssuer`,
`TellCode` and `Invalidate` are other sources.  The repository does not hold
the statements that apply the rows of the `transclo-` queries; the model does
what the comments in them and their names say: a CFI is handed down (added), an
issuer is moved to all share classes the rows name, a GICS code is moved to the
issuer together with the records that still hold ("along with provenance data
for insertion and deletion").  A row is applied at once, rows in any order, and
everything else may happen in between.  `Elsewhere` are records about facts
outside of the model, some of which are invalidated from the start.  `told`,
`last` and `seen` are history.  `?prov` is free in
`FILTER NOT EXISTS { ?prov prov:wasInvalidatedBy ?inv }` when the `OPTIONAL`
found no record, which is what `Checked` says.

**YuckReader.**  The static variables of the four functions are one record,
`rd`, and the calls printed for a line go to `calls` with it.  A line is its kind
(listed in `YuckDocument`) and its number.  How the code takes a line apart is
left out, and with it lines that are taken for something else than they look
like: an indented paragraph whose first word has two letters, a command named
by a beginning of "command", a second umbrella.  An option that has a short
name and nothing else keeps the text of the option above it, as the code does,
which `Written` keeps out of the files of the run.  With `Careful` only files are
read that are written like those of the repository (`Written`); the exceptions
are listed in section 3.  `Held` is what would be printed next, so that
`ReadsDocument` is about every point of a file and not only its end,
where nothing may be held any more.

**YuckParse.**  An argument is a sequence of characters, since clusters of short
options, `=` and `-5` are told by them.  A value is the place it comes from: the
argument and whether it is the rest of it or all of it.  `use` is history.  An
action is a round of the loop: `Word`, `Dashdash`, `Long`, `Cluster` and then
`Short` or `Unknown` for each character, and `Rest` when `max_posargs` is
reached or the arguments end.  Options have a long name, as all in the
repository do.  `cmd` is the name of the command, not its position: with unknown
options allowed the rest of a cluster, `c` of `-xc`, may name it.  No short
option is `-`: `yuck.c:577` takes characters from `0` on.

**YuckGen.**  Where a call may fail an action has a disjunct for it, or there is
an action of its own: `ReadFails` is a failed `read` of the pipe, after which
the parent waits with the pipe open, and `WaitFails` a `waitpid` that fails
since the system has reaped m4, as it does when SIGCHLD is ignored (`reaps`); the
code calls it again for ever, so the action changes nothing.  `rc` is
the exit code on its way to `main`; the files are names; the intermediary is
what it was made of (`defs`), m4's text a sequence of bytes, `STX` and the like
those that stand for brackets.  `M4Write` puts a byte into the pipe or, when
yuck is gone, is stopped by the signal; `EndOfPipe` needs that nobody can write
any more, the parent included.  A failed read of an input and a failed write of
the output, which the code does not report, are marked by `lost`; `undone` that
the -1 of `wr_man_date` (`yuck.c:1835`) has cancelled the 1 of a failed input.

**MeldCfi.**  `Getline` writes a line over the buffer and a NUL behind it, so
that what is further behind remains.  A buffer keeps its size: the code's is
made longer for a longer line, which keeps its contents.

**Gics, Statementify.**  A row has a code and a name in each of four levels, or
a blank.  `Row` runs the script's rules in their order, level by level; `Sort`
is `sort | uniq` over what all languages have printed, and `Statement` gives
the lines one by one, in that order, to `Triple` of `Statementify`.  A triple
of names and definitions carries its language until `Sed` moves it behind the
object.

## 3. What the runs show

| Run | Question | Result |
|---|---|---|
| `Explode` | What holds whatever `fopen` fails, with eviction, buffering, two inputs, names of which one goes on where the other ends, cut names, and five layouts behind the table?  And does every line reach its file? | no stream is used that is not open, and unless `when` has been hit none is forgotten open (`Streams`, `AtRest`); no line is misfiled, lost or written twice (`NoMisfile`, `Accounted`); unless `tick` has been hit ticks stay distinct and none is later than `tick` (`TicksDistinct`); as long as no `fopen` has failed the cache implements `ExplodeSpec` (`ImplementsPromise`), and every line that is not reported gets to the disk (`ReachesDisk`) |
| `ExplodeReopen` | Is a file open in one slot only? | No: after a failed `fopen` rows whose streams are open are cleared, and the file is opened again (`nquads-explode.c:194`) |
| `NameScan` | Do the loops compute what `GraphNames` says, in bounds? | `ScanAgrees`, `NameAgrees`, `NameIsPlain` hold, and an IRI that is a graph label is found, cut to a row if need be (`GraphFound`) |
| `Jsmn` | Does the tokenizer match braces, count children, stay in its array and return, and does it find what `Print1` goes by? | `MatchesBrackets`, `SizesCount`, `FindsTokens` hold for all texts, `Returns` for all but those with a comma in front and a closing brace too many behind |
| `Scrape` | What is right whatever the network and the service do, wherever chunks are cut, and does paging end? | if `recv_cb` waits for a beacon and no chunk of the answer ends in a beacon or between the opening one and the brace, that answer is assembled and printed (`Assembled`, `PrintsAnswer`); while no chunk does and all answers have beacons, rows are printed once, in order, success means all of them (`InOrderOnce`, `Complete`), and no more pages are asked for than there are (`Terminates`) |
| `ScrapeFits` | Is one doubling of the buffer enough? | No: a chunk may be four times as long as the buffer is at first, which is doubled once and written to all the same (`bsym-isin-scrape.c:155`) |
| `ScrapeStale` | Is a row printed behind its own ISIN? | No: when no beacon is found, in an error page or because a chunk boundary cuts it (`bsym-isin-scrape.c:116`), the buffer of the answer before is parsed again (`:121`) |
| `ScrapeAssert` | Does `assert(ep >= sp)` hold? | No: `);` in the first row of a chunk is taken for the end (`:146`) |
| `Symbology` | Do the files, the closing queries and the checking queries agree, in any order of listings, facts, invalidations and moves? | links go up by levels (`LevelsOK`), dates tell the last word (`LastWord`), no issuer and no conflict of issuers is lost (`IssuersKept`, `ConflictsFound`), and nothing is reported that the closing queries would have settled (`CfiSettled`, `GicsSettled`) |
| `Filters` | Do the programs that read lines keep their state from line to line in order? | what `meld-cfi` prints is the meet of a line's classes (`MeldIsMeet`) and independent of other lines (`OwnLine`); GICS classes get one parent and their own definitions (`Hierarchy`), in statements that read back as the triples (`ReadsBack`) and name a subject once (`OneStatement`); a `.yuck` file written like those of the repository is read as it is laid out (`ReadsDocument`) |
| `YuckParse` | Are arguments, values and commands told apart in every call? | every argument is used once and in order (`UsedOnce`), options are not overlooked (`OptionsSeen`) and are those of the command (`CommandFirst`), and the parser returns (`Returns`) |
| `YuckGen` | What is left of a call of yuck, whatever fails and whenever m4 dies? | success means whole outputs of all inputs (`ExitTells`), nothing temporary stays behind that could be removed (`NoLitter`), and both processes end but for two ways to hang, a failed read with a full pipe and a `waitpid` that fails (`Ends`) |

Further observations that follow from the same models, without a run of their
own: when `fopen` fails for one of the last three slots, the `memset` of line
194 runs past `last` and, with the layout of gcc -O3, clears the prefix for the
rest of the run; where `when` lies there streams are forgotten open, where `tick`
does slots filled later look older; the cache evicts what was opened first and not what was used longest
ago, as its comments say (`:150`, `:202`), since a hit does not renew `when`
(`:173`);
labels that differ only behind the 256th byte or in characters `mtrcpy` maps
share a file; a line without a graph label is filed under the last IRI in it;
a transfer that breaks off behind the opening beacon leaves `st` at `ST_TRX`,
so that the next answer is overlooked, and `repl` may then go round for ever
with a buffer that has no rows (which is why `Terminates` stops at such
failures); a chunk that ends behind the beacon, in front of the brace, has the
text there stand in front of the answer, which is then invalid or, if that
text is a comma, followed by a brace that closes nothing, keeps
`jsmn_parse` going round; and when a cut
name ends in its first colon, the size of the copy at `nquads-explode.c:134`
is -1, which `NameScan` keeps away from by its labels.

About the queries: since `?prov` may be free, a single invalidated record
anywhere silences all facts without a record, in the closing and the checking
queries alike (so that they still agree).  Moving the GICS codes of two issues
that disagree leaves the issuer with both, which neither
`inconsistent-gics_02` nor `_04` report: "just reclassifications".
`ConflictsFound` needs its condition: a listing under two composites of two
share classes, which `inconsistent-composite` reports, may have its issuer
moved to one share class and be known to the other.
`symbology.owl.ttl:110` defines `componentOf` as relating an identifier to its
composite; the script uses it for the share class of a composite, too, and
`transclo-issr.sql` relies on that.

About yuck, what `Written` and `ParserAssumption` leave out: an option with a
short name and nothing else returns at `yuck.c:591`, before `desc->n = 0`, and
is given the description of the option above it; `:576` does not look whether
there is a dash, so that an indented line which starts with a word of two
letters may become an option; text that `setopt` follows without a blank line
in between is printed behind it; a second umbrella does not end the command
above it, whose options it then extends; and of a cluster `-fx` with an unknown
`x` the option `-f` is taken and `-fx` passed on as well when unknown options
are allowed, which is the exception in `UsedOnce`.  `-5` is passed on by a
command that has no option 5, even if other commands have options that are
numerals, contrary to the comment at `yuck-coru.c.m4:303`.

About `yuck gen`: a failed read of the pipe (`yuck.c:1278`) ends the copying and
leads to `waitpid` with the reading end open, while m4 may wait for room in the
pipe; `waitpid` itself is called until it returns the child (`:1403`), which it
never does when SIGCHLD was ignored by whoever started yuck; and `rc +=
wr_man_date()` (`:1835`) may turn the 1 of an input that could not be opened into
0, whereupon m4 is run contrary to "only proceed if there has been no error yet"
(`:1855`).

### Bounds

* `NMRU` 2, two or three names: every miss after the second evicts, and every
  slot is hit, evicted, failed and cleared.  `ClearRows` is 2 where failures
  happen: like the code's 4 of 256, more than one row and, at the second slot,
  more than the table has.  The code's `when` has 2048 bytes of which 768 at most
  are hit; here any number of its slots is, all of them included.
* `MaxLines` 4 over `MaxInputs` 2: fill both slots, evict, and come back, and
  the same across the end of an input.  `MaxFails` 2: the slot that failed
  fails again.  `MAX_GN` 5: names that fit, touch and exceed a row.
* `NameScan`: all combinations of four objects and ten graph labels, with and
  without subject and predicate, and four lines that are no quads; `MAX_GN` 8.
* `Jsmn`: all texts of up to four characters, alone, behind a brace, and behind a
  comma, over the eight characters the parser tells apart (enough for a key, its
  value and two braces in any order); strings with every kind of escape, whole, wrong and cut;
  control characters; and all buffers of up to four symbols of `Scrape`, the empty
  one and those that start with noise, a comma or an end included, in both orders
  of `size` and `data`.  `NumTokens` is 9, so that the longer
  buffers run out of tokens.
* `LIMIT` 2 with answers of 3, 1 and 0 rows: two pages, one page, an empty
  page.  `InitialSize` is 3, so that the buffer is doubled.  `MaxChunk` is 12
  in `Scrape`, more than any answer has symbols; in `ScrapeFits` it is 4
  against an `InitialSize` of 1, as 16384 bytes, the most libcurl hands over, are
  against 4096.  `MaxTokens` 20 stands for the 2048 of the code: one
  answer always fits, what is left of one with another behind it may not.
  `MaxRequests` 4 is as many as there are pages, which is all a calm client asks
  for, refused or not; it bounds the livelock described above, which only one
  that is not calm gets into.
* `Symbology`: one share class, two composites (one of them also listed without
  its share class), two listings, one of which changes its composite and one of
  which goes; all orders of two files and three records, which make chains of
  two links and two parents; two issuers told of at listings and share class,
  two CFIs and two sub-industries at issues and issuer, with and without a
  record, which is invalidated or not.  `MaxCodes` counts codes and
  invalidations together.
* `Filters`: for `meld-cfi` classes of three letters, one of them the category
  (ten bytes and six in the code), three lines of up to three columns, whole,
  cut, too long and empty, in any order; so a short line follows a longer one
  whose columns are still behind it.  For GICS two languages, each with a
  table of up to four rows, two sectors, levels that are listed in the same
  row or rows before, names that are missing, and definitions behind any row.
  For yuck all files of up to five lines of the eleven kinds, in one or several
  files: enough for a usage line, an option with its description on two lines,
  and a line that ends it, in any order.
* `YuckGen`: a pipe of two bytes and reads of up to two, while m4 writes three
  or four, so that it has to wait; five calls, which are code, header and code,
  man pages with two includes, and with one to be kept, and the intermediary
  alone.
* `YuckParse`: all calls of up to four arguments of sixteen shapes: words, the
  command, a dash, a dashdash, clusters with and without values, numbers, long
  options with and without values; for four parsers: without commands, without
  commands with one positional argument and unknown options allowed, and with a
  command, with and without.

### Fairness

`Explode` assumes weak fairness of what `main` and `explode` do without
further input (`EndOfInput`, `CloseSlot`, `Reset`, `OpenInput`, `Exit`, `Flush`): a
single thread goes on, and inputs are finite files.  Reading a further line is
not fair.  `Jsmn` assumes weak fairness of `Parse`, one function that nothing
waits for, and `YuckParse` of `Step` for the same reason.  `Scrape` assumes
weak fairness of the program's step, in which a request is answered or fails in
the end, as libcurl reports one or the other; it is written `[]<>Stopped \/
[]<><<TRUE>>_vars`, which is the same, since a step is possible unless the program
has stopped, and always changes something.  `YuckGen` assumes it of `Parent`
and of `Child`, two processes of a system that schedules both; that m4 or
a read of the pipe fails (`M4Fails`, `ReadFails`) is not fair.

## 4. What is proved

`NquadsExplodeProofs` holds for every number of slots, every span of the
`memset`, every layout that puts `prfz` and `prfx`, `tick`, slots of `when` or
nothing behind `last`, every set of labels, and all bounds.  What depends on
`when` or `tick` being as the code has left them says so (`WhenKept`, `TickKept`).  It uses the
assumptions `LabelAssumption`, `CacheAssumption`, `BoundAssumption` and
`SchemeAssumption` of `NquadsExplode` and that of `GraphNames` on `MAX_GN`,
which TLC evaluates too.  `SchemeAssumption` says that there is a byte behind
the first colon of a name: a row that is full when the scheme ends would make
`ep - fp` at `nquads-explode.c:134` negative.

* `TypeCorrect`: `Spec => []TypeOK`.
* `StreamsSound`: `Spec => []Streams`.  No stream is written to or closed that
  is not open, although the failing `fopen` clears rows that belong to other
  slots; with `WhenKept` none is forgotten open.
* `NothingLeftOpen`: `Spec => []AtRest`.  With `WhenKept` nothing is open between
  inputs; after exit nothing is held back anyway.
* `NothingMisfiled`: `Spec => []NoMisfile`.
* `TicksDiffer`: `Spec => []TicksDistinct`: with `TickKept` slots in use differ in
  their ticks, and none is later than `tick`.

Only the last is inductive next to `IInv`, the invariant the others are drawn from,
which `Inductive` proves.  The idea of it is that the damage of line 194 is one-sided: a row
may lose the name of the stream it stands for, but a row that still matches a
name matches only names that make the file its stream is open on.  The rest
follows from what `Match` means on rows that are overwritten by shorter names
(the lemmas on `Match`, `Overwrite` and `Cleared`): since a closing bracket
occurs only at the end of a label, a name found in a row is the name that was
written last, or both are cut to the same `MAX_GN` bytes.  While slots are
being closed the invariant tells the slots before `cl` from those behind it.

Under the same assumptions it adds

* `NothingLost`: `Spec => []Accounted`.  The invariant is that a piece is at one
  place at most (`Single`: one file or one buffer, that of a stream adrift included, once) and that the pieces of
  lines taken up are somewhere (`Settled`).  The two halves of a new line are
  fresh, and flushing, closing and evicting only move what is in a buffer to
  the end of the file that `IInv` says it belongs to.

and the refinement (the safety part is all of it):

* `Implements`: `OneName => (Spec => ImplementsPromise)`.  `OneName` says that no
  two graph names make one file name, which holds in the instances and which
  the code takes for granted; otherwise two streams would be open on one file.
  The invariant `Faithful` is what the failing `fopen` breaks: while there has
  been none, an open stream is found by the name of its file, so that a miss
  never opens a file that is open already.  Hence `File` is well defined,
  `fclose` does not change it (`FcloseSame`) and `fwrite` appends a line to it
  wherever the buffer is cut (`FwriteAppends`).
* `OneStream`: `OneName => (Spec => [](fails = 0 => OneStreamPerFile))`, from the
  same invariant.  The run `ExplodeReopen` shows what one failed `fopen` does
  to `OneStreamPerFile`; this is its other half, that nothing else does it.

What a run comes to in the end is the liveness property `ReachesDisk`, but all
that it rests on apart from fairness is proved:

* `LineFindsSlot`: every label is found in one slot, or in none and there is one
  victim, whatever has been cleared; with `WhenKept`, if the victim is open all
  slots are, and with `TickKept` too it was opened first.
* `RunEnds`: `Spec => [][Proceeds]_vars`, each step takes an input, leaves a loop
  for good, reads a line, closes a slot or writes out a stream left open.
* `AllWritten`: at the end, and with `WhenKept` between inputs, every line without an error message
  is in the file of its graph.

`NameScanProofs` holds for all lines and rows of any length, under
`QuadAssumption` (a graph label that starts with a bracket is an IRI, ends with
the only other one and has none behind it in its line) and `SchemeAssumption`.

* `ScansAgree`, `NamesAgree`, `NamesArePlain`, `GraphsFound`: `Spec => []P` of
  `ScanAgrees`, `NameAgrees`, `NameIsPlain`, `GraphFound`.  They are drawn from
  one invariant: `Scans` says that no `>` is behind `ep`, and no `<` between
  `fp` and it, which is what makes the places where the scans stop the last
  ones; `Copies` that the bytes kept begin with the first byte read that is no
  underscore and go on without a gap, so that trimming leaves what is between it
  and the last one.  `Mkfn` says the same by `CHOOSE`; the lemmas on `FirstAmong`
  and `LastAmong` tie the two.
* `LoopsEnd`: a round of a loop leaves fewer bytes in front of it
  (`BytesLeft`), or the next loop is run.

`ScrapeProofs` holds for all ISINs, answers, limits and ways to cut them into
chunks.

* `Typed`: `Spec => []TypeOK`.
* `RoomKept`: `Spec => [][RoomStays]_vars`, what is received fits if what was there
  did and the chunk is no longer than the buffer is by then.  `ScrapeFits` shows
  what happens otherwise; this is its other half.
* `AnswersAssembled`, `AnswersPrinted`: `Assembled` and `PrintsAnswer`.  The
  invariant `Collected` says of the `p` symbols of an answer received so far what
  must be in the buffer, and what `st` is, when the answer found `recv_cb`
  waiting; it is a case for each part of the body, from the beacon to what stands
  behind the end.  No chunk ends in front of the brace: there the buffer would
  keep the text in front of it, and no invariant of this kind holds.  What `print1` makes of a whole answer is
  then a fact about `Tokens` and `Rounds`.
* `RowsInOrder`, `AllRows`: `InOrderOnce` and `Complete`.  `Ordered` says that
  what is printed for the argument at hand are its first `iitem` rows, behind
  those of the arguments before it; `Steady` that a client which has been
  calm waits for a beacon whenever it sends a request, so that the answer it
  prints is the one it asked for; `Ordered` that `nitem` is `Total` or not known
  yet, hence a page without rows comes at the end only; `Counted` that `rcs` has
  one entry for each argument dealt with.
* `PagesEnd`: while client and service are calm, each step goes on to the next
  argument, to a later row of it, on the way of a page or in the chunks of its
  answer (`Advances`), and `iitem` stays within `Total`.  A page another one
  follows had rows (`PagesCount`), which is why no page is asked for twice.
* `OwnRows`, `AssertHolds`: what the runs `ScrapeStale` and `ScrapeAssert` refute
  holds otherwise, `RightSid` while the client is calm and `EndBehindStart`
  whatever arrives.  For the second the invariant is that every `);` in what is
  left of an answer stands behind a brace or at its start (`Ends`): then the
  rewind stays where the beacon is, which is not in front of `sp`.

All but the first two assume `Tricky = {}`: no row holds the closing beacon
`);` in one of its fields.  `ScrapeAssert` is what happens otherwise, so the
condition is the code's, and `AssertHolds` says that nothing else brings it about.  `Nesting`, `Rounds`, `RowsOf` and `FlattenSeq` are
recursive functions, and the answers may have any number of rows; `Upwards` is
the induction for them: a set of numbers which holds 0 and what follows any of its
members up to `n` holds all of them.  Being about a set instead of a predicate
it can be used with the provers at hand.

`JsmnProofs` holds for all texts and any number of tokens.  A text with a comma
in front may make its first token its own parent, which `ParentsBefore` allows
for (`Leading`: only such a text does).

* `TokensTyped`, `SizesRight`: `TypeOK` and `SizesCount`.  `IInv` adds to them
  that parents come before their children but for that token (`ParentsBefore`) and where each loop
  is when it starts a round (`Loops`).  A size is a
  cardinality, that of the tokens with this parent, and every allocation adds
  one token to it (`Allocated`), so that nothing has to be said of how tokens
  are nested.
* `ClimbDescends`: since parents come before their children, each round of the
  loop over parents ends it or goes further to the front, except at a closed first
  token that is its own parent (`Endless`).
* `MatchesAsStack`: `Spec => MatchesBrackets`, every step of the parser is one of
  `Brackets` or changes nothing of it.  `Nested` is why: a
  parent is never in front of an open token that stands in front of its child, and
  neither is the token a brace is compared with first.  So the climb cannot jump
  over what is open and meets the last one opened before any other.  At a comma
  on the top level, where `tokens[-1]` decides, nothing is open in front.
* `TokensNest`: `Spec => []Nests`, the extents of tokens lie in the text, and a
  later token ends in an earlier one or begins behind its end.  The invariant
  `Extents` also says that tokens lie in what has been read so far (`InText`,
  `Apart`), that a primitive is not empty (`Begun`) and that no token is open in
  a text that passes (`Ended`).  A brace closes the last open token, so all
  behind it are closed already: this is `Nested` again.
* `RoundsEnd`: `RoundsLeft` goes down in every round and is at most
  `(Len(js) + 1) * (NumTokens + 5)`: a byte costs a climb at most.  `Endless` is
  the exception again.

`SymbologyProofs` holds for all sets of FIGIs, issuers, codes and records, all
files, and all bounds.  It assumes what TLC checks of the instance, above all
`RecordAssumption` of `TtlifyBoff`: in the files the field for the composite
holds a composite or nothing, the field for the share class a share class or
nothing, and composites and share classes name themselves.  The script does
not check that, and prints what it is given.

* `WellTyped`, `Levelled`, `Kept`, `Dated`: `TypeOK`, `LevelsOK`, `IssuersKept`,
  `LastWord`, from the inductive invariant `IInv`, which adds to them what is
  printed with every link (`LinksTold`) and that dates grow from file to file
  (`DatesGrow`).  An issuer that has been moved stays where it is because
  nothing is above a share class, which is `LevelsOK`.
* `Found`: `Spec => []ConflictsFound`.  With one parent each (`CompositeTells`)
  what lies above a FIGI is a chain, so that two related FIGIs stay related
  when one of them is replaced by its share class (`Chain`), and two issuers at
  related FIGIs make a row (`RelatedFound`).  That the row is not lost by the
  join on `symbolOf` is `LinksTold`.
* `CfiSettles`, `GicsSettles`: `CfiSettled`, `GicsSettled`.

`Levelled` also justifies `Above` in `Queries`, which takes two steps for
`componentOf+`.

`FilterProofs` holds for all tables, lines and widths that the assumptions of
`Gics` and `MeldCfi` admit, and for all files as `Written` describes them.

* `StatementsReadBack`: `GicsSpec => []ReadsBack`.  The invariant is about the
  line held back and the two terms of the line before; that the first line is
  told by its subject is where the empty subject must not occur, which is a
  fact about the triples of the tables (`RowTypes`, `SedTypes`).
* `ClassesPlaced`: `GicsSpec => []Hierarchy`.  `last` is what was listed last in
  the rows read so far (`CodeNext`), hence what a table that is proper says is
  above a code.
* `OwnBytes`, `SameLineSameClass`: what is printed for a line of whole columns
  is a function of its bytes: the columns are exactly those in front of the
  first place without a tab, and that is the newline or the NUL behind the line
  (`ColumnsFound`), whatever the buffer held.
* `ClassIsMeet`: `MeldSpec => []MeldIsMeet`.
* `StatedOnce`: `GicsSpec => []OneStatement`.  `RankAssumption` says that `sort`
  tells different terms apart.  What has been read is in order and in front of what
  is left (`Sorted`), so lines of one subject are next to each other
  (`Together`), and the separators tell what a line has in common with the one
  before (`Separated`).
* `ReadAsLaidOut`: `Spec => ReadsDocument` for yuck's line reader, every line a
  step of `YuckDocument`, for any number of lines and files that are written with
  care.  `YuckInv` says that one thing is held at most: a usage line, an option, a
  paragraph or nothing (`InUsage`, `InOption`, `InInter`, `InBetween`), and what
  the other static variables are meanwhile.  This is what the functions `snarf_ln`
  asks in turn rely on without saying so: the one that knows its line has always
  printed what another one held (`LeftIs`, `Leaves`).  Where it would fail is what
  `Written` keeps out, and the proof uses each once: text in front of the first
  usage line (`NotYet`), `setopt` in a paragraph (`Filled`), and an option with
  just a short name behind one with a description (`Silence`).  That there is one
  umbrella it does not need.

`YuckGenProofs` holds for all calls, texts and sizes of the pipe and of reads
that satisfy the assumptions of `YuckGen`, whatever of its calls fails and whenever
m4 stops.

* `NothingLeft`: `Spec => []NoLitter`.  An include's entry is the user's name
  until it is dealt with, then that of a temporary file or nothing
  (`IncludeInv`), so that removing what is listed removes all that was made
  (`Made`) and nothing else.
* `ZeroIsWhole`: `Spec => []ExitTells`, where no read or write has failed (`lost`)
  and no date has cancelled a failed input (`undone`).  Output, chunk and pipe together are
  always the first `sent` bytes of the text (`Follow`), in each of the two
  runs; the status is 0 only when m4 has written all of it and the pipe is
  empty (`CopyInv`).  And the intermediary starts with the arguments read so far
  (`DefsInv`), all of them unless the status says otherwise.
* `NobodyStuck`: as long as the generator is there or m4 runs, one of the two can
  take a step.  While the generator copies, a pipe with bytes in it can be read,
  an empty one has room, and once m4 is gone it has an end, because the
  generator closes its own writing end before it reads (`ReaderInv`); and it
  waits only when m4 does not run any more, or a read has failed.  `Hangs` is what
  is left: m4 with no room in the pipe after such a read, and a `waitpid` that fails.
* `NobodyRunsOn`: every step leads to a later one of 17 stages, or leaves less
  to copy in its stage, except a `waitpid` that fails, which changes nothing and
  leaves nothing else to be done (`Waiting`).  With the fairness of both processes these two are what
  `Ends` rests on.

`YuckParseProofs` holds for all calls and all parsers that satisfy
`ArgumentAssumption` and `ParserAssumption` of `YuckParse`.  A step takes an
argument as a positional one, names the command, fills the slot of an option
from the argument at hand or the next one, stops, moves on in a cluster, or
passes the remaining arguments on (`StepDoes`); the invariants are shown for these.

* `UsedAndOnce`, `CommandsFirst`: `Spec => []UsedOnce` and
  `Spec => []CommandFirst`.  `IInv` extends what they say of the calls that have
  returned to the middle of a cluster, where an argument may have been used as
  an option already and is used for a word, too, only when a character is
  unknown (`ClusterInv`, `UseInv`).
* `AllOptionsSeen`: `Spec => []OptionsSeen`.  `SeenInv` counts positional
  arguments by `args` instead of by `use`, and `InFront` shows that the numbers
  agree.  That a number is a word only at the start of a cluster is where a
  short option named `-` would be in the way.
* `CallsEnd`: a step returns, or goes on to a later argument or to a later
  character of a cluster, and never behind its end (`GoesOn`, `InBounds`).

Only model-checked: liveness (`ReachesDisk`, `Terminates`, `Ends`, both
`Returns`), which needs `ENABLED`.  What is proved of it is that every step
brings the end nearer (`RunEnds`, `PagesEnd`, `RoundsEnd`, `NobodyRunsOn`,
`CallsEnd`), and for the two processes of `YuckGen` that a step can be taken.
And `FindsTokens`, which compares two models on the texts that are written out in
`MCJsmn`: `Print1` reads an answer symbol by symbol with recursive functions,
`Jsmn` byte by byte, and to relate them for all answers one would have to do
induction over both.

## 5. Not modelled

* `get_sess` and `sess_cb`: a failed session is reported and otherwise
  ignored.  `tokcpy` and the choice of columns in `print_data`.
* In `ttlify-boff.awk`: tickers, names, exchanges, types, `--date`, and what
  `date` answers.  Listings whose FIGI is `N.A.` or whose fields are too few
  print nothing and are left out; outside of the Equity sector the fields for
  composite and share class do not count and are empty in the model.
* The queries on exchanges, other vendors and quotes, the extractions, and
  `inconsistent-gics_01` and `_03`.
* The other ttlify scripts: every line becomes triples of its own, by tables
  and formatting, with no state from line to line.
* Running out of memory, which in `yuck gen` includes `fdopen` and `strdup` behind
  `mkstemp`, and failing `fwrite` or `fclose`, which the code does not look at.
* In `explode`, `fp` directly behind `last`: between them lies `when`, or gcc puts
  `fp` in front; `when` alone has 2048 bytes and the `memset` reaches 768.
* In the generated parser: `yuck_free`, the texts of `--help` and `--version`,
  and `allow-unknown-dashdash-options`, with which the code generated for flags
  does not compile.
* The rest of yuck: how man page includes are formatted (`wr_man_incln`, whose
  static flags `yuck.c:1526` go on from one include to the next), the macros
  written to the intermediary, m4's command line, and `cmd_scmver` with the
  version files, which `build-aux/Makefile` does not build and whose other half
  is not in the repository.
* The shell pipelines, XSL, R and sed (no state of their
  own), and the Turtle files (data).

## 6. Plan

In this order, the most important behaviour first:

1. `NquadsExplode`, `GraphNames`, `NameScan`, `ExplodeSpec`, and the proofs of
   the stream discipline (done).
2. `RecvCb`, `Scrape` (done).
3. `Jsmn`, `Brackets`, and `Print1` justified by them; the limit of tokens
   (done).
4. `MeldCfi` and its proofs (done).
5. `Statementify` and `Gics`, the makefile's pipeline, and their proofs (done).
6. `Store`, `TtlifyBoff`, `Queries`, `Symbology` and their proofs (done);
   `inconsistent-gics_01` and `_03` are left.
7. `YuckDocument`, `YuckReader`, `YuckParse`: the option parser all three
   programs use (done); `YuckGen`, the program that makes it (done).
8. Proofs: `TicksDistinct`, `SizesCount`, `Accounted`, `YuckGen`, `YuckParse`,
   `ImplementsPromise`, `MatchesBrackets`, `OneStatement`, `NameScan`, `Scrape`
   and `ReadsDocument`; that loops and processes end, and that what the
   findings refute fails for their reasons only (done).
