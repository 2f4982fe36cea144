# TurboBench in TLA+

TurboBench (`src/turbobench.c`, `src/plugin.cc`, `src/turbobench_/time_.h`) compresses and decompresses files with many
codecs, measures time, memory and size, checks that the bytes come back, ranks the codecs and keeps the best results of
all runs in a `.tbb` file. This directory models the parts that carry its logic, checks them with TLC and proves the
most important facts with TLAPS for every value of the constants.

    tlc -workers 2 -config BlockCodec_framing.cfg MCBlockCodec.tla
    tlapm BlockCodecProofs.tla

Line numbers are those of the commit beside this directory. `PROJECT.json` maps each definition to its lines.

## 1. Inventory

The program is one process and, but for the threads some codecs start, one thread. `main` parses the options, selects the
codecs and, with -M, merges files and ends. Otherwise it calls `plugfile` for each codec and each file, which reads the
file in chunks and calls `becomp` and `bedecomp`; these run the timing loop around calls of `codcomp` and `coddecomp`, the
wrappers of the libraries. At the end the results are ranked, printed and merged into the `.tbb` file. All parts share
globals (`tm_rm`, `tm_min`, `mem_used`, `workmem`, the tables `plug` and `plugt`).

| component | state | operations | correct when | hard because | module |
|---|---|---|---|---|---|
| options (2125-2180), `vs/getopt.c` | globals; place in argv, operands skipped | `getopt_long`, the switch of `main` | each option does what was given, whatever the order of operands | operands are permuted in place; options share globals | `GetOpt`, `Startup` |
| codec selection (760-866, 2213-2249) | table of at most PLUGN codecs | expand a group, parse levels and parameters, drop duplicates | the table is what -e names | lookups by piece of a string; parameters that are cut; a table at its limit | `CodecSelect` |
| directory walk (411-525) | stack of open directories, prefix | open, next, close | every file as often as there are ways to it, under its own path | bounded depth, links to a directory above, an uninitialised field | `DirWalk` |
| merged file builder (`bebuild`, 1839-1896) | output, its length, limit | append a block, cut at a delimiter | blocks and lengths agree | the limit in the middle of a block; unsigned differences | `MultiBlock` |
| benchmark loop (`main` 2262-2290) | sums of lengths and times, largest memory | one file after another, one codec after another | sums add up, no codec's numbers leak into the next one's | assigned where maxima are meant; a file that cannot be opened | `BenchRun` |
| memory accounting (222-405) | `mem_used`, `mem_peak`, the painted stack | the malloc family, `mempeakinit`, `stackini` | the peak of a window is what the codec needed | blocks that outlive a window; threads; failed allocations | `MemTrack` |
| codec life cycle (`plugin.cc` 2228-2455) | work memory, dictionaries, handles, tables | `codini`, `codstart`, `codend`, `codexit` | a codec finds what it needs and leaves nothing | early returns and fall-through between 100 cases | `CodecLife` |
| read loop (`plugfile`, 1914-2010) | bytes read, chunk, copies, block size, error | read a chunk, duplicate it, compress, decompress, compare | the file is read once, in order, and every failure shows | -b, -s and -B interact; `bsize` survives the chunk that changed it | `BlockCodec` |
| block framing (`becomp`, `bedecomp`, 1766-1823) | positions in input and output | split, compress, store raw, write lengths; the same backwards | the decoder recomputes what the encoder did | nothing in the output says how it was cut; unsigned arithmetic; a codec may return anything | `BlockCodec` |
| timing loop (`time_.h` 232-298) | `tm_rm`, `tm_min`, run and call counters | begin, call, end of a run, take the time | the time is the mean call of one whole run | the first run changes the counts while it is going on; globals serve both directions | `TimeLoop` |
| codec wrappers (`plugin.cc` 2470-4612) | the buffers between calls | `codcomp`, `coddecomp` | the decoder's case reads what the encoder's wrote; a refusal shows | each library has its own convention; cases fall through | `Wrappers` |
| bundled coders (`src/EC`) | interval, model, output | encode and decode a symbol, flush | the decoder gives the input back | carries, models that must learn in step, reading ahead | `StreamCoders` and ten more |
| ranking (`plugrank`, 640-758) | scores, order, ranks | duels, Borda points, sort, number | ranks agree with the criteria, ties are fair | ties; a comparator that is no order for equal results | `Rank` |
| result file (end of `main`, `plugread`) | the `.tbb` file, the tables of old and new results | read, truncate, merge, write | per codec the best of all its runs on this dataset | a kill while writing; a file that outgrows its table; results of other sizes | `ResultStore` |
| reports and charts | - | sort, print | show the numbers of the table | layout, not logic | - |
| CPU detection, build files | - | - | - | no state | - |

`PROJECT.json` lists the same components with their sources and status, and under `hazards` what is hard to test, each
at its line with the properties that are about it.

## 2. Plan and order

The modules were written in this order, the most important behaviour first; all of it exists.

1. `BlockCodec` - read loop, encoder and decoder; abstract specification `RoundTrip`; `BlockCodecProofs`.
2. `ResultStore` - the result file over several runs and a kill; abstract specification `BestResults`; `ResultStoreProofs`.
3. `TimeLoop`, `TimeLoopProofs` - the timing loops and the options that drive them.
4. `Rank` - the ranking; `RankProofs`.
5. `MemTrack`, `CodecLife` and their composition `BenchRun`; `BenchRunProofs`.
6. `GetOpt`, `CodecSelect`, `DirWalk`, `MultiBlock` and their composition `Startup`; `StartupProofs`.
7. `Wrappers` - the cases of every codec.
8. `CoderWords`, the ten coders and `StreamCoders`, which runs them; `CodecProofs`, about `Wrappers` and `Fpaqc`.
9. `DataInduction` - sums over finite sets and induction on sets and numbers, used by the proofs of 2, 4, 5, 6 and 8.

How they fit together: `MultiBlock` builds the file that `BlockCodec` reads with -m, and what `Blocks` of `Startup` says of it is
what `MergedAssumption` asks of such a file. `CodecSelect` discharges what `BenchRun` and `ResultStore` take as given: at
most PLUGN codecs, no entry twice unless its parameter was cut. `BenchRun` takes a chunk for a length and two times, which
`BlockCodec` and `TimeLoop` explain. `Wrappers` and `StreamCoders` look into the codecs that `BlockCodec` leaves
external.

What could be added is listed in section 6.

## 3. What is modelled

### Startup: options, selection, merging

`Startup` is `main` up to the benchmark: one answer of `getopt_long` after the other (`Parse`, `HandleOption`), the
expansion of groups and `plugreg` (`Select`), and with -M the builder (`Build`). An argument is the sequence of its
characters.

`GetOpt` is `src/vs/getopt.c`. Operands that stand between options are skipped and, when the next option was handled,
rotated behind it, element by element along the cycles of `permute_args`. `HandsOptions` is the part of a call that is the
same for both kinds of options. The C library's getopt behaves alike.

`CodecSelect`: `ExpandSegment` replaces the name of a group by its contents between `ON` and `OFF`, which make unknown
codecs inside a group harmless; `RegisterLevel` is one turn of `plugreg`'s inner loop with `plugins` in it. A level is
looked up with `strstr` in the text of all levels, so level texts are sequences of digits and `HasLevel` does what strstr
does: level 1 is found in `10,11`, and level 0 is not because its first place is not the start of a level. A level looked up is
the number `strtol` made of what was given, written anew, so that 01 is 1. A parameter is compared whole and kept cut (`Cut`).

`DirWalk`: the file system is a graph of nodes (`Kind`, `Sub`), a path is its names. `NextInDir` takes any name that is
left, as `readdir` does; the path kept is cut at its last slash when a directory ends. `rdiropen` leaves `stack->pos`
unset: `posset` chooses whether it happened to be NULL, and `UnsetPos` ends what follows if not. Each name, of an operand
or of a directory's entry, is copied with `strncpy(.., PATH_MAX)` or ended at `name[PATH_MAX-1]` (492-495, 513-514), where
`bebuild` has 1025 bytes for it (1849): 4096 bytes are written each time, up to 3071 of them over whatever lies behind. With
`PATH_MAX > PATH_LENMAX + 1`, as in the code, `NameOverrun` may end the run at every name; the other actions go on where what
was overwritten is not used again.

`MultiBlock`: the file written is a sequence of words, a length standing for four bytes. With -N the words up to the last
delimiter that is read are those of the input, lengths in the places of delimiters (`WordAt`); when there is room for the
length field alone nothing is read, the loop does not turn and `exit(0)` leaves an empty file. The five places where the
builder leaves its defined behaviour (no room for a length, no delimiter after the last block, no file at all, an unset
position, a name longer than its array) end in `undefined`.

### BenchRun: the loop over codecs and files

`BenchRun` composes `MemTrack` and `CodecLife`. For each codec and file: `File` opens it or skips it, `Ini` is `codini`,
`Read` an fread with `mempeakinit`, `stackini` and `codstart`, `CallEncoder` / `EndEncode` the encoder between them,
`StartDecode`, `CallDecoder`, `EndDecode` the decoder, `CloseFile` is `codexit`, `AddFile` the sums of `main`. What a chunk
comes to is any member of `Result`. All calls of one timing loop are one here. `real`, `plain`, `clean` and `ins` are
history.

`MemTrack`: `malloc`, `free` and `realloc` of the program, any number of threads inside them. The counters are plain
variables, so adding is a `Load` and a store, the peak is compared (`Compare`) and stored (`Keep`) in two more steps, and
another thread may come between any of them. `malloc` stands for the whole family but for one thing: `posix_memalign` does
not look at what it got and counts the block the caller's pointer showed before, if any (`recount`, 309-311). The window a
block was allocated in is recorded (`win`), and whether updates were lost (`raced`), threads met (`shared`), a foreign block
was freed (`skewed`) or a failed allocation was counted (`again`). The stack is painted by `stackini` and its mark is the deepest word overwritten.

`CodecLife`: a codec is the kind of its case in `codini` and the work memory its library asks for; the handles, tables and
dictionaries are those the cases create and release, with the cases that fall through (DENSITY, LIBSLZ) as they do.

### BlockCodec: read loop and framing

A byte is its position. `Read` is one `fread` with the duplication that follows it; `buf` holds the chunk's offset and
length, the number of copies `nb` and the block size `bsize`. The encoder's two nested loops are the actions `EncBlockAll` /
`EncBlockOne` (the head of the outer loop without and with -m), `EncStore`, `EncFail`, `EncDieLarger`, `EncDieOverflow`
(the body of the inner loop, by exit) and `EncBlockEnd`, `EncEnd`. The decoder's actions have the same names with `Dec`.
`CheckSame` and `CheckDiffers` are `memcheck` with the exits of -C; `Advance` is the test that ends the read loop.

The output buffer is a partial function from positions to items: a block length (`blk`) or a sub-block with its header
(`sub`). An item also records what the encoder knew when it wrote it (`end`, `blk`); the decoder never looks at these two,
the invariant does. The decoder takes an item only if what it computed for this place - width of the length, number of
bytes, raw or compressed - is what the encoder wrote; otherwise it is `lost`, and memcheck may or may not see a
difference (both actions are enabled), because the model does not know what a codec makes of arbitrary bytes.

The codec is external: `codcomp` returns any member of `CodecRet`, for the same input a different one each time; 0 is the
failure `becomp` tests for, W32-1 a failure returned as -1, which it does not. `coddecomp` gives back a sub-block when it
is given what `codcomp` made of it. `EncOutside` ends a behaviour in which a block length wrapped around and the codec
would be given bytes beyond the input: what it does then is not defined.

`becomp` is repeated by the timing loop (`EncAgain`, at most `runs` times): each run writes from the start of the buffer over
what the runs before it left (`old`). A codec that fails in a run leaves what this run wrote and, behind it, whatever of the
earlier output its call has spared (`OnTop`); `op` is reset, so the length counted is 0. With length headers the decoder then
finds its way through that, without them coddecomp is called with 0 bytes, and a codec that does not need the length restores
what an earlier run left (`DecUnsized`). `bedecomp` reads an output it does not change, so its runs are one here; how many runs
there are and what they measure is `TimeLoop`. Not modelled: memory allocation of the
three buffers (failure ends the program), -f (fuzz: the same bytes at the other end of a buffer), reading errors.

`RoundTrip` is what it promises: a piece of the file is sent; it comes back in order and in full before the next piece; or
the codec fails and the whole piece is given up; or the program dies; with -C0 nothing comes back. The mapping: `sent` is
`totinlen`, `back` the bytes of the file restored (copies do not count twice), `state` follows from `pc` and `failed`.

### TimeLoop: the timing loops

A time is a number of ticks. `Begin` is TMBEG, `RunBegin` the head of the loop over runs, `Call(c)` one call of the codec
that takes c ticks, with the reading of the clock TMENDC does in the first run, `RunEnd` the end of a run with the minimum
and the early exits, `Take` is `tc = tm_tmin` and `td = tm_tmin` in `plugfile`. `CallFails` is the `goto end` of `becomp`,
which leaves the loop in the middle of a run; the decoder has no such exit. The variables `log`, `ran`, `cal`, `idle` and
`why` are history: they record the complete runs and are never read by the loop.

### Wrappers: the cases of the codecs

`Wrappers` has every codec of the registry. Of each case of `codcomp` and `coddecomp` it keeps what the answer is when the
library refuses (the classes of `CompA_C` to `CompLast` and their decoders), which format is written and read for the
level and parameter, whether the work memory is used and whether the case ends the program. Some calls drop the end of
a chunk without an error: IC, PCODEC and OPENZL_TP encode whole numbers only (`CutsTail`; 2662, 3034-3042, 2986), and FASTARI,
PPMDEC and LZJODY do not give back all that was encoded (`StopsShort`, `DecompPart`). A codec refuses a chunk in every run of
the timing loop or in none. A chunk is encoded in one call, `becomp`, `bedecomp` and `memcheck` are what they make of the answer. `Mispaired` lists the calls whose decoder
does not read what the encoder wrote. BPC and FIRETRAIL are left out: their decoder cases do not compile.

### StreamCoders: the bundled coders

`StreamCoders` is one call of the encoder and one of the decoder, symbol by symbol, for ten coders: `Shrc` (range coder
with carry), `FastAri` (carryless, bitwise), `Fpaqc` (asymmetric, coded backwards in blocks), `Subotin` (carryless range coder
with a cached cumulative frequency), `Fqz0` (order-0 model that sorts itself), `Ppmdec` (escape symbol, minimal flush),
`VecRc` (one coder per bit, outputs interleaved), `Fastac` and `Fasthf` (models updated now and then, tables, reading
ahead) and `Fpc` (blocks with canonical codes and three streams). Their arithmetic is done in words of four bytes of
`Bits` bits (`CoderWords`), since no coder looks at anything but the top byte, the lower bytes and the carry.

`Fpaqc` is written with functions, so that it can be proved about: `Shifts(q, d)` maps a state to the one a bit makes of it
and the bytes that leave before, `Pushed(ins)` gives the state and the output stack after each pop of the input stack,
`Refill(bytes)` the state and place after the loop that reads bytes. The size of the output stack (`BO`, 311, asserted at
398 and 407) is not modelled: the stack has room.

### Rank: the ranking

`Duel` is one turn of the loop over pairs, `Borda` is `borda_scores` with the assignment of 1e15 behind it, `Sort` is
`qsort`, `RankNext` numbers one result. `final_cmp` says of two equal results of the same codec that each comes after the
other; `Sorted` therefore is every order in which no earlier result has to stand behind a later one. Borda scores are
halves and kept doubled.

### ResultStore: the result file

`Bench` stands for everything before line 2309: the codecs of one run, in any order, each with any result. `Read` is
`plugread`; results of another dataset size do not count. `Truncate` is `fopen(s, "w")`, `WriteNew` and `WriteOld` the two
loops, `Close` the end, `NoFile` and `OpenFails` the ways out. `Kill` ends the process while it writes: any beginning of
the lines is on disk, the last perhaps torn - in its size column, its name, its parameters or its memory columns - because
stdio flushes where its buffer ends. `Key` is a codec with level and parameters; codecs this build does not know
(`Key \ Known`) appear only through torn lines. One of the four memory columns is kept, all are treated alike.

`BestResults` is what the README promises ("merge the results to file.tbb"): per codec the best times and the largest
memory of all its runs on this dataset since its compressed size last changed. `hist` records these runs; the new results
take effect when the file is truncated, `bestBar` is what the lines written and the lines still to be written say.


## 4. Runs

| run | bounds | checks | shows |
|---|---|---|---|
| `framing` | files of 0 to 15 bytes, plain and merged, with an empty block; every combination of -m, -P, -C0..3, chunk 3/5/16, block 0/2, -s 0/14, -B 0/8 with one run, and -C2 without -P with two runs of the encoder; 2^16 as 4, 2^32 as 64; returns 0, 1, 4, 63 | `TypeOK FramingInv InStep FailureShows AllConsumed BlocksApart EndsAsSaid RoundTripSpec Terminates` | the decoder stays in step, the loop implements `RoundTrip`, and each file ends as its messages say |
| `cut_blocks` | merged files with -m, -P and -C0, chunks that cut a block | `LengthsAreLengths` (violated) | content is taken for a length |
| `merge` | two known codecs and an unknown one, two sizes, three results, three runs, one kill | `TypeOK OneLinePerKey OwnResults BestResultsSpec` | until the first kill the file implements `BestResults`; after it a run still stores what it measured |
| `table` | a table for one codec, three runs | `TableHolds` (violated) | the file outgrows the table it is read into |
| `runs` | runs of at most three calls of 0, 1 or 3 ticks, one to four runs; -t 0/2, -T 1/8; no gain after 3 runs, a long run from 8 ticks | `TypeOK MeanOfFastest RunsFit EarlyStop Terminates` | the time is the mean of the fastest whole run; the loop ends as the options say |
| `rank` | all tables of three results with three values per criterion, same and different codecs, with and without memcpy, four choices of -K | `TypeOK PointsGivenAway DominatedIsBehind RankIsPlace` | points are given away whole, ranks are places |
| `rank_copeland` | the same, codecs only, all criteria | `CopelandPrimary` (violated) | a codec that wins more duels is ranked behind |
| `startup` | lines of up to four arguments out of 14; up to three segments out of ten for -e, a table of 4; merges of up to two operands with and without -r and -N, -B 4, 7, 9 or 14, names written over their array, over a tree with a link to its root, a dangling link, an unreadable and an empty file; depth 3 | `TypeOK OptionsAsGiven TwiceOnlyWhenCut WantedSelected MergedFile Ends` | options, table and merged file are what the command line asks for |
| `bench` | pairs of codecs, each next to one that needs what it may leave; two files, chunks of 1 or 2; two threads, two blocks of 1 or 2 bytes, up to three calls of the malloc family, each of which may fail; a static work memory of 2 bytes | `TypeOK CountersHold CodecIsPrepared NothingLeft SumsAddUp MemoryOfCodec` | what the table says of a codec is what its chunks came to; a codec finds what it needs and leaves nothing |
| `coders` | words of four 2-bit bytes, all inputs of up to 4 symbols; runs of up to 20 for the coders that learn now and then; FPC with blocks of up to 3 over 16 symbols | `RoundTrips ModelsInStep ReciprocalsDivide` | what is decoded is never wrong |
| `coders_tail` | `Ppmdec` alone | `AllComesBack` (violated) | its encoder may stop a byte early |
| `wrappers` | every registered codec with the levels and parameters that choose a format, two chunks, with and without -P, every -C | `TypeOK Served Verdict` | the decoder's case reads what the encoder's wrote, and a chunk refused or cut shows |

`TypeOK` of `bench` and `startup` holds the types of the modules composed.

Why the bounds are enough.

- `framing`: 2^16 and 2^32 are scaled so that sub-blocks lie on both sides of the two-byte limit (block size 2 below, 5
  and 16 above W16 = 4) and the unsigned clamp wraps within the files; files take up to three chunks, blocks up to three
  sub-blocks, and 14 // 4 gives copies that do not fill the buffer. Two runs let the second fail over the output of the
  first at every sub-block; a third would find nothing else behind it.
- `merge`: a codec can be measured, skipped and measured again, between two sizes, with a kill at any line. Three runs
  are the fewest in which an old result passes through a run that does not measure it. The two known codecs are
  symmetric: nothing tells them apart.
- `runs`: a first run ends after its first, second or third call or not at all, and the number of runs is lowered to 0, 1
  or more.
- `rank`: three results and three values give every pattern of ties and every cycle of duels.
- `startup`: four arguments are the fewest with two options, an operand that is rotated behind them and the argument of
  an option; three segments fill a table of four and repeat an entry, inside and outside a group, with and without
  a parameter that is cut; the limits of -B fall between two blocks, inside the content, inside a length and just behind it; the link to
  the root is followed until depth 3 stops it.
- `bench`: two codecs are enough for what one leaves to the next, two files for what `codexit` and `codini` do between
  them; two threads lose an update; two blocks let one outlive its window. Threads and blocks are symmetric.
- `coders`: a byte of two bits makes carries, underflow of the interval and renormalisation by one to four bytes happen
  within four symbols, and model totals reach their limit.
- `wrappers`: two chunks, since a buffer's stale content comes from the chunk before.

`CHECK_DEADLOCK FALSE` in each configuration: the program ends (`done`, an exit, or the bound on runs).

Fairness. `FairSpec` is weak fairness of `Next` in `BlockCodec` and `TimeLoop`, and `Spec` of `Startup` has the same: these
parts are one thread that never waits for another; as long as it has a next step it takes one. `Terminates` of
`framing` thus rests on the loops making progress, not on scheduling: an empty -m block advances by its length field, a
sub-block takes at least one byte. In `runs` no fairness of the clock is needed: a run that never gets long is ended by
the count of its calls (`RepCalls`, the program's 2^30). `Ends` of `startup` rests on the bounded depth of the walk, since
the tree has a way back to its root, and on the rotation of operands coming to an end.

`BestResultsSpec` is required until the first kill only: a kill may lose any result, and a torn line may turn one codec
into another. What still holds after it is `OwnResults`.

### What the properties leave open

Where the code does less than a reader would expect, the property says so by name rather than by leaving the case out:

- `FailureShows` speaks of a codec that fails in the first run of the timing loop. In a later run (1785) the buffer still
  holds the complete output of the run before: the decoder may restore everything from it, memcheck finds no difference,
  and a length of 0 is counted for the chunk. `RoundTrip` lets such a piece come back or be given up.
- `CodecIsPrepared` excepts `Unprepared`: LZO1f to LZO2a (labels, not cases, in `codini`, 2304), MARLIN (its dictionary is
  never built, 3483), FIRETRAIL (its coders are never created, 2360).
- `Served` excepts `Mispaired`, calls whose decoder never reads what the encoder wrote: CRLZP, IGUANA's x86 decoder,
  CLICKHOUSE without F, LZ4ULTRA z (it falls into LZAV; the comment at 3908 says lz4), SMALLZ4 with Z or z, TURBORC 8
  and S against s, LIBDEFLATE and LIBSLZ with a format behind the first letter, LZSA raw with f1 (and no f2 before it), ZSTD D.
- `Verdict` excepts the two transforms of bsc (`InPlace`): refused by encoder and decoder, the chunk comes through
  untouched and is shown as good. An error is shown not only for a refusal: the calls of `CutsTail` leave out the tail of
  a chunk that is no multiple of their width, and the decoders of `StopsShort` may not restore an end that was encoded.
- `CountersHold` and `MemoryOfCodec` are equalities only where no threads met, no foreign block was freed and nothing
  failed; otherwise the figures are at most what was there, unless an update was lost or `posix_memalign` counted a block it
  did not get (310): then they may say more. With several chunks a file the row has the last chunk's memory (1978, 1991) and
  `MemoryOfCodec` says exactly that; it is the codec's own only with one chunk a file.
- `MergedFile` says nothing of a run that wrote a name over the end of its array and did not survive it.
- `WantedSelected` accepts a level that is the front of one the codec has (1 for 10), as `strstr` does.
- `TwiceOnlyWhenCut`: `plugreg` compares whole parameters and keeps them cut.

### What the violated runs show

- `cut_blocks`: the merged file is read in chunks wherever its blocks end, and the first four bytes of each chunk are
  taken for a length (1774); `README.md:352` says each block is processed independently. It holds when the whole file
  fits in a chunk (`WholeBlocks`): `BlocksApart`, proved in `BlockCodecProofs`.
- `table`: `plugread` has no bound (1721) where the command line has one (773).
- `rank_copeland`: the Copeland score of every codec but memcpy is overwritten with 1e15 (744), so that the Borda
  score alone decides; the comment (724) calls Copeland primary.
- `coders_tail`: `ppmdenc` (`ppmdec.c:158`) shifts `range` along with `low` and stops when it is 0 modulo 2^32, which may be
  before the byte the decoder still reads; the decoder then gets -1 (101). `memcheck` (97-108) reports such a file.

### Divergences seen and not run

Options:

- -B: whole chunks are read until `totinlen >= filen` (1998), so the last one goes beyond the limit; the usage (2030) and
  `README.md:307` call it the maximal file size to benchmark.
- -r is documented as a flag (2033, `README.md:309`); the option string has `r:`, so it takes the next argument. -R is
  documented with an argument and has none: `strchr` and `atoi` are given NULL. -H falls through into -i, with NULL too.
  -w, -x and -z take an argument though documented as flags.
- `-iX,Y` is documented as "Decompression/Compression iterations" (2036); X goes to the encoder, Y to the decoder (2146).
- `-i0` sets the global `tm_rep` to 1, so that the other direction makes single calls too, whatever -t says (2037, 2146).
- -t is called the minimal time per iteration (2037); the loop measures it in the first run only and gives later runs the
  same number of calls, which may take less (`time_.h` 250). `tm_Repk` is always 1 (2204).
- With -K a subset, results equal in the chosen criteria and different in another have different ranks
  (`identical`, 750, compares all three; the comment at 725 says equal candidates share a rank).
- The usage has -K twice, as a time limit (2039) and as the criteria of the ranking (2048); the code has the second (2148).

Walk and memory:

- `rdirclose` and `rdirnext` read `rdir->stack->pos`, which `rdiropen` leaves unset (432-437, 461).
- `rdirnext` writes PATH_MAX bytes of every name into the `finame[PATH_LENMAX+1]` of `bebuild` (494, 513-514, 1849); with -r each
  operand does so.
- `posix_memalign` counts `*memptr` even if it failed (309-311).
- A failed allocation in `codini` ends the program with exit(0), before any result is stored.
- `memc` and `memd` are those of the last chunk (1978), not the largest.

Codecs:

- ZSTD's parameter D: the encoder (3252) never uses `cdictPtr`, and the decoder (4283-4285) refuses its frames;
  `README.md:72` lists dictionary support.
- DENSITY falls through into FASTARI and LIBSLZ into LZFSE (missing `break`); TURBORC 8 likewise. TURBORC 100 and 101 and
  the prefix levels of RLES and HRLE answer 0.
- `defaulf:` (3642) is a label and not the default: "library not included" is never printed.
- The decoder of LZLIB passes `outlen` as the input's length; HRLE 8 with s passes an uninitialised one; LIBBSC H parses
  a `q` left from `e`.
- The guards of the cases and of the registry differ for FQZ0, BCM, TORNADO's HF and SHRC / VECRC, and the decoder's case
  of LZSS has a name no codec has.
- FASTAC and FASTHF take `outlen` for the size of the decoder's buffer, and a chunk shorter than 16 bytes ends the program
  (`arithmetic_codec.cpp` 470-476, `binary_codec.cpp` 421-427; `plugin.cc` 4423, 4436).
- IC, PCODEC and OPENZL_TP divide the length by the width of a number (2662, 3034-3042, 2986); the bytes left over are in no
  output, and the chunk is reported as an error of the codec. LZJODY's decoder copies a raw block with its header (3925).
- The decoder of FastAri stops in the middle of a symbol as soon as it has read the last byte (`FastAri.c` 127-132): its
  output is whole only when nothing but the four bytes of the flush was written, which is what `RoundTrips` says of it.

## 5. Theorems

| module | theorem | for every value of the constants |
|---|---|---|
| `BlockCodecProofs` | `TypeCorrect` | `Spec => []TypeOK` |
| | `FramingCorrect` | `Spec => []FramingInv`: the inductive invariant |
| | `InStepCorrect` | the decoder never loses step unless the codec failed |
| | `AllConsumedCorrect` | the decoder uses up exactly what the encoder produced |
| | `FailureShowsCorrect` | what an encoder left that failed in its first run is never restored to a whole buffer |
| | `RoundTripCorrect` | `Spec => RoundTripSpec`: the loop implements `RoundTrip` |
| | `BlocksApartCorrect` | with -m no sub-block overlaps a length of a merged file read in one piece |
| | `EndsAsSaidCorrect` | every end of a file is one its message is about |
| `TimeLoopProofs` | `TypeCorrect` | `Spec => []TypeOK` |
| | `MeanOfFastestCorrect` | the time taken is the mean call of one whole run, the fastest |
| | `RunsFitCorrect` | more than one run is made only if all fit in `tm_TX` at the pace of the first |
| | `EarlyStopCorrect` | the loop ends early only without gain or at the end of its time |
| `BenchRunProofs` | `TypeCorrect` | `Spec => []TypeOK`, with `MemTrack` and `CodecLife` |
| | `NothingIsLeft` | after its last file a codec holds nothing it had to give back |
| | `CodecsArePrepared` | each call finds the work memory, tables and dictionary it reads |
| | `SumsAreRight` | the row of a codec is the sum over its files, and the size of the files what was read of them (`SumsAddUp`) |
| | `CountersAreRight` | for any threads and blocks: without a lost update or a counted failure the counters never say more than there is, alone exactly that (`CountersHold`) |
| | `MemoryIsRight` | the memory reported for a codec is at most the most it had at once, and in the plain case exactly that of its files' last chunks (`MemoryOfCodec`) |
| `StartupProofs` | `WantedAreRun` | every level asked for has its entry when the codecs are run, and no entry has a level its codec does not offer |
| | `TableInOrder` | at most PLUGN entries, none twice unless cut |
| | `StackHasRoom` | at most RDIR_DEPTH directories are open |
| | `PermuteRotates` | `permute_args` exchanges two neighbouring blocks of arguments and nothing else, whatever their lengths |
| | `OptionsAreRead` | every command line is answered as it reads, and its operands are what `optind` shows (`OptionsAsGiven`) |
| | `TypeCorrect` | `Spec => []TypeOK`, with the types of the modules composed |
| | `MergedFileIsRight` | whatever the tree and its links: an entry is what its path names, the merged file is blocks behind their lengths within the limit, and with -r it holds every file as often as there are ways to it (`MergedFile`) |
| `ResultStoreProofs` | `TypeCorrect` | `Spec => []TypeOK` |
| | `OwnResultsCorrect` | what a run measured is in the file it has written, after any kills |
| | `OneLinePerKeyCorrect` | until the first kill no codec has two lines |
| | `BestResultsCorrect` | `Spec => BestResultsSpec`: until the first kill the file implements `BestResults` |
| `RankProofs` | `TypeCorrect` | `Spec => []TypeOK` |
| | `PointsGivenAwayCorrect` | duels won are duels lost, and the Borda points of each criterion are given away whole |
| | `DominatedIsBehindCorrect` | a dominated codec has the worse rank, memcpy the worst |
| | `RankIsPlaceCorrect` | a rank is one more than the results with a smaller one, whatever order `qsort` gives equal ones |
| `CodecProofs` | `TypeCorrect` | `Spec => []TypeOK` of `Wrappers` |
| | `ServedCorrect` | for every codec, level and parameter: the decoder's case reads what the encoder's wrote, or `Mispaired` names the call |
| | `VerdictCorrect` | for any number of chunks: a codec is shown as good only if every chunk came back whole, but for `InPlace`, and as an error only if one was refused, cut or not restored, or its cases disagree |
| | `ReciprocalsAreExact` | fpaqc: the product with a rounded reciprocal is the quotient of the source's comment, for every prediction, bit and state (`ReciprocalsDivide`) |
| | `PushFits` | fpaqc: what is shifted after that product fits in two words, so that 64-bit arithmetic is enough |
| | `BitsComeBack` | fpaqc: whatever bits are coded, in blocks of any size, come back, with the encoder's model after each, no state is refused, and the last byte is read with the last bit |

Assumptions are the named ones of the modules: sizes, times and counts are natural numbers, block sizes and counts
positive, 0 < 2^16 < 2^32, sets of blocks finite. More than that say `MergedAssumption` - a merged file is blocks behind
their lengths, which `MergedFileIsRight` proves of the builder - `CutAssumption` (a cut parameter is not cut again),
`RunAssumption` (only a `sized` codec asks for more than the static work memory, which is how `codini` is written),
`KeyAssumption` (a build knows finitely many codecs), `TableAssumption` (a table to be ranked is a finite sequence of
results with numbers), `CallAssumption` (a call names a codec of the registry), `LinesAssumption` (a command line is a
sequence of arguments, an argument one of characters), `WalkAssumption` (a directory has finitely many entries, each leads to
a node, which may be one above it), `DataAssumption` (a regular file is a sequence of bytes), `OperandAssumption` (every word
that may be an operand leads to a node, if only to one that is not there) and `LimitAssumption` (-B stands for a number). What the theorems about fpaqc
need of its sizes is their hypothesis `Sizes`, which `StreamAssumption` also asks of the instance: 2^N is even and at most
256^2, a counter has at least N bits, and 256 * 2^N * 2^N is at most 2^32 in its table - with N = 12 in the code just 2^32.
`BitsAssumption` says that a byte has two values at least.
Nothing is assumed of a codec in `BlockCodec`: it may return any number at any call; nothing of the clock in `TimeLoop`, of
the links of the tree in `DirWalk`, of what a chunk comes to in `BenchRun`.

### Framing

`InStep` is not inductive: when the decoder stands at an item, what it expects there depends on how the encoder came to
write it. `FramingInv` says that the output is a chain:

- `FirstInv`: position 0 holds what the decoder starts with (or nothing was written yet);
- `WellFormed`: each item says of itself what the decoder will compute from the block it belongs to - its width, the
  bytes it stands for, whether it is raw;
- `LinkInv`: behind each item stands the next one the decoder will look for - the next sub-block of its block, or the
  next block - or it is the last one and the encoder is just behind it;
- `EncoderInv`, `BufInv`: without -m the buffer is one block, without lengths one sub-block, copies only fill the buffer
  when sub-blocks are a copy long (this is why `bsize = len` at line 1964 is needed);
- `DecoderInv`: the decoder is at an item of the chain that stands for the bytes it has restored, or at the end of both.

`ChainExtends` proves that appending an item keeps the chain, once for both kinds; `DecoderMoves` that following a link
keeps `DecoderInv`, once for all decoder steps. There is one lemma per action, `FramingNext` puts them together. At the
end of the chain the decoder has restored `ip` bytes, all of the buffer, and stands at `op`: that is `AllConsumed`. That the
raw/compressed decision can be recomputed from the length alone - `raw <=> (mcpy /\ val = len)` in `WellFormed` - is the
part that depends on the `>=` in `oplen >= iplen && mcpy` (1783).

### Failure and refinement

`CoverInv`: every item stands for input the encoder had passed when it wrote it, so nothing in the output ends beyond
`ip`; an encoder that failed in its first run has not passed all its input, nothing is behind its output, and the decoder has
restored no more than the item it came from stands for. Hence it cannot restore the whole buffer: `FailureShows`.

`RoundTripCorrect` shows that every step maps to a step of `RoundTrip` or to none. `PlaceInv` keeps the chunk inside the
file, `ReturnStep` does the arithmetic of `back` for the decoder's steps (bytes of copies count once), and the lemmas `Bar...`
say what the mapped state is at each place of the program.

### Ends of blocks and of a file

`WholeInv` of `BlocksApartCorrect` follows the encoder through a merged file read in one piece: at the head of the outer
loop it stands at a `Boundary`, a place of the input that is, modulo the chunk's length, the offset of a block; inside a
block it and everything it has written lie between the block's length and `BlockEnd`. Copies make positions go around
the chunk: `ModAdd`, `ModWrap` and `InCopy` are the lemmas on remainders. `ContentIsContent` turns `MergedAssumption` into the
statement that such bytes are no length.

`EndInv` of `EndsAsSaidCorrect` says how large the parts of the buffer can be: `Total <= Insize <= Outsize`, a stored
sub-block is with -P never longer than what it stands for, copies fill at most `Insize`. Without lengths the output is
then no longer than the input, which leaves lengths as the only reason for an overflow with -P.

### Timing

`MeanInv` adds to the property that `tm_min` is Inf exactly while no run is complete, and that a run in progress has made
at most `tm_rm` calls. `Call` changes `tm_rm` only while `tm_min` is Inf, so the runs completed later all make the number of
calls of the first. `FitInv` says that `_tm_Rn` is at most `tm_TX / cal` once `cal` is set, that `_tm_R` counts the complete
runs, and that beyond the first there are no more of them than `_tm_Rn`; `QuotientFits` turns the quotient into the
product of `RunsFit`. `IdleInv` of `EarlyStop` ties the loop's counter of runs without gain to the history variable that
counts them from outside.

### Benchmark loop

`TypeInv` adds to the types that the loops stand inside their lists and each thread inside a call has a block or none as
its step needs it. `LifeInv` says for each place of the loop what the codec that is being run has: between codecs
nothing (`Between`); from `codini` on work memory of its size, tables and handles (`WorkGiven`, `HandlesGiven`), from `codstart`
the dictionary of this direction and this codec, of no other (`DictOf`). `IniGives` and `ExitTakes` go once through the
families of cases. `SumInv` is the sum of what earlier files (`g`) and this file's chunks so far (`p`) came to.

`OwnerInv` says that a block belongs to the thread that is inside a call with it and to no other; `CountInv` that a block
counts from the store of `mem_add` to the store of `mem_sub`: without a lost update `mem_used` is at most the sum of those
blocks of this window, and alone with its own blocks exactly that. A thread's load and its store are two steps, so the
value it loaded is part of the invariant: it is the counter as long as no other thread came between. A sum that is still
being compared with the peak was once in the counter, so it is at most `top`. `MemoryInv` carries the peaks from chunks to
files to the row of the codec, the last one of each file and the largest of all. `SizeInv` ties `totinlen` to the files that were
opened (`FileSum`).

The sums are `MapThenSumSet` over sets of any size. `DataInduction` proves what is needed of them - an element may be taken
out or put in, a sum grows with its terms, sums of sums, counting - from the definition of the fold. Its induction
principles (`SetInduction`, `CountInduction`, `LeastNumber`) take a set of the cases that hold instead of a predicate, so
that no operator has to be instantiated; they rest on the well-foundedness of the natural numbers.

### Selection and walk

`SelectInv`: what is left of the text is a sequence of segments (`TextOK`), the table holds registered entries with
parameters already cut (`TableOK`), every entry wanted so far is in it unless the program ends (`WantedHere`), and `main`
goes on only when selection was successful (`Picked`). `AddCodecOK` covers the four outcomes of adding one entry:
present, added, full, unknown. `WalkInv` is the type of the stack with its bound; `NextInDir` enters a directory only below
RDIR_DEPTH.

### Merged file

`BuildInv` has four parts. `PhaseInv`: from the start of `bebuild` on, operands and options are what they were when the
command line had been parsed. `TrailInv`: the directories open are nodes with names left in them; the path kept leads from an
operand through exactly those directories (`OnTrail`), so that cutting it at the last slash when one ends gives the path of
the one below, and the entry is what its path names. `FileInv`: the file is `st_fnum` blocks, each ending where the next one
starts (`InOrder`), and `st_flen` counts it. `OneBlockMore` puts a block behind a file in order; `SplitUpTo` is one induction
over the delimiters (`SplitOK`).

`CountInv` is the balance that makes the file complete. For contents c, `Ways(c, k, node)` are the ways to c from a node with
k directories still allowed. What is owed at any moment is 1 if the entry in hand holds c, and the ways from what is left of
every open directory, each with as many levels as are allowed below it, and from the operands not looked at (`Owed`). A step
of the walk only moves ways between these four (`OwedInDir`, `OwedOutOfDir`, `OwedByOperand`), and taking the entry turns the
1 into a block. So while the limit has not been reached, blocks seen and ways owed add up to all ways from the operands; at
the end nothing is owed. The lemmas on sums are in `DataInduction`.

### Options

The rotation. `permute_args` makes one swap after the other; that it rotates is number theory. The places of the two blocks,
nnonopts and nopts long, form cycles under "go on by nopts, modulo the length": `GcdIs` proves of Euclid's loop that it finds
a divisor g of both with s, t such that s * nnonopts + t * nopts = g (Bezout); hence a cycle closes after exactly
(nnonopts + nopts) / g steps (`CycleCloses`, `CyclesApart`), the cycles that begin at the first g places behind `end` never
meet and reach every place (`CyclesCover`). `SwapInv` follows the swaps along them: after j swaps of cycle i every place that
was come to has what belongs there, the first place of the cycle what was displaced last, every other place what it had.

The meaning. `MeaningFrom` reads the arguments where they stand, from right to left. `OptInv` says at each step that what has
been answered, followed by what the cluster in hand and the arguments from there on mean, is the meaning of the whole line
(`AnswerInv`); that the operands skipped last - between `nonopt_start` and `nonopt_end`, wherever the rotations have moved
them - followed by the operands still to come are all operands (`OperandInv`); that the arguments from `optind` on have not
been moved (`RestInv`); and that the three indices are in order (`PlacesInv`). There is one lemma per action; a rotation is
used through `Moved`, a letter of a cluster through `GoesOn` and `EndsCluster`.

### Result file

`StoreInv` says where each codec is, at every place of a run that was never killed: before and after, the lines are the best
of `hist`, one for each codec measured (`FileInv`); what `plugread` has read is the file (`ReadInv`); while the file is
written, each codec is in the lines written, among the new results not written, or among the old ones that are alive and
not written - in exactly one of the three, and the best is what is or will be written there (`WriteInv`). `IsBest` is a
characterisation of the best of a set of runs, and `BestMerge` shows that merging two results gives it. In the refinement
truncating the file is the step that reports a run: at that moment the new results are the ones `bestBar` counts; all later
writes stutter. `OwnResults` needs none of this and holds after any kill, from `MergeKeeps` alone.

### Ranking

`RankInv` follows `plugrank`: while the duels are fought each score is the duels won less those lost among the pairs met so
far (`DuelInv`), so their sum is 0; afterwards the scores are what `final_cmp` sees (`ScoreInv`); while ranks are given, each
place has the rank of the first of its stretch of identical results (`PlaceInv`). `PointsGivenAway` counts points twice,
once per result and once per pair. `DominatedIsBehind` needs that a dominated result loses in every criterion it does not
tie, and so has the smaller score against each third one, and that no sorted order puts the smaller score first.

### Wrappers

`WrapperInv` says what the buffers hold: the output what the encoder's case wrote for the last chunk encoded, whole or its
head - or, if it refused, for an earlier one - and the decoder's result what its case makes of that. `Paired` is the case split over the
registry: for every codec, level and parameter, `Mispaired` just when the format written is not the one read. It is stated
for arbitrary parameters, that is for every subset of the marks a case looks at, not only those of the instance.

### fpaqc

The encoder pops a stack of predictions and bits and pushes each onto a state; the decoder undoes the pushes, last first.

- One push. `RoundedDown` and `RoundedUp` compare a quotient by m with a product with the reciprocal I * M / m, rounded down
  (bit 0) and up (bit 1): the error stays below one unit as long as a state times M is at most I (`Factor`). With N = 12 and
  32 bits there is nothing to spare. `PushUndone` then is arithmetic on quotients: the fraction of x * q tells the bit
  and its whole part the state before.
- Bytes. `ShiftFits`: a state that does not fit after a push loses its low byte and is still large enough to come back
  into range. `BitReturns` goes up the states: the decoder's loop reads exactly the bytes that left, in the order they
  lie, and no more, since each state on the way is below the range (`Returns`).
- A block. `PushedIs` keeps the state in its range from pop to pop, `PopReturns` undoes one pop, `HeaderReturns` reads the
  three bytes of the last state.
- All blocks. `EncoderIs`: what lies on the stack after k bits are the last bits with the predictions made before them.
  `Ends` names the last bit of a bit's block, `OutStays` says that what is written stays a beginning of all bytes.
  `DecoderAt` is the invariant of the decoder, by induction on the bits: it has the encoder's model, has counted as many bits
  as the encoder had on its stack, its state is that of the pops still to come, and the bytes that left during these lie
  before it.

The models need no invariant of their own beyond their type: a prediction is never 0 and never 2^N (`PredictionIs`), so
that a push is never a division by 0.

## 6. What is only model-checked, and what is not modelled

Model-checked on small instances only:

- liveness (`Terminates` twice, `Ends`): beyond the prover;
- the coders (`RoundTrips`, `ModelsInStep`): the encoders and decoders of all but `Fpaqc` are recursive operators or rest on
  them; what is proved of `Fpaqc` is about its bits, how a symbol is a sequence of bits is left to the runs;
- the four runs that end in a violation: each is a single counterexample.

Not modelled:

- reports and charts: sorting and printing of numbers; with them the options that only choose them, and `argtoi`;
- CPU detection and build files: no state;
- of the bundled coders those not named in section 3: FSC and TORNADO's second stage, bcm, quicklz, lzlib, unishox and
  zlib_turbo. They are copies of other projects' libraries, or large ones with no part that is this program's own;
- all libraries in submodules: external, as `codcomp` and `coddecomp` of `BlockCodec`;
- in `MemTrack` what is allocated before the real `malloc` was found, `realloc` of NULL, and the buffers of `plugfile`,
  which live longer than any window; the sampler thread of Windows builds, which is never compiled (147 before 152);
- in `BlockCodec` -f, read errors, and failed allocations of the three buffers, which end the program; in `MultiBlock`
  NUL bytes in files cut at a delimiter;
- in `GetOpt` the branch for POSIXLY_CORRECT and a leading `+` (`getopt.c` 347-352, 391-397), which stops at the first operand:
  the program never asks for it, a user's environment may;
- Windows builds (dialogs, its own directory functions);
- two processes on the same `.tbb` file at once, which nothing in the program provides for.

Five hazards listed have no property: what the time of a failed codec should be (1785) no text of the repository says;
`-i0` for both directions (2146) is modelled as it is and described above; ranks with a subset of -K (750) likewise. Old
results are lost when a run is killed while it writes (2320), which is what the code does; and the LZO kinds, which run
unprepared (`plugin.cc` 2304), are exceptions of `CodecIsPrepared`.
