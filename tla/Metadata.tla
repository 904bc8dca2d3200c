------------------------------ MODULE Metadata ------------------------------
(***************************************************************************)
(* How readMetadata reads the file that isolate --meta writes: lines       *)
(* key:value, of which it keeps seven keys.  A value is a number or not,   *)
(* the empty text included; a line without a colon has the key "none", and *)
(* one that is too long for bufio.Scanner has the key "long".              *)
(***************************************************************************)
EXTENDS Integers, Sequences, FiniteSetsExt

CONSTANTS Int32Half     \* 2^31

Whole == {"max-rss", "exitcode", "exitsig"}
Real == {"time", "time-wall"}
Text == {"status", "message"}
Field == Whole \cup Real \cup Text

Line == [key : Field \cup {"none", "long"}, value : [numeric : BOOLEAN, n : Int]]

Number(n) == [numeric |-> TRUE, n |-> n]
NoNumber == [numeric |-> FALSE, n |-> 0]

\* The low 32 bits of the number.
ParseIntWrapping(v) == ((v.n + Int32Half) % (2 * Int32Half)) - Int32Half

\* strconv.ParseInt(value, 10, 32), its error ignored: 0 for what is no number,
\* and the nearest int32 for what is out of range.
ParseInt(v) == IF v.n >= Int32Half THEN Int32Half - 1
               ELSE IF v.n < -Int32Half THEN -Int32Half ELSE v.n

Value(field, v) == CASE field \in Whole -> ParseInt(v)
                     [] field \in Real  -> v.n
                     [] field \in Text  -> v

Zero == [field \in Field |-> IF field \in Text THEN NoNumber ELSE 0]

\* The scanner gives up at a line that is too long, and its error is returned.
Scanned(file) == LET long == {i \in DOMAIN file : file[i].key = "long"}
                 IN  IF long = {} THEN file ELSE SubSeq(file, 1, Min(long) - 1)

\* One turn of the loop.
Assign(metadata, line) ==
  IF line.key \in Field THEN [metadata EXCEPT ![line.key] = Value(line.key, line.value)] ELSE metadata

\* The loop over the lines, and where it is after each turn.
Loop(assign(_,_), start, lines) ==
  LET after[n \in 0..Len(lines)] == IF n = 0 THEN start ELSE assign(after[n-1], lines[n])
  IN  after

readMetadata(file) ==
  LET lines == Scanned(file)
  IN  [err |-> lines # file, meta |-> Loop(Assign, Zero, lines)[Len(lines)]]

----------------------------------------------------------------------------
LastLine(file, field) ==
  LET lines == {i \in DOMAIN file : file[i].key = field}
  IN  {file[i] : i \in {i \in lines : \A j \in lines : j <= i}}

\* A file that is read without an error says, for each field, what the last
\* line with its key says, or nothing if there is none; an exit code, a signal
\* or a peak memory that is not 0 is never read as 0, and keeps its sign,
\* however large the number is.
ReadsLastLine(files) ==
  \A file \in {f \in files : ~readMetadata(f).err} : \A field \in Field :
    LET read == readMetadata(file).meta[field] IN
      /\ LastLine(file, field) = {} => read = Zero[field]
      /\ \A line \in LastLine(file, field) :
           /\ field \in Text => read = line.value
           /\ field \in Real => read = line.value.n
           /\ field \in Whole =>
                /\ read \in -Int32Half .. Int32Half - 1
                /\ (read = 0 <=> line.value.n = 0) /\ (read < 0 <=> line.value.n < 0)
                /\ line.value.n \in -Int32Half .. Int32Half - 1 => read = line.value.n
=============================================================================
