----------------------------- MODULE FilHeader -----------------------------
(***************************************************************************)
(* The contents of one filterbank file: what src/filfile.c writes, keyword *)
(* by keyword, and how close_fil of src/filwriter.c corrects nsamples in   *)
(* the finished file by searching its beginning for the keyword.           *)
(*                                                                         *)
(* A file is a sequence of cells.  A number is one cell, whatever its      *)
(* width.  The two file names and the keyword that is searched for are     *)
(* sequences of characters; any other keyword, which no search can mistake *)
(* for nsamples, is one character.  Positions count from 0, as in C.       *)
(*                                                                         *)
(* The file is the one that m_szFileName names when close_fil reopens it:  *)
(* DadaDbFil says which one that is.                                       *)
(***************************************************************************)
EXTENDS Integers, FiniteSetsExt, SequencesExt

CONSTANTS
  Names,     \* the names of filterbank and metafits files
  Counts,    \* the values of nsamples
  BuffSize,  \* BUFF_SIZE, the cells of the file that are searched
  MaxBlocks  \* bound on the blocks of data written

\* No file has an empty name.
ASSUME NamesAssumption ==
  Names \subseteq Seq(STRING) \ {<<>>} /\ BuffSize \in Nat

VARIABLES
  phase,   \* "none", "open", "closed", "reopened" or "done"
  header,  \* the cFilFileHeader that create_fil filled in
  file,    \* the contents of the file
  count    \* nsamples as close_fil computes it

vars == <<phase, header, file, count>>

Chars(s) == [i \in DOMAIN s |-> <<"char", s[i]>>]
Number(v) == <<"number", v>>
Block(b) == <<"data", b>>

-----------------------------------------------------------------------------
(* filfile.c *)

Keywords ==
  << "HEADER_START", "telescope_id", "machine_id", "data_type",
     "rawdatafile", "source_name", "barycentric", "pulsarcentric",
     "az_start", "za_start", "src_raj", "src_dej", "tstart", "tsamp", "nbits",
     "nsamples", "fch1", "foff", "nchans", "nifs", "nbeams", "ibeam",
     "HEADER_END" >>

Marks == {"HEADER_START", "HEADER_END"}
Strings == {"rawdatafile", "source_name"}
Fields == ToSet(Keywords) \ Marks

\* The characters of a keyword: nsamples in full, the others in one cell.
Key == Chars(<<"n", "s">>)
Spelled(keyword) == IF keyword = "nsamples" THEN Key ELSE Chars(<<keyword>>)

\* CFilFile_WriteString: the length, then the characters.
WriteString(s) == <<Number(Len(s))>> \o s

\* CFilFile_WriteKeyword_string (an empty value is left out), _int, _double.
WriteKeyword(keyword, value) ==
  WriteString(Spelled(keyword)) \o
    CASE keyword \in Marks -> <<>>
      [] keyword \in Strings ->
           IF value = <<>> THEN <<>> ELSE WriteString(Chars(value))
      [] OTHER -> <<Number(value)>>

\* A mark has no value.
ValueOf(h, keyword) == IF keyword \in Marks THEN <<>> ELSE h[keyword]

WriteHeader(h) ==
  FlattenSeq([i \in DOMAIN Keywords |->
                WriteKeyword(Keywords[i], ValueOf(h, Keywords[i]))])

-----------------------------------------------------------------------------
(* The search, util.c *)

Matches(buffer, bytes, i) ==
  \A j \in 1 .. Len(bytes) : buffer[i + j] = bytes[j]

\* The loop stops before i = buffer_len - search_len.
binary_strstr(buffer, bytes) ==
  LET hits == {i \in 0 .. Len(buffer) - Len(bytes) - 1 :
                 Matches(buffer, bytes, i)}
  IN  IF hits = {} THEN -1 ELSE Min(hits)

-----------------------------------------------------------------------------
(* update_filfile_int *)

\* fread of BUFF_SIZE cells from the beginning.
Window(f) == SubSeq(f, 1, BuffSize)

\* Variants: the value is written where the keyword begins; a file shorter
\* than the buffer is searched all the same.
AtKeyword(f, value) ==
  LET ret == binary_strstr(Window(f), Key)
  IN  IF Len(f) < BuffSize \/ ret < 0 THEN f
      ELSE ReplaceAt(f, ret + 1, Number(value))
ShortFileToo(f, value) ==
  LET ret == binary_strstr(SubSeq(f, 1, Min({BuffSize, Len(f)})), Key)
  IN  IF ret < 0 THEN f
      ELSE ReplaceAt(f, ret + Len(Key) + 1, Number(value))

\* Every failure leaves the file as it is and is only logged.  The value goes
\* where the match ends; more of the header follows any match.
update_filfile_int(f, value) ==
  LET ret == binary_strstr(Window(f), Key)
  IN  IF Len(f) < BuffSize \/ ret < 0 THEN f
      ELSE ReplaceAt(f, ret + Len(Key) + 1, Number(value))

-----------------------------------------------------------------------------
(* filwriter.c *)

\* create_fil: the file is opened with "wb" and its header written.  A field
\* whose value does not matter here has a value of its own.
CreateFil(rawdatafile, source_name, nsamples) ==
  /\ phase = "none"
  /\ header' = [k \in Fields |->
                  CASE k = "rawdatafile" -> rawdatafile
                    [] k = "source_name" -> source_name
                    [] k = "nsamples" -> nsamples
                    [] OTHER -> k]
  /\ file' = WriteHeader(header')
  /\ phase' = "open"
  /\ UNCHANGED count

\* create_fil_block
Blocks(f) == Quantify(DOMAIN f, LAMBDA i : f[i][1] = "data")
CreateFilBlock ==
  /\ phase = "open"
  /\ Blocks(file) < MaxBlocks
  /\ file' = Append(file, Block(Blocks(file) + 1))
  /\ UNCHANGED <<phase, header, count>>

\* close_fil: the duration has not changed, or it has and the file is reopened.
CloseFil ==
  /\ phase = "open"
  /\ phase' \in {"done", "closed"}
  /\ UNCHANGED <<header, file, count>>

Reopen(nsamples) ==
  /\ phase = "closed"
  /\ phase' = "reopened"
  /\ count' = nsamples
  /\ UNCHANGED <<header, file>>

Update ==
  /\ phase = "reopened"
  /\ file' = update_filfile_int(file, count)
  /\ phase' = "done"
  /\ UNCHANGED <<header, count>>

Init ==
  /\ phase = "none"
  /\ header = [k \in Fields |-> k]
  /\ file = <<>>
  /\ count = 0

Next ==
  \/ \E r, s \in Names, n \in Counts : CreateFil(r, s, n)
  \/ CreateFilBlock
  \/ CloseFil
  \/ \E n \in Counts : Reopen(n)
  \/ Update

Spec == Init /\ [][Next]_vars

-----------------------------------------------------------------------------
(* The reader's side *)

\* What a reader of the format finds from cell i on: keywords with their
\* values, and where the header ends.  It gives up (end = 0) at a cell that
\* cannot be what should stand there.
IsNumber(f, i) == i \in DOMAIN f /\ f[i][1] = "number"
IsString(f, i) ==
  /\ IsNumber(f, i) /\ f[i][2] \in 1 .. Len(f) - i
  /\ \A j \in 1 .. f[i][2] : f[i + j][1] = "char"
StringAt(f, i) == SubSeq(f, i + 1, i + f[i][2])
AfterString(f, i) == i + 1 + f[i][2]

KeywordAt(f, i) ==
  IF IsString(f, i) /\ \E k \in ToSet(Keywords) : Spelled(k) = StringAt(f, i)
  THEN CHOOSE k \in ToSet(Keywords) : Spelled(k) = StringAt(f, i)
  ELSE "none"

\* One keyword is read; r.found maps the keywords seen to their cells.
ReadKeyword(f, r) ==
  LET k == KeywordAt(f, r.at)
      v == AfterString(f, r.at)
      Found(value, next) ==
        [at |-> next, found |-> r.found \cup {<<k, value>>}]
  IN  CASE r.at = 0 \/ r.at > Len(f) -> [r EXCEPT !.at = 0]
        [] k = "none" -> [r EXCEPT !.at = 0]
        [] k \in Marks -> Found(<<>>, v)
        [] k \in Strings /\ IsString(f, v) ->
             Found(StringAt(f, v), AfterString(f, v))
        [] k \in Fields \ Strings /\ IsNumber(f, v) -> Found(f[v], v + 1)
        [] OTHER -> [r EXCEPT !.at = 0]

ReadHeader(f) ==
  FoldLeft(LAMBDA r, k : ReadKeyword(f, r), [at |-> 1, found |-> {}], Keywords)

\* What it should find, for a given nsamples.
Expected(n) ==
  {<<k, CASE k \in Marks -> <<>>
          [] k \in Strings -> Chars(header[k])
          [] k = "nsamples" -> Number(n)
          [] OTHER -> Number(header[k])>> : k \in ToSet(Keywords)}

\* Where a string of characters stands in a sequence of cells.
Occurrences(s, bytes) ==
  {i \in 0 .. Len(s) - Len(bytes) : Matches(s, bytes, i)}

\* The position of the keyword that precedes the value of nsamples.
Position == Max(Occurrences(WriteHeader(header), Key))

-----------------------------------------------------------------------------
(* Properties *)

\* At any time from create_fil on, a reader that walks the file keyword by
\* keyword gets every field of the header back, with nsamples the original or
\* the corrected number, and after HEADER_END the blocks in the order they were
\* written: update_filfile_int damages nothing, whether or not it finds the
\* keyword.
ReadsBack ==
  phase # "none" =>
    LET r == ReadHeader(file)
    IN  /\ r.found \in {Expected(n) : n \in {header["nsamples"], count}}
        /\ r.at > 0
        /\ LET blocks == SubSeq(file, r.at, Len(file))
           IN  blocks = [b \in DOMAIN blocks |-> Block(b)]

\* close_fil corrects nsamples if the file is as long as the buffer and the
\* keyword ends before the buffer does, and leaves it if the file is shorter or
\* the keyword ends behind the buffer.  Nothing is said of a keyword that ends
\* with the buffer: it is "found within buffer" (util.c), but not by the loop.
CorrectedWithinBuffer ==
  [][Update =>
       LET end == Position + Len(Key)
           Holds(n) == <<"nsamples", Number(n)>> \in ReadHeader(file').found
       IN  /\ Len(file) >= BuffSize /\ end < BuffSize => Holds(count)
           /\ Len(file) < BuffSize \/ end > BuffSize => Holds(header["nsamples"])
    ]_vars
=============================================================================
