----------------------------- MODULE Dictionary -----------------------------
(***************************************************************************)
(* One run of assignment-dictionary: _start of main.asm, read_word and     *)
(* read_char of lib.asm, find_word of dict.asm, and the words that the     *)
(* macro `colon` has laid out.  Every read of a character and every visit  *)
(* of an entry is a step.  The memory is the data of main.asm: the buffer, *)
(* the two messages behind it, and the dictionary.  (The program has the   *)
(* dictionary in .text, where it can not be written: here an overrun could *)
(* reach it.)                                                              *)
(***************************************************************************)
EXTENDS StringLib

CONSTANTS
  BUFF_SIZE,      \* 256 in the code
  Words,          \* the uses of `colon`, first to last: [key, value]
  NoKey,          \* "Key not found"
  BuffErr,        \* "Buffer overflow"
  Streams         \* what may stand in stdin

Texts == Seq(1 .. 255)

ASSUME DictionaryAssumption ==
  /\ BUFF_SIZE \in Nat \ {0}
  /\ Words \in Seq([key : Texts, value : Texts]) /\ Words # <<>>
  /\ NoKey \in Texts /\ NoKey # <<>> /\ BuffErr \in Texts
  /\ Streams \subseteq Seq(0 .. 255)

\* No key of words.inc is empty.
ASSUME KeysAssumption == \A i \in DOMAIN Words : Words[i].key # <<>>

-----------------------------------------------------------------------------
(* The memory: cells from address 1 on, 0 is the null pointer.             *)

WORD_SIZE == 1   \* a pointer takes one cell

Buffer == 1
NoKeyAt == Buffer + BUFF_SIZE
BuffErrAt == NoKeyAt + Len(NoKey) + 1

EntrySize(w) == WORD_SIZE + Len(w.key) + 1 + Len(w.value) + 1

\* The addresses of the entries, in the order of their definition.
EntryAt ==
  LET at[i \in 1 .. Len(Words)] ==
        IF i = 1 THEN BuffErrAt + Len(BuffErr) + 1
        ELSE at[i - 1] + EntrySize(Words[i - 1])
  IN at

\* `last` of colon.inc when the i-th entry is laid out: the entry before it.
Link(i) == IF i = 1 THEN 0 ELSE EntryAt[i - 1]

\* The label the program starts the search from names the last use of colon.
first == EntryAt[Len(Words)]

Entry(i) == <<Link(i)>> \o Words[i].key \o <<NUL>> \o Words[i].value \o <<NUL>>

\* All of it: the initialised data of the program.
Data ==
  LET entries[i \in 0 .. Len(Words)] == IF i = 0 THEN <<>> ELSE entries[i - 1] \o Entry(i)
  IN [k \in 1 .. BUFF_SIZE |-> 0]
       \o NoKey \o <<NUL>> \o BuffErr \o <<NUL>> \o entries[Len(Words)]

VARIABLES
  pc,
  mem,      \* the memory
  input,    \* what stood in stdin at the start
  stdin,    \* what is left of it
  byte,     \* the byte below the stack that read_char reads into
  r9,       \* read_word: length so far; find_word: the entry
  rdx,      \* the length of the word
  stdout, stderr,
  status,   \* the exit status
  failed    \* whether a read has failed

vars == <<pc, mem, input, stdin, byte, r9, rdx, stdout, stderr, status, failed>>

Init ==
  /\ pc = "skip"
  /\ mem = Data
  /\ input \in Streams
  /\ stdin = input
  /\ byte = 0
  /\ r9 = 0
  /\ rdx = 0
  /\ stdout = <<>> /\ stderr = <<>>
  /\ status = -1
  /\ failed = FALSE

-----------------------------------------------------------------------------
(* read_char and read_word                                                 *)

Blank == {SPACE, TAB, LF}

\* Mistake: the end of the input is not looked at, so the old byte is read.
ReadChar_NoEnd(ch, end) ==
  \/ /\ stdin # <<>>
     /\ ch = Head(stdin) /\ end = (ch = NUL)
     /\ stdin' = Tail(stdin)
     /\ byte' = ch
     /\ UNCHANGED failed
  \/ /\ stdin = <<>>
     /\ ch = byte /\ end = (ch = NUL)
     /\ UNCHANGED <<stdin, byte, failed>>
  \/ /\ ch = byte /\ ~end
     /\ failed' = TRUE
     /\ UNCHANGED <<stdin, byte>>

\* read_char in the outcome (ch, end): rax is ch, and zero if `end`.  A failing
\* read leaves the old byte where it was and a negative number in rax, whose
\* low byte becomes the old byte: it is never taken for the end.
ReadChar(ch, end) ==
  \/ /\ stdin # <<>>
     /\ ch = Head(stdin) /\ end = (ch = NUL)
     /\ stdin' = Tail(stdin)
     /\ byte' = ch
     /\ UNCHANGED failed
  \/ /\ stdin = <<>>
     /\ ch = NUL /\ end
     /\ UNCHANGED <<stdin, byte, failed>>
  \/ /\ ch = byte /\ ~end
     /\ failed' = TRUE
     /\ UNCHANGED <<stdin, byte>>

\* Mistake: the length is compared after two more bytes were written.
Fits_Later(n) == n <= BUFF_SIZE + 1

\* cmp r9, rsi; jg: as many characters as the buffer is long are accepted.
Fits(n) == n <= BUFF_SIZE

\* .write with the result of a read: the byte is stored; zero ends the word.
Write(ch, end) ==
  /\ mem' = [mem EXCEPT ![Buffer + r9] = ch]
  /\ IF end
     THEN pc' = "check_word" /\ rdx' = r9 /\ UNCHANGED r9
     ELSE /\ r9' = r9 + 1
          /\ pc' = IF Fits(r9 + 1) THEN "loop" ELSE "buff_err"
          /\ UNCHANGED rdx

\* .nd_loop: blanks in front of the word are skipped.
Skip ==
  /\ pc = "skip"
  /\ \E ch \in 0 .. 255, end \in BOOLEAN :
       /\ ReadChar(ch, end)
       /\ IF ch \in Blank THEN UNCHANGED <<pc, mem, r9, rdx>> ELSE Write(ch, end)
  /\ UNCHANGED <<input, stdout, stderr, status>>

\* .loop: a blank is turned to zero and ends the word.
Loop ==
  /\ pc = "loop"
  /\ \E ch \in 0 .. 255, end \in BOOLEAN :
       /\ ReadChar(ch, end)
       /\ IF ch \in Blank THEN Write(NUL, TRUE) ELSE Write(ch, end)
  /\ UNCHANGED <<input, stdout, stderr, status>>

-----------------------------------------------------------------------------
(* find_word                                                               *)

CheckWord ==
  /\ pc = "check_word"
  /\ r9' = first
  /\ pc' = "find"
  /\ UNCHANGED <<mem, input, stdin, byte, rdx, stdout, stderr, status, failed>>

\* The entry `entry` is linked to.
Following(entry) == mem[entry]

\* One round: compare the key, follow the link.
Find ==
  /\ pc = "find"
  /\ IF StringEquals(mem, Buffer, r9 + WORD_SIZE)
     THEN pc' = "get_word" /\ UNCHANGED r9
     ELSE /\ r9' = Following(r9)
          /\ pc' = IF Following(r9) = 0 THEN "no_key" ELSE "find"
  /\ UNCHANGED <<mem, input, stdin, byte, rdx, stdout, stderr, status, failed>>

-----------------------------------------------------------------------------
(* The three ends of _start.  print_newline writes to stdout and leaves 1  *)
(* in rdi, which exit takes for the status.                                *)

Finish(out, error) ==
  /\ stdout' = out \o <<LF>>
  /\ stderr' = error
  /\ status' = 1
  /\ pc' = "exited"
  /\ UNCHANGED <<mem, input, stdin, byte, r9, rdx, failed>>

\* Mistake: the terminator of the key is not skipped.
ValueAt_Terminator(entry) == entry + WORD_SIZE + rdx

\* Where the value of the entry starts: behind the key that was read.
ValueAt(entry) == entry + WORD_SIZE + rdx + 1

GetWord == pc = "get_word" /\ Finish(StringAt(mem, ValueAt(r9)), <<>>)

NoKeyEnd == pc = "no_key" /\ Finish(<<>>, StringAt(mem, NoKeyAt))

BuffErrEnd == pc = "buff_err" /\ Finish(<<>>, StringAt(mem, BuffErrAt))

Next == Skip \/ Loop \/ CheckWord \/ Find \/ GetWord \/ NoKeyEnd \/ BuffErrEnd

\* Sequential code runs on, and a read of stdin returns at some time: that some
\* read fails is not taken for granted.
Fairness == WF_vars(Next /\ failed' = failed)

Spec == Init /\ [][Next]_vars /\ Fairness

-----------------------------------------------------------------------------
TypeOK ==
  /\ pc \in {"skip", "loop", "check_word", "find", "get_word", "no_key", "buff_err", "exited"}
  /\ DOMAIN mem = 1 .. Len(Data) /\ \A a \in DOMAIN mem : mem[a] \in Nat
  /\ byte \in 0 .. 255
  /\ rdx \in 0 .. BUFF_SIZE
  /\ pc \in {"skip", "loop"} => r9 \in 0 .. BUFF_SIZE
  /\ pc \in {"find", "get_word"} => \E i \in DOMAIN Words : r9 = EntryAt[i]
  /\ stdout \in Seq(0 .. 255) /\ stderr \in Seq(0 .. 255)
  /\ status \in {-1, 1}

\* The word of the input: behind the blanks, up to a blank, a zero or the end.
Word ==
  LET starts == {k \in 1 .. Len(input) + 1 : \A j \in 1 .. k - 1 : input[j] \in Blank}
      start == CHOOSE k \in starts : \A j \in starts : j <= k
      ends == {k \in start - 1 .. Len(input) :
                 \A j \in start .. k : input[j] \notin Blank \union {NUL}}
      end == CHOOSE k \in ends : \A j \in ends : j <= k
  IN SubSeq(input, start, end)

\* The entries with that key; a later use of colon hides an earlier one.
Matches == {i \in DOMAIN Words : Words[i].key = Word}

\* What the program is for: the value of the newest entry whose key is the word
\* on stdout; the right message on stderr if there is none or if the word is
\* too long.  A word exactly as long as the buffer is looked up, too; if it is not
\* found the message may be any, because its terminator is over the first byte.
LookupCorrect ==
  (pc = "exited" /\ ~failed) =>
    IF Len(Word) > BUFF_SIZE
    THEN stderr = BuffErr /\ stdout = <<LF>>
    ELSE IF Matches = {}
    THEN stdout = <<LF>> /\ (stderr = NoKey \/ Len(Word) = BUFF_SIZE)
    ELSE /\ stderr = <<>>
         /\ \E i \in Matches : /\ stdout = Words[i].value \o <<LF>>
                               /\ \A j \in Matches : j <= i

\* Whatever is read, failing reads included: the words are never touched, nor
\* is any other data but the first byte behind the buffer.
WordsIntact == \A a \in NoKeyAt + 1 .. Len(Data) : mem[a] = Data[a]

\* Every input of finite length gets its answer, unless reading it fails: then
\* blanks may be read for ever.
Answers == <>(pc = "exited" \/ failed)

\* README.md: a string of no more than 255 characters is read into a buffer of
\* 256 bytes, so, if no read fails, the data behind the buffer is never written.
StaysInBuffer == ~failed => \A a \in NoKeyAt .. Len(Data) : mem[a] = Data[a]
=============================================================================
