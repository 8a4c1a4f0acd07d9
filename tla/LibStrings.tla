------------------------------ MODULE LibStrings ----------------------------
(***************************************************************************)
(* The copies, comparisons and searches of uC/LIB's lib_str.c, those that  *)
(* take a bound on the length (the others pass the largest number for it). *)
(* Address 0 is the null pointer and comes after the last address: a       *)
(* string may run into it.  The second part formats and parses numbers.    *)
(***************************************************************************)
EXTENDS Integers, Sequences, FiniteSets, FiniteSetsExt, SequencesExt

CONSTANTS
    CELLS,      \* the last address
    LENMAX,     \* DEF_INT_CPU_U_MAX_VAL
    Letter      \* codes of characters

NUL == 0
Char == Letter \cup {NUL}
Pointer == 0 .. CELLS
Length == 0 .. CELLS + 1 \cup {LENMAX}

ASSUME StringsAssumption == CELLS \in Nat /\ LENMAX > CELLS + 1 /\ Letter \subseteq 1 .. 255

VARIABLE cells      \* the memory

Plus(p, k) == (p + k) % (CELLS + 1)
Ends(m, p, k) == Plus(p, k) = 0 \/ m[Plus(p, k)] = NUL

ASCII_ToLower(c) == IF c \in 65 .. 90 THEN c + 32 ELSE c

Str_Len_N(m, p, n) == Min({k \in 0 .. n : k = n \/ Ends(m, p, k)})

(* The loop of Str_Copy_N and Str_Cat_N.                                   *)
Transcribe(m, dest, src, n) ==
    LET Step(c, i) ==
            IF c.dest = 0 \/ Ends(c.m, c.src, 0) THEN c
            ELSE [m    |-> [c.m EXCEPT ![c.dest] = c.m[c.src]],
                  dest |-> Plus(c.dest, 1), src |-> Plus(c.src, 1), len |-> c.len + 1]
    IN  FoldLeft(Step, [m |-> m, dest |-> dest, src |-> src, len |-> 0], [i \in 1 .. n |-> i])

(* What a call leaves in memory, and what it returns. *)
Str_Copy_N(m, dest, src, n) ==
    LET c == Transcribe(m, dest, src, n)
    IN  IF 0 \in {dest, src} THEN [m |-> m, rtn |-> 0]
        ELSE IF 0 \in {c.dest, c.src} THEN [m |-> c.m, rtn |-> 0]
        ELSE [m |-> IF c.len < n THEN [c.m EXCEPT ![c.dest] = NUL] ELSE c.m, rtn |-> dest]

Str_Cat_N(m, dest, cat, n) ==
    LET end == Plus(dest, Str_Len_N(m, dest, LENMAX))
        c == Transcribe(m, end, cat, n)
    IN  IF 0 \in {dest, cat} THEN [m |-> m, rtn |-> 0]
        ELSE IF n < 1 THEN [m |-> m, rtn |-> dest]
        ELSE IF end = 0 THEN [m |-> m, rtn |-> 0]
        ELSE IF 0 \in {c.dest, c.src} THEN [m |-> c.m, rtn |-> 0]
        ELSE [m |-> [c.m EXCEPT ![c.dest] = NUL], rtn |-> dest]

Str_Char_Replace_N(m, p, srch, replace, n) ==
    IF p = 0 \/ n < 1 THEN [m |-> m, rtn |-> 0]
    ELSE [m   |-> [a \in DOMAIN m |-> IF a \in p .. p + Str_Len_N(m, p, n) - 1 /\ m[a] = srch
                                      THEN replace ELSE m[a]],
          rtn |-> p]

(* The last cell is the end of a string that has reached it, before the    *)
(* length is looked at.                                                    *)
Str_Cmp_N(m, p, q, n) ==
    LET last == CELLS - Max({p, q})
        k == Min({i \in 0 .. Min({n, last}) :
                    i = n \/ i = last \/ m[p + i] # m[q + i] \/ m[p + i] = NUL})
        next1 == Plus(p, k + 1)
        next2 == Plus(q, k + 1)
    IN  IF n < 1 \/ (p = 0 /\ q = 0) THEN 0
        ELSE IF p = 0 THEN -m[q]
        ELSE IF q = 0 THEN m[p]
        ELSE IF k = n THEN 0
        ELSE IF m[p + k] # m[q + k] THEN m[p + k] - m[q + k]
        ELSE IF m[p + k] = NUL \/ (next1 = 0 /\ next2 = 0) THEN 0
        ELSE IF next1 = 0 THEN -m[next2]
        ELSE m[next1]

Str_CmpIgnoreCase_N(m, p, q, n) == Str_Cmp_N([a \in DOMAIN m |-> ASCII_ToLower(m[a])], p, q, n)

Str_Char_N(m, p, n, srch) ==
    LET k == Min({i \in 0 .. n : i = n \/ Ends(m, p, i) \/ m[Plus(p, i)] = srch})
    IN  IF p = 0 \/ n < 1 \/ k >= n \/ Plus(p, k) = 0 THEN 0
        ELSE IF m[p + k] = srch THEN p + k ELSE 0

(* Backwards from the terminator or the last of the n characters. *)
Str_Char_Last_N(m, p, n, srch) ==
    LET len == Str_Len_N(m, p, n - 1)
        k == Max({i \in 0 .. len : i = 0 \/ m[p + i] = srch})
    IN  IF p = 0 \/ n < 1 THEN 0
        ELSE IF Plus(p, len) = 0 THEN 0
        ELSE IF m[p + k] = srch THEN p + k ELSE 0

Str_Str_NShort(m, p, srch, n) ==                                         \* mutant
    LET len == Str_Len_N(m, p, n)
        srch_len == Str_Len_N(m, srch, n)
        ix == Min({i \in 0 .. len - srch_len :
                     i = len - srch_len \/ Str_Cmp_N(m, p + i, srch, srch_len) = 0})
    IN  IF p = 0 \/ srch = 0 \/ n < 1 THEN 0
        ELSE IF srch_len < 1 THEN p
        ELSE IF srch_len > len \/ Plus(p, len) = 0 \/ Plus(srch, srch_len) = 0 THEN 0
        ELSE IF Str_Cmp_N(m, p + ix, srch, srch_len) = 0 THEN p + ix ELSE 0

Str_Str_N(m, p, srch, n) ==
    LET len == Str_Len_N(m, p, n)
        srch_len == Str_Len_N(m, srch, IF n < LENMAX THEN n + 1 ELSE LENMAX)
        ix == Min({i \in 0 .. len - srch_len :
                     i = len - srch_len \/ Str_Cmp_N(m, p + i, srch, srch_len) = 0})
    IN  IF p = 0 \/ srch = 0 \/ n < 1 THEN 0
        ELSE IF srch_len < 1 THEN p
        ELSE IF srch_len > len \/ Plus(p, len) = 0 \/ Plus(srch, srch_len) = 0 THEN 0
        ELSE IF Str_Cmp_N(m, p + ix, srch, srch_len) = 0 THEN p + ix ELSE 0

(* A caller has strings anywhere, and writes others.                       *)
StringsInit == cells = [a \in 1 .. CELLS |-> NUL]

Write == \E a \in 1 .. CELLS, c \in Letter : cells' = [cells EXCEPT ![a] = c]

StringsNext ==
    \/ \E p, q \in Pointer, n \in Length :
          \/ cells' = Str_Copy_N(cells, p, q, n).m
          \/ cells' = Str_Cat_N(cells, p, q, n).m
    \/ \E p \in Pointer, n \in Length, c, d \in Char :
          cells' = Str_Char_Replace_N(cells, p, c, d, n).m
    \/ Write

-----------------------------------------------------------------------------
(* The characters of the string at p, up to n of them. *)
StringAt(m, p, n) ==
    LET run == SubSeq(m, p, Min({CELLS, p + n - 1}))
    IN  SubSeq(run, 1, Min({i \in 0 .. Len(run) : i = Len(run) \/ run[i + 1] = NUL}))
RunsOut(m, p, n) == p + Len(StringAt(m, p, n)) > CELLS

(* Its first n characters, the terminator among them. *)
Among(m, p, n, c) == {a \in p .. Min({CELLS, p + n - 1, p + Len(StringAt(m, p, n))}) : m[a] = c}

Overtakes(m, dest, src, n) == dest \in src + 1 .. src + Len(StringAt(m, src, n))

(* Text t goes to dest, with a terminator if there is room for it.         *)
Puts(m, call, t, dest, terminator) ==
    \A a \in 1 .. CELLS :
        call.m[a] = IF a \in dest .. dest + Len(t) - 1 THEN t[a - dest + 1]
                    ELSE IF a = dest + Len(t) /\ terminator THEN NUL ELSE m[a]

Before(s, t) == \E i \in 1 .. Len(t) :
                   /\ \A j \in 1 .. i - 1 : j <= Len(s) /\ s[j] = t[j]
                   /\ i <= Len(s) => s[i] < t[i]
Sign(i) == IF i < 0 THEN -1 ELSE IF i > 0 THEN 1 ELSE 0
Order(s, t) == IF s = t THEN 0 ELSE IF Before(s, t) THEN -1 ELSE 1

(* The functions that write put a whole text in its place, or as much as   *)
(* fits the bound, and touch nothing else; comparisons order texts as      *)
(* dictionaries do, unless the bound and the memory end with the same      *)
(* character; searches find the first and the last occurrence within the   *)
(* bound.                                                                  *)
TextsAsNamed ==
    Letter \cap Range(cells) # {} =>
    \A p \in 1 .. CELLS, n \in Length :
    LET t == StringAt(cells, p, n)
        Lower(s) == [i \in DOMAIN s |-> ASCII_ToLower(s[i])]
    IN
    /\ \A q \in 1 .. CELLS :
          LET s == StringAt(cells, q, n)
              copy == Str_Copy_N(cells, q, p, n)
              cat == Str_Cat_N(cells, q, p, n)
              end == q + Len(StringAt(cells, q, LENMAX))
              held == {a \in p .. p + Len(t) :
                         \E pattern \in {StringAt(cells, q, LENMAX)} :
                            IsPrefix(pattern, SubSeq(t, a - p + 1, Len(t)))}
          IN  /\ ~Overtakes(cells, q, p, n) =>
                    /\ copy.rtn = IF RunsOut(cells, p, n) \/ q + Len(t) > CELLS THEN 0 ELSE q
                    /\ Puts(cells, copy, t, q,
                            Len(t) < n /\ copy.rtn # 0)
              /\ ~Overtakes(cells, end, p, n) /\ n > 0 /\ end <= CELLS =>
                    /\ cat.rtn = IF RunsOut(cells, p, n) \/ end + Len(t) > CELLS THEN 0 ELSE q
                    /\ Puts(cells, cat, t, end, cat.rtn # 0)
              /\ CELLS \notin {p + n - 1, q + n - 1} =>
                    /\ Sign(Str_Cmp_N(cells, p, q, n)) = Order(t, s)
                    /\ Sign(Str_CmpIgnoreCase_N(cells, p, q, n)) = Order(Lower(t), Lower(s))
              /\ n > 0 /\ ~RunsOut(cells, p, n) /\ ~RunsOut(cells, q, LENMAX) =>
                    Str_Str_N(cells, p, q, n) = IF held = {} THEN 0 ELSE Min(held)
    /\ \A c \in Char :
          LET found == Among(cells, p, n, c)
              replaced == Str_Char_Replace_N(cells, p, c, NUL, n)
          IN  /\ Str_Char_N(cells, p, n, c) = IF found = {} THEN 0 ELSE Min(found)
              /\ n > 0 /\ ~RunsOut(cells, p, n - 1) =>
                    Str_Char_Last_N(cells, p, n, c) = IF found = {} THEN 0 ELSE Max(found)
              /\ n > 0 => \A a \in 1 .. CELLS :
                    replaced.m[a] = IF a \in found THEN NUL ELSE cells[a]

-----------------------------------------------------------------------------
(***************************************************************************)
(* Str_FmtNbr_Int32U and _Int32S, Str_ParseNbr_Int32U and _Int32S of       *)
(* uC/LIB's lib_str.c.  A character that may be a digit is its value, 10   *)
(* and up for a letter of either case; the others are negative.            *)
(***************************************************************************)

CONSTANTS
    MAXU,       \* DEF_INT_32U_MAX_VAL, one less than a power of 2
    MAXDIG,     \* the most digits asked for
    Number,     \* the numbers that are formatted, MAXU and less
    Base,       \* the bases
    Text        \* what is parsed

CHAR_NULL == -1
SPACE == -2
MINUS == -3
PLUS == -4
QUESTION == -5
LETTER_X == 33

VARIABLES
    text,       \* the last string formatted or parsed
    made        \* history: how, or "parse"

numberVars == <<text, made>>

MAXS == MAXU \div 2                               \* DEF_INT_32S_MAX_VAL
Signed(n) == IF n > MAXS THEN n - MAXU - 1 ELSE n
Unsigned(n) == n % (MAXU + 1)

(***************************************************************************)
(* Formatting.  Digits are counted from the right, from 0.                 *)
(***************************************************************************)
DigitsOf(n, base) ==
    LET count[m \in 0 .. MAXU] == IF m < base THEN 1 ELSE 1 + count[m \div base]
    IN  count[n]
Room(n, neg, base) == DigitsOf(n, base) + (IF neg THEN 1 ELSE 0)

FmtValid(n, neg, dig, base, lead) ==
    /\ dig >= 1
    /\ lead \in 1 .. 35 => lead >= base
    /\ dig >= Room(n, neg, base)

(* Str_FmtNbr_Int32.  The sign comes before zeros, and after other leads.  *)
FmtNbr(n, neg, dig, base, lead) ==
    LET width == IF lead = CHAR_NULL THEN Room(n, neg, base) ELSE dig
        signAt == IF lead = 0 THEN width - 1 ELSE DigitsOf(n, base)
        Mark(i) == IF i < DigitsOf(n, base) THEN (n \div base ^ i) % base
                   ELSE IF neg /\ i = signAt THEN MINUS ELSE lead
    IN  IF FmtValid(n, neg, dig, base, lead)
        THEN [i \in 1 .. width |-> Mark(width - i)]
        ELSE [i \in 1 .. dig |-> QUESTION]

FmtNbr_Int32U(n, dig, base, lead) == FmtNbr(n, FALSE, dig, base, lead)
FmtNbr_Int32S(n, dig, base, lead) ==
    FmtNbr(Unsigned(IF n < 0 THEN -n ELSE n), n < 0, dig, base, lead)

(***************************************************************************)
(* Parsing.  Beyond its end a string has its NUL.                          *)
(***************************************************************************)
CharAt(t, i) == IF i \in DOMAIN t THEN t[i] ELSE CHAR_NULL
FirstNot(t, i, S) == Min({j \in i .. Len(t) + 1 : CharAt(t, j) \notin S})

(* After the zeros and the x of the base, and the base if none is given.   *)
Prefix(t, i, base) ==
    LET zero == CharAt(t, i) = 0
        x == zero /\ CharAt(t, i + 1) = LETTER_X
        digits == IF x /\ CharAt(t, i + 2) \in 0 .. 15 THEN i + 2 ELSE i + 1
    IN  CASE zero /\ base = 0 -> IF x THEN [at |-> digits, base |-> 16] ELSE [at |-> i + 1, base |-> 8]
          [] ~zero /\ base = 0 -> [at |-> i, base |-> 10]
          [] zero /\ base = 8 -> [at |-> i + 1, base |-> 8]
          [] zero /\ base = 16 -> [at |-> IF x THEN digits ELSE i + 1, base |-> 16]
          [] OTHER -> [at |-> i, base |-> base]

AppendDigitThreshold(v, d, base) ==                                      \* mutant
    IF v.ovf THEN v
    ELSE [nbr |-> Unsigned(v.nbr * base + d), ovf |-> v.nbr > MAXU \div base]

(* The threshold keeps the product in range and the sum may still wrap.    *)
AppendDigit(v, d, base) ==
    LET nbr == Unsigned(v.nbr * base + d)
    IN  IF v.ovf THEN v
        ELSE IF v.nbr > MAXU \div base THEN [v EXCEPT !.ovf = TRUE]
        ELSE [nbr |-> nbr, ovf |-> nbr < d]

(* Str_ParseNbr_Int32 *)
ParseNbr(t, base, signed) ==
    LET start == FirstNot(t, 1, {SPACE})
        sign == CharAt(t, start)
        from == IF sign = PLUS \/ (sign = MINUS /\ signed) THEN start + 1 ELSE start
        prefix == Prefix(t, from, base)
        end == FirstNot(t, prefix.at, 0 .. prefix.base - 1)
        value[i \in prefix.at - 1 .. end - 1] ==
            IF i < prefix.at THEN [nbr |-> 0, ovf |-> FALSE]
            ELSE AppendDigit(value[i - 1], t[i], prefix.base)
        v == value[end - 1]
    IN  [nbr |-> IF v.ovf THEN MAXU ELSE v.nbr, neg |-> sign = MINUS,
         next |-> IF end = from THEN 1 ELSE end]

ParseNbr_Int32U(t, base) == ParseNbr(t, base, FALSE).nbr
ParseNbr_Int32S(t, base) ==
    LET p == ParseNbr(t, base, TRUE)
    IN  IF p.neg THEN IF p.nbr > MAXS THEN -MAXS - 1 ELSE -p.nbr
        ELSE IF p.nbr > MAXS THEN MAXS ELSE p.nbr

(***************************************************************************)
(* A call of each kind.                                                    *)
(***************************************************************************)
NoString == [op |-> "none"]

NumbersInit == text = <<>> /\ made = NoString

Str_FmtNbr(n, dig, base, lead, signed) ==
    /\ text' = IF signed THEN FmtNbr_Int32S(Signed(n), dig, base, lead)
               ELSE FmtNbr_Int32U(n, dig, base, lead)
    /\ made' = [op |-> "format", n |-> n, dig |-> dig, base |-> base, lead |-> lead,
                signed |-> signed]

Str_ParseNbr(t) == text' = t /\ made' = [op |-> "parse"]

NumbersNext ==
    \/ /\ made = NoString
       /\ \/ \E n \in Number, dig \in 0 .. MAXDIG, base \in Base,
                lead \in {CHAR_NULL, SPACE, 0, 9}, signed \in BOOLEAN :
                Str_FmtNbr(n, dig, base, lead, signed)
          \/ \E t \in Text : Str_ParseNbr(t)
    \/ made # NoString /\ text' = <<>> /\ made' = NoString

-----------------------------------------------------------------------------
Worth(digits, base) ==
    MapThenSumSet(LAMBDA i : digits[i] * base ^ (Len(digits) - i), DOMAIN digits)
Clamp(n) == IF n > MAXS THEN MAXS ELSE IF n < -MAXS - 1 THEN -MAXS - 1 ELSE n

(* A formatted number that has room and a lead that cannot be taken for one*)
(* of its digits parses, whole, as that number, also the least of the      *)
(* signed ones; one that has no room is marks all over.                    *)
FormattedParses ==
    LET value == IF made.signed THEN Signed(made.n) ELSE made.n
        negative == value < 0
        room == made.dig - (IF negative THEN 1 ELSE 0)
        fits == \E k \in 1 .. room : (IF negative THEN -value ELSE value) < made.base ^ k
    IN  IF fits /\ ~(made.lead \in 1 .. made.base - 1)
        THEN made.lead \in {CHAR_NULL, SPACE, 0} =>
               /\ value = IF made.signed THEN ParseNbr_Int32S(text, made.base)
                                         ELSE ParseNbr_Int32U(text, made.base)
               /\ ParseNbr(text, made.base, made.signed).next = Len(text) + 1
        ELSE Len(text) = made.dig /\ \A i \in DOMAIN text : text[i] = QUESTION

(* Parsing reads as many digits as follow one another, and yields what they*)
(* are worth or the nearest number there is.                               *)
ParsesDigits(asked) ==
    LET p == ParseNbr(text, asked, TRUE)
        before == {0} \cup {j \in 1 .. p.next - 1 :
                               text[j] < 0 \/ (text[j] = LETTER_X /\ asked \in {0, 16})}
        digits == SubSeq(text, Max(before) + 1, p.next - 1)
        base == IF asked # 0 THEN asked
                ELSE IF Max(before) # 0 /\ text[Max(before)] = LETTER_X THEN 16
                ELSE IF CharAt(digits, 1) = 0 THEN 8 ELSE 10
        worth == Worth(digits, base)
    IN  /\ p.nbr = (IF worth > MAXU THEN MAXU ELSE worth)
        /\ digits # <<>> => CharAt(text, p.next) \notin 0 .. base - 1
        /\ ParseNbr_Int32S(text, asked) = Clamp(IF p.neg THEN -worth ELSE worth)

(* What is formatted is parsed again, and no run of digits wraps.          *)
NumbersRoundTrip ==
    CASE made.op = "format" -> FormattedParses
      [] made.op = "parse" -> \A base \in Base \cup {0} : ParsesDigits(base)
      [] OTHER -> TRUE
=============================================================================
