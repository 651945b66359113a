----------------------------- MODULE JournalProofs -----------------------------
(***************************************************************************)
(* The journal for any records, any number of writers and any length:      *)
(* its invariants, and that it implements the log its readers rely on.     *)
(***************************************************************************)
EXTENDS Journal, MinLemmas, SequenceTheorems, TLAPS

-----------------------------------------------------------------------------
(***************************************************************************)
(* Sequences.                                                              *)
(***************************************************************************)
\* What Append makes.
LEMMA Appended ==
    ASSUME NEW S, NEW s \in Seq(S), NEW e \in S
    PROVE  /\ Append(s, e) \in Seq(S)
           /\ Len(Append(s, e)) = Len(s) + 1
           /\ Append(s, e) # <<>>
           /\ DOMAIN Append(s, e) = DOMAIN s \cup {Len(s) + 1}
           /\ \A i \in DOMAIN s : Append(s, e)[i] = s[i]
           /\ Append(s, e)[Len(s) + 1] = e
           /\ Append(s, e)[Len(Append(s, e))] = e
OBVIOUS

\* What \o makes.
LEMMA Joined ==
    ASSUME NEW S, NEW s \in Seq(S), NEW t \in Seq(S)
    PROVE  /\ s \o t \in Seq(S)
           /\ Len(s \o t) = Len(s) + Len(t)
           /\ \A i \in 1..Len(s) : (s \o t)[i] = s[i]
           /\ \A i \in 1..Len(t) : (s \o t)[Len(s) + i] = t[i]
<1>1. /\ s \o t \in Seq(S)
      /\ Len(s \o t) = Len(s) + Len(t)
      /\ \A i \in 1..(Len(s) + Len(t)) : (s \o t)[i] = IF i <= Len(s) THEN s[i] ELSE t[i - Len(s)]
  BY ConcatProperties
<1>2. Len(s) \in Nat /\ Len(t) \in Nat
  OBVIOUS
<1>3. \A i \in 1..Len(s) : (s \o t)[i] = s[i]
  BY <1>1, <1>2
<1>4. ASSUME NEW i \in 1..Len(t) PROVE (s \o t)[Len(s) + i] = t[i]
  <2>1. Len(s) + i \in 1..(Len(s) + Len(t)) /\ ~(Len(s) + i <= Len(s)) /\ (Len(s) + i) - Len(s) = i
    BY <1>2
  <2>2. QED
    BY <1>1, <2>1
<1>5. QED
  BY <1>1, <1>3, <1>4

\* What is left of a sequence that is cut.
LEMMA CutOff ==
    ASSUME NEW S, NEW s \in Seq(S), NEW n \in 0..Len(s)
    PROVE  /\ SubSeq(s, 1, n) \in Seq(S)
           /\ Len(SubSeq(s, 1, n)) = n
           /\ \A i \in 1..n : SubSeq(s, 1, n)[i] = s[i]
<1>1. n \in Int /\ 1 \in Int /\ \A i \in 1..n : s[i] \in S
  OBVIOUS
<1>2. /\ SubSeq(s, 1, n) \in Seq(S)
      /\ Len(SubSeq(s, 1, n)) = IF 1 <= n THEN n - 1 + 1 ELSE 0
      /\ \A i \in 1..(n - 1 + 1) : SubSeq(s, 1, n)[i] = s[1 + i - 1]
  BY <1>1, SubSeqProperties
<1>3. QED
  BY <1>2

-----------------------------------------------------------------------------
(***************************************************************************)
(* The texts of objects.                                                   *)
(***************************************************************************)
\* What is between the braces is no brace.
LEMMA MemberTyped ==
    /\ Record \subseteq Member /\ Foreign \in Member
    /\ Member \subseteq Token /\ Brace \subseteq Token
    /\ \A m \in Member : m \notin Brace
BY RecordTyped DEF Member, Brace, Token

LEMMA JsonTyped ==
    ASSUME NEW m \in Member
    PROVE  /\ JsonText(m) \in Seq(Token)
           /\ Len(JsonText(m)) = 3
           /\ JsonText(m)[1] = "open" /\ JsonText(m)[2] = m /\ JsonText(m)[3] = "close"
<1>1. m \in Token /\ "open" \in Token /\ "close" \in Token
  BY MemberTyped DEF Brace
<1>2. QED
  BY <1>1 DEF JsonText

\* The part of an object's text that a torn write leaves.
LEMMA PartTyped ==
    ASSUME NEW m \in Member, NEW cut \in 0..3
    PROVE  LET part == SubSeq(JsonText(m), 1, cut)
           IN  /\ part \in Seq(Token)
               /\ Len(part) = cut
               /\ cut >= 1 => part[1] = "open"
               /\ cut >= 2 => part[2] = m
               /\ cut >= 3 => part[3] = "close"
<1>1. JsonText(m) \in Seq(Token) /\ cut \in 0..Len(JsonText(m))
  BY JsonTyped
<1>2. /\ SubSeq(JsonText(m), 1, cut) \in Seq(Token)
      /\ Len(SubSeq(JsonText(m), 1, cut)) = cut
      /\ \A i \in 1..cut : SubSeq(JsonText(m), 1, cut)[i] = JsonText(m)[i]
  BY <1>1, CutOff
<1>3. QED
  BY <1>2, JsonTyped

\* A text of three tokens is a record's if its tokens are.
LEMMA WholeText ==
    ASSUME NEW line \in Seq(Token)
    PROVE  Whole(line) <=> /\ Len(line) = 3
                           /\ line[1] = "open" /\ line[2] \in Record /\ line[3] = "close"
<1>1. ASSUME Whole(line)
      PROVE  Len(line) = 3 /\ line[1] = "open" /\ line[2] \in Record /\ line[3] = "close"
  BY <1>1 DEF Whole, JsonText
<1>2. ASSUME Len(line) = 3, line[1] = "open", line[2] \in Record, line[3] = "close"
      PROVE  Whole(line)
  <2>1. line = <<line[1], line[2], line[3]>>
    BY <1>2
  <2>2. QED
    BY <1>2, <2>1 DEF Whole, JsonText
<1>3. QED
  BY <1>1, <1>2

\* What any line of records, parts of them and foreign objects looks like,
\* as far as it can matter: no two objects begin in its first two tokens
\* without the second brace being seen.
Shaped(line) ==
    /\ Len(line) >= 1 => line[1] = "open"
    /\ Len(line) >= 2 => line[2] \in Member \cup {"open"}
    /\ Len(line) >= 3 => line[2] = "open" \/ line[3] \in Brace

\* Of such a line, only the text of a single object is one.
LEMMA ShapedObject ==
    ASSUME NEW line \in Seq(Token), Shaped(line), IsObject(line)
    PROVE  Len(line) = 3 /\ line[1] = "open" /\ line[2] \in Member /\ line[3] = "close"
<1>1. /\ Len(line) \in Nat /\ Len(line) >= 2
      /\ line[1] = "open" /\ line[Len(line)] = "close"
      /\ \A i \in 2..(Len(line) - 1) : line[i] \notin Brace
  BY DEF IsObject
<1>2. line[2] \in Member
  <2>1. line[2] # "open"
    <3>1. CASE Len(line) = 2
      BY <1>1, <3>1
    <3>2. CASE Len(line) >= 3
      BY <1>1, <3>2 DEF Brace
    <3>3. QED
      BY <1>1, <3>1, <3>2
  <2>2. QED
    BY <1>1, <2>1 DEF Shaped
<1>3. Len(line) # 2
  <2>1. line[2] # "close"
    BY <1>2, MemberTyped DEF Brace
  <2>2. QED
    BY <1>1, <2>1
<1>4. line[3] \in Brace
  <2>1. line[2] # "open"
    BY <1>2, MemberTyped DEF Brace
  <2>2. Len(line) >= 3 => line[2] = "open" \/ line[3] \in Brace
    BY DEF Shaped
  <2>3. Len(line) >= 3
    <3> DEFINE k == Len(line)
    <3>1. k \in Nat /\ k >= 2 /\ k # 2
      BY <1>1, <1>3
    <3> HIDE DEF k
    <3>2. k >= 3
      BY <3>1
    <3>3. QED
      BY <3>2 DEF k
  <2>4. QED
    BY <2>1, <2>2, <2>3
<1>5. Len(line) = 3
  <2>1. CASE Len(line) >= 4
    <3>1. 3 \in 2..(Len(line) - 1)
      BY <1>1, <2>1
    <3>2. QED
      BY <1>1, <1>4, <3>1
  <2>2. Len(line) >= 4 \/ Len(line) = 2 \/ Len(line) = 3
    <3> DEFINE k == Len(line)
    <3>1. k \in Nat /\ k >= 2
      BY <1>1
    <3> HIDE DEF k
    <3>2. k >= 4 \/ k = 2 \/ k = 3
      BY <3>1
    <3>3. QED
      BY <3>2 DEF k
  <2>3. QED
    BY <1>3, <2>1, <2>2
<1>6. QED
  BY <1>1, <1>2, <1>5

\* A part of an object's text may follow.
LEMMA ShapedJoin ==
    ASSUME NEW line \in Seq(Token), Shaped(line), NEW m \in Member, NEW cut \in 0..3
    PROVE  Shaped(line \o SubSeq(JsonText(m), 1, cut))
<1> DEFINE part == SubSeq(JsonText(m), 1, cut)
           long == line \o part
<1>1. /\ part \in Seq(Token) /\ Len(part) = cut
      /\ cut >= 1 => part[1] = "open"
      /\ cut >= 2 => part[2] = m
      /\ cut >= 3 => part[3] = "close"
  BY PartTyped
<1> HIDE DEF part
<1>2. /\ Len(long) = Len(line) + cut
      /\ \A i \in 1..Len(line) : long[i] = line[i]
      /\ \A i \in 1..cut : long[Len(line) + i] = part[i]
  BY <1>1, Joined
<1> HIDE DEF long
<1>3. Len(line) \in Nat
  OBVIOUS
<1>4. CASE Len(line) = 0
  <2>1. Len(long) = cut /\ \A i \in 1..cut : long[i] = part[i]
    BY <1>2, <1>4
  <2>2. QED
    BY <1>1, <2>1 DEF Shaped, Brace, long, part
<1>5. CASE Len(line) = 1
  <2>1. /\ long[1] = "open"
        /\ Len(long) >= 2 => long[2] = "open"
    BY <1>1, <1>2, <1>5 DEF Shaped
  <2>2. QED
    BY <1>2, <1>5, <2>1 DEF Shaped, long, part
<1>6. CASE Len(line) = 2
  <2>1. /\ long[1] = "open" /\ long[2] \in Member \cup {"open"}
        /\ Len(long) >= 3 => long[3] = "open"
    BY <1>1, <1>2, <1>6 DEF Shaped
  <2>2. QED
    BY <1>2, <1>6, <2>1 DEF Shaped, Brace, long, part
<1>7. CASE Len(line) >= 3
  <2>1. long[1] = line[1] /\ long[2] = line[2] /\ long[3] = line[3]
    BY <1>2, <1>3, <1>7
  <2>2. QED
    BY <1>7, <2>1 DEF Shaped, long, part
<1>8. Len(line) = 0 \/ Len(line) = 1 \/ Len(line) = 2 \/ Len(line) >= 3
  <2> DEFINE k == Len(line)
  <2>1. k \in Nat
    BY <1>3
  <2> HIDE DEF k
  <2>2. k = 0 \/ k = 1 \/ k = 2 \/ k >= 3
    BY <2>1
  <2>3. QED
    BY <2>2 DEF k
<1>9. QED
  BY <1>4, <1>5, <1>6, <1>7, <1>8

\* The text of the whole object is its longest part.
LEMMA WholePart ==
    ASSUME NEW m \in Member
    PROVE  SubSeq(JsonText(m), 1, 3) = JsonText(m)
<1>1. 3 \in 0..3
  OBVIOUS
<1> DEFINE part == SubSeq(JsonText(m), 1, 3)
<1>2. /\ part \in Seq(Token) /\ Len(part) = 3
      /\ part[1] = "open" /\ part[2] = m /\ part[3] = "close"
  BY <1>1, PartTyped
<1> HIDE DEF part
<1>3. part = <<part[1], part[2], part[3]>>
  BY <1>2
<1>4. QED
  BY <1>2, <1>3 DEF JsonText, part

\* And any end of the line may be lost.
LEMMA ShapedCut ==
    ASSUME NEW line \in Seq(Token), Shaped(line), NEW cut \in 0..Len(line)
    PROVE  Shaped(SubSeq(line, 1, cut))
<1>1. /\ Len(SubSeq(line, 1, cut)) = cut
      /\ \A i \in 1..cut : SubSeq(line, 1, cut)[i] = line[i]
  BY CutOff
<1>2. QED
  BY <1>1 DEF Shaped

-----------------------------------------------------------------------------
(***************************************************************************)
(* What load makes of a text.                                              *)
(***************************************************************************)
Text == Seq(Seq(Token))

\* A text without bad lines has exactly one record on each line that is not blank.
LEMMA GoodText ==
    ASSUME NEW ls \in Text, BadLines(ls) = {}
    PROVE  \A i \in DOMAIN ls : ls[i] # <<>> =>
               /\ Len(ls[i]) = 3
               /\ ls[i][1] = "open" /\ ls[i][2] \in Record /\ ls[i][3] = "close"
<1> SUFFICES ASSUME NEW i \in DOMAIN ls, ls[i] # <<>>
             PROVE  /\ Len(ls[i]) = 3
                    /\ ls[i][1] = "open" /\ ls[i][2] \in Record /\ ls[i][3] = "close"
  OBVIOUS
<1>1. Whole(ls[i]) /\ ls[i] \in Seq(Token)
  BY DEF BadLines, Blank, Text
<1>2. QED
  BY <1>1, WholeText

\* The entries of such a text are records, at line numbers of the text.
LEMMA LoadTyped ==
    ASSUME NEW ls \in Text
    PROVE  /\ Load(ls).ok \in BOOLEAN
           /\ Load(ls).ok => /\ BadLines(ls) = {}
                             /\ Load(ls) = Good(Entries(ls))
                             /\ DOMAIN Load(ls).entries = {i \in DOMAIN ls : ls[i] # <<>>}
                             /\ DOMAIN Load(ls).entries \subseteq 1..Len(ls)
                             /\ \A i \in DOMAIN Load(ls).entries :
                                   /\ Load(ls).entries[i] = ls[i][2]
                                   /\ Load(ls).entries[i] \in Record
           /\ ~Load(ls).ok => BadLines(ls) # {} /\ Load(ls) = Bad(Min(BadLines(ls)))
<1>1. DOMAIN ls = 1..Len(ls)
  BY DEF Text
<1>2. CASE BadLines(ls) = {}
  <2>1. Load(ls) = Good(Entries(ls)) /\ Load(ls).ok /\ Load(ls).entries = Entries(ls)
    BY <1>2 DEF Load, Good
  <2>2. DOMAIN Entries(ls) = {i \in DOMAIN ls : ls[i] # <<>>}
    BY DEF Entries, Blank
  <2>3. \A i \in DOMAIN Entries(ls) : Entries(ls)[i] = ls[i][2]
    BY <2>2 DEF Entries, Blank
  <2>4. \A i \in DOMAIN Entries(ls) : ls[i][2] \in Record
    BY <1>2, <2>2, GoodText
  <2>5. QED
    BY <1>1, <1>2, <2>1, <2>2, <2>3, <2>4
<1>3. CASE BadLines(ls) # {}
  BY <1>3 DEF Load, Bad
<1>4. QED
  BY <1>2, <1>3

-----------------------------------------------------------------------------
(***************************************************************************)
(* What a command makes of a view.                                         *)
(***************************************************************************)
\* A view that load can give: its records stand at line numbers.
ViewOK(view) ==
    /\ view.ok \in BOOLEAN
    /\ view.ok => DOMAIN view.entries \subseteq LineNo
    /\ view.ok => \A i \in DOMAIN view.entries : view.entries[i] \in Record

LEMMA LoadViewOK ==
    ASSUME NEW ls \in Text
    PROVE  ViewOK(Load(ls))
<1>1. 1..Len(ls) \subseteq LineNo
  BY DEF LineNo, Text
<1>2. QED
  BY <1>1, LoadTyped DEF ViewOK

\* The view of a file that does not exist.
LEMMA EmptyViewOK == ViewOK(Good(<<>>))
BY DEF ViewOK, Good

\* rollback's match[0] is one of the records it may choose from, and the first.
LEMMA FirstMatch ==
    ASSUME NEW view, ViewOK(view), view.ok, NEW wanted, Matches(view, wanted) # {}
    PROVE  LET first == Min(Matches(view, wanted))
           IN  /\ first \in DOMAIN view.entries
               /\ view.entries[first] \in Record \cap wanted
               /\ \A i \in Matches(view, wanted) : first <= i
<1>1. Matches(view, wanted) \subseteq DOMAIN view.entries /\ Matches(view, wanted) \subseteq Nat
  BY DEF Matches, ViewOK, LineNo
<1>2. /\ Min(Matches(view, wanted)) \in Matches(view, wanted)
      /\ \A i \in Matches(view, wanted) : Min(Matches(view, wanted)) <= i
  BY <1>1, MinProps
<1>3. QED
  BY <1>1, <1>2 DEF Matches, ViewOK

\* What a command answers has the right type, whatever view it was given.
LEMMA OutcomeTyped ==
    ASSUME NEW cmd \in Command, NEW kept, NEW view, ViewOK(view), NEW keyError \in BOOLEAN
    PROVE  LET res == Outcome(cmd, kept, view, keyError)
           IN  /\ res.command = cmd
               /\ res.promised = kept
               /\ res.view = view
               /\ res.exit \in {"ok", "not_found", "raised"}
               /\ res.record \in Record \cup {None}
<1> DEFINE record == Chosen(view, cmd.wanted)
<1>1. record \in Record \cup {None}
  <2>1. CASE view.ok /\ Matches(view, cmd.wanted) # {}
    BY <2>1, FirstMatch DEF Chosen
  <2>2. CASE ~(view.ok /\ Matches(view, cmd.wanted) # {})
    BY <2>2 DEF Chosen
  <2>3. QED
    BY <2>1, <2>2
<1>2. /\ HistoryExit(view, keyError) \in {"ok", "not_found", "raised"}
      /\ RollbackExit(view, record) \in {"ok", "not_found", "raised"}
  BY DEF HistoryExit, RollbackExit
<1> HIDE DEF record
<1>3. QED
  BY <1>1, <1>2 DEF Outcome, record

\* The answer of a command that finds no file.
LEMMA OutcomeOfNothing ==
    ASSUME NEW cmd \in Command, NEW kept
    PROVE  LET res == Outcome(cmd, kept, Good(<<>>), FALSE)
           IN  /\ res.command = cmd
               /\ res.promised = kept
               /\ res.exit \in {"ok", "not_found", "raised"}
               /\ res.record \in Record \cup {None}
<1> DEFINE nothing == Good(<<>>)  keyError == FALSE
<1>1. ViewOK(nothing) /\ keyError \in BOOLEAN
  BY EmptyViewOK
<1> HIDE DEF nothing, keyError
<1>2. LET res == Outcome(cmd, kept, nothing, keyError)
      IN  /\ res.command = cmd
          /\ res.promised = kept
          /\ res.exit \in {"ok", "not_found", "raised"}
          /\ res.record \in Record \cup {None}
  BY <1>1, OutcomeTyped
<1>3. QED
  BY <1>2 DEF nothing, keyError

-----------------------------------------------------------------------------
(***************************************************************************)
(* Types.                                                                  *)
(***************************************************************************)
LEMMA TextTyped ==
    ASSUME TypeOK
    PROVE  TextLines(lines, tail) \in Text
BY DEF TypeOK, TextLines, Text

LEMMA InitTyped == Init => TypeOK
<1> SUFFICES ASSUME Init PROVE TypeOK
  OBVIOUS
<1>1. lines \in Seq(Seq(Token)) /\ tail \in Seq(Token)
  BY DEF Init
<1>2. pending \in [Writer -> Record \cup {None}]
  BY DEF Init
<1>3. QED
  BY <1>1, <1>2 DEF Init, TypeOK

LEMMA MissesFieldTyped == \A ls : MissesField(ls) \in BOOLEAN
BY DEF MissesField

\* What a loss of power leaves of the file is of the same type, and its lines
\* are the first of those there were.
LEMMA LossTyped ==
    ASSUME TypeOK, NEW n \in 0..Len(lines),
           NEW next, next = IF n < Len(lines) THEN lines[n + 1] ELSE tail,
           NEW cut \in 0..Len(next)
    PROVE  /\ next \in Seq(Token)
           /\ SubSeq(lines, 1, n) \in Seq(Seq(Token))
           /\ Len(SubSeq(lines, 1, n)) = n
           /\ \A i \in 1..n : SubSeq(lines, 1, n)[i] = lines[i]
           /\ SubSeq(next, 1, cut) \in Seq(Token)
           /\ Len(SubSeq(next, 1, cut)) = cut
           /\ \A i \in 1..cut : SubSeq(next, 1, cut)[i] = next[i]
<1>1. lines \in Seq(Seq(Token)) /\ tail \in Seq(Token)
  BY DEF TypeOK
<1>2. next \in Seq(Token)
  <2>1. CASE n < Len(lines)
    <3>1. n + 1 \in 1..Len(lines)
      BY <1>1, <2>1
    <3>2. QED
      BY <1>1, <2>1, <3>1
  <2>2. CASE ~(n < Len(lines))
    BY <1>1, <2>2
  <2>3. QED
    BY <2>1, <2>2
<1>3. /\ SubSeq(lines, 1, n) \in Seq(Seq(Token))
      /\ Len(SubSeq(lines, 1, n)) = n
      /\ \A i \in 1..n : SubSeq(lines, 1, n)[i] = lines[i]
  BY <1>1, CutOff
<1>4. QED
  BY <1>2, <1>3, CutOff

LEMMA TypeStep == TypeOK /\ [Next]_vars => TypeOK'
<1> SUFFICES ASSUME TypeOK, [Next]_vars PROVE TypeOK'
  OBVIOUS
<1> USE DEF TypeOK, vars, fileVars, readerVars, Silent
<1>1. ASSUME NEW w \in Writer, NEW r \in Record, OpenAppend(w, r) PROVE TypeOK'
  BY <1>1 DEF OpenAppend
<1>2. ASSUME NEW w \in Writer, WriteLine(w) PROVE TypeOK'
  <2>1. pending[w] \in Record
    BY <1>2 DEF WriteLine
  <2>2. lines' \in Seq(Seq(Token)) /\ tail' \in Seq(Token)
    <3>1. JsonText(pending[w]) \in Seq(Token)
      BY <2>1, MemberTyped, JsonTyped
    <3>2. tail \o JsonText(pending[w]) \in Seq(Token)
      BY <3>1, Joined
    <3>3. QED
      BY <1>2, <3>2 DEF WriteLine
  <2>3. acked' \subseteq LineNo \X Record /\ acked \subseteq acked'
    <3>1. Len(lines) + 1 \in LineNo
      BY DEF LineNo
    <3>2. QED
      BY <1>2, <2>1, <3>1 DEF WriteLine
  <2>4. exists'
    BY <1>2 DEF WriteLine
  <2>5. QED
    BY <1>2, <2>2, <2>3, <2>4 DEF WriteLine
<1>3. ASSUME NEW w \in Writer, TornWrite(w) PROVE TypeOK'
  <2>1. pending[w] \in Member
    BY <1>3, MemberTyped DEF TornWrite
  <2>2. PICK cut \in 0..3 : tail' = tail \o SubSeq(JsonText(pending[w]), 1, cut)
    BY <1>3 DEF TornWrite
  <2>3. SubSeq(JsonText(pending[w]), 1, cut) \in Seq(Token)
    BY <2>1, PartTyped
  <2>4. tail' \in Seq(Token)
    BY <2>2, <2>3, Joined
  <2>5. exists
    BY <1>3 DEF TornWrite
  <2>6. QED
    BY <1>3, <2>4, <2>5 DEF TornWrite
<1>4. CASE AddNewline
  <2>1. lines' \in Seq(Seq(Token)) /\ tail' \in Seq(Token)
    BY <1>4 DEF AddNewline
  <2>2. QED
    BY <1>4, <2>1 DEF AddNewline
<1>5. ASSUME NEW cmd \in Command, BeginLoad(cmd) PROVE TypeOK'
  <2>1. LET res == Outcome(cmd, acked, Good(<<>>), FALSE)
        IN  /\ res.command = cmd
            /\ res.promised = acked
            /\ res.exit \in {"ok", "not_found", "raised"}
            /\ res.record \in Record \cup {None}
    BY OutcomeOfNothing
  <2>2. QED
    BY <1>5, <2>1 DEF BeginLoad
<1>6. CASE FinishLoad
  <2>1. /\ command \in Command
        /\ result' = Outcome(command, promised, View, MissesField(TextLines(lines, tail)))
    BY <1>6 DEF FinishLoad
  <2>2. ViewOK(View)
    BY TextTyped, LoadViewOK DEF View
  <2> HIDE DEF TypeOK
  <2>3. /\ result'.command \in Command
        /\ result'.promised = promised
        /\ result'.exit \in {"ok", "not_found", "raised"}
        /\ result'.record \in Record \cup {None}
    BY <2>1, <2>2, MissesFieldTyped, OutcomeTyped
  <2>4. QED
    BY <1>6, <2>3 DEF FinishLoad, TypeOK
<1>7. CASE ForeignLine
  <2>1. tail \o JsonText(Foreign) \in Seq(Token)
    BY MemberTyped, JsonTyped, Joined
  <2>2. lines' \in Seq(Seq(Token)) /\ tail' \in Seq(Token) /\ exists'
    BY <1>7, <2>1 DEF ForeignLine
  <2>3. QED
    BY <1>7, <2>2 DEF ForeignLine
<1>8. CASE LosePower
  <2>1. PICK n \in 0..Len(lines) :
            LET next == IF n < Len(lines) THEN lines[n + 1] ELSE tail
            IN  /\ lines' = SubSeq(lines, 1, n)
                /\ \E cut \in 0..Len(next) : tail' = SubSeq(next, 1, cut)
    BY <1>8 DEF LosePower
  <2> DEFINE next == IF n < Len(lines) THEN lines[n + 1] ELSE tail
  <2>2. PICK cut \in 0..Len(next) : tail' = SubSeq(next, 1, cut)
    BY <2>1
  <2>3. lines' = SubSeq(lines, 1, n)
    BY <2>1
  <2>4. /\ SubSeq(lines, 1, n) \in Seq(Seq(Token))
        /\ SubSeq(next, 1, cut) \in Seq(Token)
    <3>1. next = IF n < Len(lines) THEN lines[n + 1] ELSE tail
      OBVIOUS
    <3>2. TypeOK
      OBVIOUS
    <3> HIDE DEF next, TypeOK
    <3>3. QED
      BY <3>1, <3>2, LossTyped
  <2> HIDE DEF next
  <2>5. lines' \in Seq(Seq(Token)) /\ tail' \in Seq(Token)
    BY <2>2, <2>3, <2>4
  <2>6. QED
    BY <1>8, <2>5 DEF LosePower
<1>9. CASE UNCHANGED vars
  BY <1>9
<1> HIDE DEF TypeOK, vars
<1>10. ASSUME NEW w \in Writer,
              (\E r \in Record : OpenAppend(w, r)) \/ WriteLine(w) \/ TornWrite(w)
       PROVE  TypeOK'
  BY <1>1, <1>2, <1>3, <1>10
<1>11. Next \/ UNCHANGED vars
  OBVIOUS
<1>12. QED
  BY <1>4, <1>5, <1>6, <1>7, <1>8, <1>9, <1>10, <1>11 DEF Next

(***************************************************************************)
(* Every variable keeps its type, and nothing is in a file that has not    *)
(* been created: whatever the writers, crashes and readers do.             *)
(***************************************************************************)
THEOREM TypeCorrect == Spec => []TypeOK
BY InitTyped, TypeStep, PTL DEF Spec

-----------------------------------------------------------------------------
(***************************************************************************)
(* What readers are promised.                                              *)
(***************************************************************************)
\* An append that returned has its record at the end of the line it was
\* told: later writes go below, and never touch a line that has its newline.
AckedOnLines ==
    \A a \in acked : /\ a[1] \in DOMAIN lines
                     /\ Len(lines[a[1]]) >= 3
                     /\ lines[a[1]][Len(lines[a[1]]) - 1] = a[2]

\* Every line, and what follows the last, is made of parts of objects.
AllShaped == (\A i \in DOMAIN lines : Shaped(lines[i])) /\ Shaped(tail)

\* The inductive invariant.  AckedOnLines is what a command finds of the
\* records it was promised, AllShaped what damage it can trip over.
IInv ==
    /\ TypeOK
    /\ AckedOnLines
    /\ AckedNeverSwallowed
    /\ RollbackFindsAcked
    /\ AllShaped
    /\ TearsAreExplained

\* Once a view shows every promised record, the answer of any command keeps
\* both promises.
LEMMA OutcomeKeepsPromises ==
    ASSUME NEW cmd \in Command, NEW view, ViewOK(view), NEW keyError, NEW kept,
           \A a \in kept : a[1] \in Nat,
           view.ok => \A a \in kept : a[1] \in DOMAIN view.entries /\ view.entries[a[1]] = a[2]
    PROVE  LET res == Outcome(cmd, kept, view, keyError)
           IN  /\ res.view.ok =>
                     \A a \in res.promised : /\ a[1] \in DOMAIN res.view.entries
                                     /\ res.view.entries[a[1]] = a[2]
               /\ res.command.name = "rollback" =>
                     \A a \in res.promised : a[2] \in res.command.wanted =>
                         IF ~res.view.ok THEN res.exit = "raised"
                         ELSE /\ res.exit = IF res.record \in Undoable THEN "ok" ELSE "raised"
                              /\ \E i \in 1..a[1] : /\ i \in DOMAIN res.view.entries
                                                    /\ res.view.entries[i] = res.record
<1> DEFINE res == Outcome(cmd, kept, view, keyError)
<1>1. res.promised = kept /\ res.view = view /\ res.command = cmd /\ res.record = Chosen(view, cmd.wanted)
  BY DEF Outcome
<1>2. ASSUME cmd.name = "rollback", NEW a \in kept, a[2] \in cmd.wanted
      PROVE  IF ~view.ok THEN res.exit = "raised"
             ELSE /\ res.exit = IF res.record \in Undoable THEN "ok" ELSE "raised"
                  /\ \E i \in 1..a[1] : i \in DOMAIN view.entries /\ view.entries[i] = res.record
  <2> DEFINE hits == Matches(view, cmd.wanted)
  <2>1. res.exit = RollbackExit(view, res.record)
    BY <1>1, <1>2 DEF Outcome
  <2>2. CASE ~view.ok
    BY <2>1, <2>2 DEF RollbackExit
  <2>3. CASE view.ok
    <3>1. a[1] \in hits
      BY <1>2, <2>3 DEF Matches
    <3>2. /\ Min(hits) \in DOMAIN view.entries
          /\ view.entries[Min(hits)] \in Record
          /\ Min(hits) <= a[1]
      BY <2>3, <3>1, FirstMatch
    <3>3. Min(hits) \in 1..a[1]
      <4>1. Min(hits) \in LineNo
        BY <2>3, <3>2 DEF ViewOK
      <4>2. QED
        BY <3>2, <4>1 DEF LineNo
    <3>4. res.record = view.entries[Min(hits)]
      BY <1>1, <2>3, <3>1 DEF Chosen
    <3>5. res.record # None
      BY <3>2, <3>4, RecordTyped
    <3>6. res.exit = IF res.record \in Undoable THEN "ok" ELSE "raised"
      BY <2>1, <2>3, <3>5 DEF RollbackExit
    <3>7. QED
      BY <2>3, <3>2, <3>3, <3>4, <3>6
  <2>4. QED
    BY <2>2, <2>3 DEF ViewOK
<1>3. QED
  BY <1>1, <1>2

\* What load shows when it succeeds: every acknowledged record, at its line.
LEMMA ViewShowsAcked ==
    ASSUME TypeOK, AckedOnLines, View.ok
    PROVE  \A a \in acked : a[1] \in DOMAIN View.entries /\ View.entries[a[1]] = a[2]
<1> DEFINE text == TextLines(lines, tail)
<1>1. text \in Text /\ BadLines(text) = {}
  BY TextTyped, LoadTyped DEF View
<1>2. \A i \in DOMAIN lines : i \in DOMAIN text /\ text[i] = lines[i]
  BY DEF TypeOK, TextLines
<1>3. TAKE a \in acked
<1>4. /\ a[1] \in DOMAIN text /\ text[a[1]] # <<>>
      /\ text[a[1]][Len(text[a[1]]) - 1] = a[2]
  BY <1>2 DEF AckedOnLines
<1>5. Len(text[a[1]]) = 3
  BY <1>1, <1>4, GoodText
<1>6. QED
  BY <1>1, <1>4, <1>5, LoadTyped DEF View

LEMMA AckedStep == TypeOK /\ AckedOnLines /\ [Next]_vars => AckedOnLines'
<1> SUFFICES ASSUME TypeOK, AckedOnLines, [Next]_vars PROVE AckedOnLines'
  OBVIOUS
<1>1. ASSUME NEW ls \in Seq(Token), lines' = Append(lines, ls), acked' = acked
      PROVE  AckedOnLines'
  BY <1>1 DEF AckedOnLines, TypeOK
<1>2. ASSUME NEW w \in Writer, WriteLine(w) PROVE AckedOnLines'
  <2>1. pending[w] \in Member /\ tail \in Seq(Token) /\ lines \in Seq(Seq(Token))
    BY <1>2, MemberTyped DEF WriteLine, TypeOK
  <2> DEFINE text == JsonText(pending[w])
             line == tail \o text
  <2>2. /\ text \in Seq(Token) /\ Len(text) = 3 /\ text[2] = pending[w]
    BY <2>1, JsonTyped
  <2> HIDE DEF text
  <2>3. /\ line \in Seq(Token) /\ Len(line) = Len(tail) + 3
        /\ line[Len(tail) + 2] = pending[w]
    <3>1. /\ line \in Seq(Token) /\ Len(line) = Len(tail) + Len(text)
          /\ \A i \in 1..Len(text) : line[Len(tail) + i] = text[i]
      <4>1. tail \in Seq(Token) /\ text \in Seq(Token)
        BY <2>1, <2>2
      <4>2. QED
        BY <4>1, Joined
    <3>2. 2 \in 1..Len(text)
      BY <2>2
    <3>3. QED
      BY <2>2, <3>1, <3>2
  <2>4. lines' = Append(lines, line) /\ acked' = acked \cup {<<Len(lines) + 1, pending[w]>>}
    BY <1>2 DEF WriteLine, text
  <2>5. Len(line) >= 3 /\ line[Len(line) - 1] = pending[w]
    <3>1. Len(tail) \in Nat /\ Len(line) - 1 = Len(tail) + 2
      BY <2>1, <2>3
    <3>2. QED
      BY <2>3, <3>1
  <2> HIDE DEF line
  <2>6. /\ Len(lines) + 1 \in DOMAIN lines'
        /\ lines'[Len(lines) + 1] = line
        /\ \A i \in DOMAIN lines : i \in DOMAIN lines' /\ lines'[i] = lines[i]
    BY <2>1, <2>3, <2>4
  <2>7. QED
    BY <2>4, <2>5, <2>6 DEF AckedOnLines
<1>3. CASE AddNewline
  BY <1>1, <1>3 DEF AddNewline, TypeOK
<1>4. CASE ForeignLine
  <2>1. tail \o JsonText(Foreign) \in Seq(Token)
    BY MemberTyped, JsonTyped, Joined DEF TypeOK
  <2>2. QED
    BY <1>1, <1>4, <2>1 DEF ForeignLine
<1>5. CASE LosePower
  <2>1. PICK n \in 0..Len(lines) : lines' = SubSeq(lines, 1, n)
    BY <1>5 DEF LosePower
  <2>2. Len(lines') = n /\ DOMAIN lines' = 1..n /\ \A i \in 1..n : lines'[i] = lines[i]
    <3>1. lines \in Seq(Seq(Token))
      BY DEF TypeOK
    <3>2. lines' \in Seq(Seq(Token)) /\ Len(lines') = n /\ \A i \in 1..n : lines'[i] = lines[i]
      BY <2>1, <3>1, CutOff
    <3>3. QED
      BY <3>2
  <2>3. \A a \in acked' : a \in acked /\ a[1] <= n /\ a[1] \in Nat \ {0}
    BY <1>5, <2>2 DEF LosePower, TypeOK, LineNo
  <2>4. \A a \in acked' : a[1] \in 1..n
    BY <2>3
  <2>5. QED
    BY <2>2, <2>3, <2>4 DEF AckedOnLines
<1>6. CASE UNCHANGED <<lines, acked>>
  BY <1>6 DEF AckedOnLines
<1>7. QED
  BY <1>2, <1>3, <1>4, <1>5, <1>6 DEF Next, OpenAppend, TornWrite, BeginLoad, FinishLoad, vars, fileVars

LEMMA PromiseStep ==
    IInv /\ [Next]_vars => AckedNeverSwallowed' /\ RollbackFindsAcked'
<1> SUFFICES ASSUME IInv, [Next]_vars
             PROVE  AckedNeverSwallowed' /\ RollbackFindsAcked'
  OBVIOUS
<1>1. CASE UNCHANGED result \/ result' = None
  BY <1>1 DEF IInv, AckedNeverSwallowed, RollbackFindsAcked
<1>2. ASSUME NEW cmd \in Command, BeginLoad(cmd)
      PROVE  AckedNeverSwallowed' /\ RollbackFindsAcked'
  <2>1. CASE exists
    BY <1>1, <1>2, <2>1 DEF BeginLoad
  <2>2. CASE ~exists
    <3>1. result' = Outcome(cmd, acked, Good(<<>>), FALSE) /\ acked = {}
      BY <1>2, <2>2 DEF BeginLoad, IInv, TypeOK, AckedOnLines
    <3>2. result'.promised = {}
      BY <3>1 DEF Outcome
    <3>3. QED
      BY <3>2 DEF AckedNeverSwallowed, RollbackFindsAcked
  <2>3. QED
    BY <2>1, <2>2
<1>3. CASE FinishLoad
  <2>1. /\ command \in Command
        /\ result' = Outcome(command, promised, View, MissesField(TextLines(lines, tail)))
    BY <1>3 DEF FinishLoad, IInv, TypeOK
  <2>2. ViewOK(View)
    BY TextTyped, LoadViewOK DEF View, IInv
  <2>3. View.ok => \A a \in promised : a[1] \in DOMAIN View.entries /\ View.entries[a[1]] = a[2]
    BY ViewShowsAcked DEF IInv, TypeOK
  <2>4. \A a \in promised : a[1] \in Nat
    BY DEF IInv, TypeOK, LineNo
  <2>5. QED
    BY <2>1, <2>2, <2>3, <2>4, OutcomeKeepsPromises DEF AckedNeverSwallowed, RollbackFindsAcked
<1>4. QED
  BY <1>1, <1>2, <1>3
     DEF Next, OpenAppend, WriteLine, TornWrite, LosePower, AddNewline, ForeignLine, Silent, vars

LEMMA ShapedStep == TypeOK /\ AllShaped /\ [Next]_vars => AllShaped'
<1> SUFFICES ASSUME TypeOK, AllShaped, [Next]_vars PROVE AllShaped'
  OBVIOUS
<1>1. /\ lines \in Seq(Seq(Token)) /\ tail \in Seq(Token)
      /\ Shaped(tail) /\ Shaped(<<>>) /\ \A i \in DOMAIN lines : Shaped(lines[i])
  BY DEF TypeOK, AllShaped, Shaped
<1>2. ASSUME NEW line \in Seq(Token), Shaped(line), lines' = Append(lines, line), tail' = <<>>
      PROVE  AllShaped'
  BY <1>1, <1>2, Appended DEF AllShaped
<1>3. ASSUME NEW m \in Member
      PROVE  tail \o JsonText(m) \in Seq(Token) /\ Shaped(tail \o JsonText(m))
  <2>1. 3 \in 0..3
    OBVIOUS
  <2>2. Shaped(tail \o SubSeq(JsonText(m), 1, 3))
    BY <1>1, <2>1, ShapedJoin
  <2>3. QED
    BY <1>1, <2>2, WholePart, JsonTyped, Joined
<1>4. ASSUME NEW w \in Writer, WriteLine(w) PROVE AllShaped'
  <2>1. pending[w] \in Member
    BY <1>4, MemberTyped DEF WriteLine, TypeOK
  <2>2. QED
    BY <1>2, <1>3, <1>4, <2>1 DEF WriteLine
<1>5. ASSUME NEW w \in Writer, TornWrite(w) PROVE AllShaped'
  <2>1. pending[w] \in Member
    BY <1>5, MemberTyped DEF TornWrite, TypeOK
  <2>2. PICK cut \in 0..3 : tail' = tail \o SubSeq(JsonText(pending[w]), 1, cut)
    BY <1>5 DEF TornWrite
  <2>3. Shaped(tail')
    BY <1>1, <2>1, <2>2, ShapedJoin
  <2>4. QED
    BY <1>1, <1>5, <2>3 DEF TornWrite, AllShaped
<1>6. CASE AddNewline
  BY <1>1, <1>2, <1>6 DEF AddNewline
<1>7. CASE ForeignLine
  BY <1>2, <1>3, <1>7, MemberTyped DEF ForeignLine
<1>8. CASE LosePower
  <2>1. PICK n \in 0..Len(lines) :
            LET next == IF n < Len(lines) THEN lines[n + 1] ELSE tail
            IN  /\ lines' = SubSeq(lines, 1, n)
                /\ \E cut \in 0..Len(next) : tail' = SubSeq(next, 1, cut)
    BY <1>8 DEF LosePower
  <2> DEFINE next == IF n < Len(lines) THEN lines[n + 1] ELSE tail
  <2>2. PICK cut \in 0..Len(next) : tail' = SubSeq(next, 1, cut)
    BY <2>1
  <2>3. next \in Seq(Token) /\ Shaped(next)
    <3>1. next \in Seq(Token)
      BY LossTyped
    <3>2. CASE n < Len(lines)
      <4>1. n + 1 \in DOMAIN lines
        BY <1>1, <3>2
      <4>2. QED
        BY <1>1, <3>1, <3>2, <4>1
    <3>3. CASE ~(n < Len(lines))
      BY <1>1, <3>1, <3>3
    <3>4. QED
      BY <3>2, <3>3
  <2> HIDE DEF next
  <2>4. Shaped(tail')
    BY <2>2, <2>3, ShapedCut
  <2>5. /\ lines' \in Seq(Seq(Token)) /\ Len(lines') = n
        /\ \A i \in 1..n : i \in DOMAIN lines /\ lines'[i] = lines[i]
    BY <1>1, <2>1, CutOff
  <2>6. QED
    BY <1>1, <2>4, <2>5 DEF AllShaped
<1>9. CASE UNCHANGED <<lines, tail>>
  BY <1>9 DEF AllShaped
<1>10. QED
  BY <1>4, <1>5, <1>6, <1>7, <1>8, <1>9 DEF Next, OpenAppend, BeginLoad, FinishLoad, vars, fileVars

\* An object that load trips over is foreign: no record was torn into it.
LEMMA MissedFieldIsForeign ==
    ASSUME TypeOK, AllShaped, MissesField(TextLines(lines, tail))
    PROVE  HoldsForeign
<1> DEFINE text == TextLines(lines, tail)
           k    == Min(BadLines(text))
<1>1. text \in Text /\ BadLines(text) \subseteq Nat /\ BadLines(text) # {}
  <2>1. text \in Text
    BY TextTyped
  <2>2. BadLines(text) \subseteq DOMAIN text
    BY DEF BadLines
  <2>3. DOMAIN text = 1..Len(text)
    BY <2>1 DEF Text
  <2>4. QED
    BY <2>1, <2>2, <2>3 DEF MissesField
<1>2. k \in BadLines(text)
  BY <1>1, MinProps
<1>3. /\ k \in DOMAIN text /\ text[k] \in Seq(Token)
      /\ ~Whole(text[k]) /\ IsObject(text[k])
  BY <1>1, <1>2 DEF BadLines, MissesField, Text
<1> HIDE DEF k
<1>4. \/ k \in DOMAIN lines /\ text[k] = lines[k]
      \/ text[k] = tail
  <2>1. CASE tail = <<>>
    BY <1>3, <2>1 DEF TextLines
  <2>2. CASE tail # <<>>
    <3>1. /\ DOMAIN text = DOMAIN lines \cup {Len(lines) + 1}
          /\ \A i \in DOMAIN lines : text[i] = lines[i]
          /\ text[Len(lines) + 1] = tail
      BY <2>2, Appended DEF TypeOK, TextLines
    <3>2. QED
      BY <1>3, <3>1
  <2>3. QED
    BY <2>1, <2>2
<1>5. Shaped(text[k])
  BY <1>4 DEF AllShaped
<1>6. Len(text[k]) = 3 /\ text[k][1] = "open" /\ text[k][2] \in Member /\ text[k][3] = "close"
  BY <1>3, <1>5, ShapedObject
<1>7. text[k][2] = Foreign
  BY <1>3, <1>6, WholeText DEF Member
<1>8. ForeignIn(text[k])
  <2>1. 2 \in DOMAIN text[k]
    BY <1>3, <1>6
  <2>2. QED
    BY <1>7, <2>1 DEF ForeignIn
<1>9. QED
  BY <1>4, <1>8 DEF HoldsForeign

LEMMA TearsStep == IInv /\ [Next]_vars => TearsAreExplained'
<1> SUFFICES ASSUME IInv, [Next]_vars PROVE TearsAreExplained'
  OBVIOUS
<1>1. CASE result' = None
  BY <1>1 DEF TearsAreExplained
<1>2. CASE UNCHANGED vars
  BY <1>2 DEF IInv, TearsAreExplained, HoldsForeign, vars, fileVars
<1>3. ASSUME NEW cmd \in Command, BeginLoad(cmd) PROVE TearsAreExplained'
  BY <1>3 DEF BeginLoad, TearsAreExplained, Outcome, Good, HistoryExit
<1>4. CASE FinishLoad
  <2>1. /\ result' = Outcome(command, promised, View, MissesField(TextLines(lines, tail)))
        /\ lines' = lines /\ tail' = tail
    BY <1>4 DEF FinishLoad, fileVars
  <2>2. CASE MissesField(TextLines(lines, tail))
    <3>1. HoldsForeign
      BY <2>2, MissedFieldIsForeign DEF IInv
    <3>2. HoldsForeign'
      BY <2>1, <3>1 DEF HoldsForeign
    <3>3. QED
      BY <3>2 DEF TearsAreExplained
  <2>3. CASE ~MissesField(TextLines(lines, tail))
    BY <2>1, <2>3 DEF TearsAreExplained, Outcome, HistoryExit
  <2>4. QED
    BY <2>2, <2>3
<1>5. QED
  BY <1>1, <1>2, <1>3, <1>4
     DEF Next, OpenAppend, WriteLine, TornWrite, LosePower, AddNewline, ForeignLine, Silent

LEMMA Inductive == Spec => []IInv
<1>1. Init => IInv
  <2>1. Init => TypeOK
    BY InitTyped
  <2>2. QED
    BY <2>1 DEF Init, IInv, AckedOnLines, AckedNeverSwallowed, RollbackFindsAcked,
                AllShaped, Shaped, TearsAreExplained
<1>2. IInv /\ [Next]_vars => IInv'
  BY TypeStep, AckedStep, PromiseStep, ShapedStep, TearsStep DEF IInv
<1>3. QED
  BY <1>1, <1>2, PTL DEF Spec

(***************************************************************************)
(* However the appends of any number of writers interleave, are cut short  *)
(* by crashes and merge on one line, a command that got records from load  *)
(* got every record acknowledged before it started, each at its line.      *)
(***************************************************************************)
THEOREM AckedNeverSwallowedHolds == Spec => []AckedNeverSwallowed
<1>1. IInv => AckedNeverSwallowed
  BY DEF IInv
<1>2. QED
  BY <1>1, Inductive, PTL

(***************************************************************************)
(* `rollback` with a prefix of an acknowledged transaction's id finds it   *)
(* or an earlier match, and fails only on a damaged journal or a record    *)
(* that cannot be undone.                                                  *)
(***************************************************************************)
THEOREM RollbackFindsAckedHolds == Spec => []RollbackFindsAcked
<1>1. IInv => RollbackFindsAcked
  BY DEF IInv
<1>2. QED
  BY <1>1, Inductive, PTL

(***************************************************************************)
(* No sequence of appends and crashes makes a line that ends `history` in  *)
(* an exception: it takes JSON that something else wrote on its own line.  *)
(***************************************************************************)
THEOREM TearsAreExplainedHolds == Spec => []TearsAreExplained
<1>1. IInv => TearsAreExplained
  BY DEF IInv
<1>2. QED
  BY <1>1, Inductive, PTL

-----------------------------------------------------------------------------
(***************************************************************************)
(* How load's view moves when the text grows.                              *)
(***************************************************************************)
\* One more line: its badness is its own, the lines above keep theirs.
LEMMA AppendBadLines ==
    ASSUME NEW ls \in Text, NEW line \in Seq(Token)
    PROVE  /\ BadLines(Append(ls, line)) =
                 IF Blank(line) \/ Whole(line) THEN BadLines(ls)
                                                ELSE BadLines(ls) \cup {Len(ls) + 1}
           /\ BadLines(ls) \subseteq Nat
           /\ \A i \in BadLines(ls) : i <= Len(ls) + 1
<1>1. /\ DOMAIN Append(ls, line) = DOMAIN ls \cup {Len(ls) + 1}
      /\ \A i \in DOMAIN ls : Append(ls, line)[i] = ls[i]
      /\ Append(ls, line)[Len(ls) + 1] = line
  BY Appended DEF Text
<1>2. DOMAIN ls = 1..Len(ls) /\ Len(ls) \in Nat
  BY DEF Text
<1>3. Len(ls) + 1 \notin DOMAIN ls
  BY <1>2
<1>4. \A i \in DOMAIN ls : i \in BadLines(Append(ls, line)) <=> i \in BadLines(ls)
  BY <1>1 DEF BadLines
<1>5. Len(ls) + 1 \in BadLines(Append(ls, line)) <=> ~(Blank(line) \/ Whole(line))
  BY <1>1 DEF BadLines
<1>6. /\ BadLines(ls) \subseteq DOMAIN ls
      /\ BadLines(Append(ls, line)) \subseteq DOMAIN ls \cup {Len(ls) + 1}
  BY <1>1 DEF BadLines
<1>7. BadLines(Append(ls, line)) =
         IF Blank(line) \/ Whole(line) THEN BadLines(ls) ELSE BadLines(ls) \cup {Len(ls) + 1}
  <2> DEFINE B == BadLines(ls)  C == BadLines(Append(ls, line))
  <2> HIDE DEF B, C
  <2>1. CASE Blank(line) \/ Whole(line)
    <3>1. C = B
      BY <1>4, <1>5, <1>6, <2>1 DEF B, C
    <3>2. QED
      BY <2>1, <3>1 DEF B, C
  <2>2. CASE ~(Blank(line) \/ Whole(line))
    <3>1. C = B \cup {Len(ls) + 1}
      BY <1>4, <1>5, <1>6, <2>2 DEF B, C
    <3>2. QED
      BY <2>2, <3>1 DEF B, C
  <2>3. QED
    BY <2>1, <2>2
<1>8. QED
  BY <1>2, <1>6, <1>7

\* Below a bad line, what is written changes nothing that load says.
LEMMA BadStays ==
    ASSUME NEW ls \in Text, NEW line \in Seq(Token), ~Load(ls).ok
    PROVE  Load(Append(ls, line)) = Load(ls)
<1>1. BadLines(ls) # {} /\ Load(ls) = Bad(Min(BadLines(ls)))
  BY LoadTyped
<1>2. BadLines(Append(ls, line)) # {}
  BY <1>1, AppendBadLines
<1>3. Min(BadLines(Append(ls, line))) = Min(BadLines(ls))
  <2>1. Len(ls) + 1 \in Nat
    BY DEF Text
  <2>2. Min(BadLines(ls) \cup {Len(ls) + 1}) = Min(BadLines(ls))
    BY <1>1, <2>1, AppendBadLines, MinKept
  <2>3. QED
    BY <2>2, AppendBadLines
<1>4. QED
  BY <1>1, <1>2, <1>3 DEF Load

\* A bad line under a good text is the line that load names.
LEMMA BadAppended ==
    ASSUME NEW ls \in Text, Load(ls).ok,
           NEW line \in Seq(Token), ~Blank(line), ~Whole(line)
    PROVE  Load(Append(ls, line)) = Bad(Len(ls) + 1)
<1>1. BadLines(Append(ls, line)) = {Len(ls) + 1}
  BY AppendBadLines, LoadTyped
<1>2. Min({Len(ls) + 1}) = Len(ls) + 1
  BY DEF Min, Text
<1>3. QED
  BY <1>1, <1>2 DEF Load

\* A blank line changes nothing.
LEMMA BlankAppended ==
    ASSUME NEW ls \in Text
    PROVE  Load(Append(ls, <<>>)) = Load(ls)
<1>1. <<>> \in Seq(Token) /\ Blank(<<>>)
  BY DEF Blank
<1>2. CASE ~Load(ls).ok
  BY <1>1, <1>2, BadStays
<1>3. CASE Load(ls).ok
  <2>1. BadLines(Append(ls, <<>>)) = {} /\ Load(ls) = Good(Entries(ls))
    BY <1>1, <1>3, AppendBadLines, LoadTyped
  <2>2. /\ DOMAIN Append(ls, <<>>) = DOMAIN ls \cup {Len(ls) + 1}
        /\ \A i \in DOMAIN ls : Append(ls, <<>>)[i] = ls[i]
        /\ Append(ls, <<>>)[Len(ls) + 1] = <<>>
    BY <1>1, Appended DEF Text
  <2> DEFINE more == Append(ls, <<>>)
  <2> HIDE DEF more
  <2>3. {j \in DOMAIN more : ~Blank(more[j])} = {j \in DOMAIN ls : ~Blank(ls[j])}
    BY <1>1, <2>2 DEF more
  <2>4. \A i \in {j \in DOMAIN ls : ~Blank(ls[j])} : more[i] = ls[i]
    BY <2>2 DEF more
  <2>5. Entries(more) = Entries(ls)
    BY <2>3, <2>4 DEF Entries
  <2>6. QED
    BY <2>1, <2>5 DEF Load, more
<1>4. QED
  BY <1>2, <1>3, LoadTyped

\* A record on a line of its own is added below all the others.
LEMMA RecordAppended ==
    ASSUME NEW ls \in Text, Load(ls).ok, NEW line \in Seq(Token), Whole(line)
    PROVE  LET new == Load(Append(ls, line))
           IN  /\ new = Good(new.entries)
               /\ Log!ExtendedBy(new.entries, Load(ls).entries, Len(ls) + 1)
<1> DEFINE more == Append(ls, line)
<1>1. ~Blank(line) /\ line[2] \in Record
  BY WholeText DEF Blank
<1>2. BadLines(more) = {} /\ Load(ls) = Good(Entries(ls))
  BY <1>1, AppendBadLines, LoadTyped
<1>3. Load(more) = Good(Entries(more)) /\ Load(more).entries = Entries(more)
  BY <1>2 DEF Load, Good
<1>4. /\ DOMAIN more = DOMAIN ls \cup {Len(ls) + 1}
      /\ \A i \in DOMAIN ls : more[i] = ls[i]
      /\ more[Len(ls) + 1] = line
  BY <1>1, Appended DEF Text
<1>5. DOMAIN ls = 1..Len(ls) /\ Len(ls) \in Nat
  BY DEF Text
<1> HIDE DEF more
<1>6. DOMAIN Entries(more) = DOMAIN Entries(ls) \cup {Len(ls) + 1}
  BY <1>1, <1>4 DEF Entries
<1>7. \A i \in DOMAIN Entries(ls) : i < Len(ls) + 1 /\ Entries(more)[i] = Entries(ls)[i]
  BY <1>4, <1>5, <1>6 DEF Entries
<1>8. Entries(more)[Len(ls) + 1] = line[2]
  BY <1>1, <1>4 DEF Entries
<1>9. Load(ls).entries = Entries(ls)
  BY <1>2 DEF Good
<1>10. Len(ls) + 1 \in Log!LineNo
  BY <1>5 DEF Log!LineNo
<1>11. QED
  BY <1>1, <1>2, <1>3, <1>6, <1>7, <1>8, <1>9, <1>10 DEF Log!ExtendedBy, more

-----------------------------------------------------------------------------
(***************************************************************************)
(* What is written to the file, and what the log makes of it.              *)
(***************************************************************************)
\* What may happen to a reader when a line is added to the text he reads.
LEMMA LineAppended ==
    ASSUME NEW ls \in Text, NEW line \in Seq(Token), line # <<>>
    PROVE  LET old == Load(ls)  new == Load(Append(ls, line))
           IN  \/ new = old
               \/ old.ok /\ new = Bad(Len(ls) + 1)
               \/ /\ old.ok
                  /\ new = Good(new.entries)
                  /\ Log!ExtendedBy(new.entries, old.entries, Len(ls) + 1)
<1>1. CASE ~Load(ls).ok
  BY <1>1, BadStays
<1>2. CASE Load(ls).ok /\ Whole(line)
  BY <1>2, RecordAppended
<1>3. CASE Load(ls).ok /\ ~Whole(line)
  BY <1>3, BadAppended DEF Blank
<1>4. QED
  BY <1>1, <1>2, <1>3, LoadTyped

\* What may happen to him when another object begins on the last line, which
\* is not ended yet: whatever it was, it is no record any more.
LEMMA LineLengthened ==
    ASSUME NEW ls \in Text, NEW t \in Seq(Token), t # <<>>,
           NEW part \in Seq(Token), part # <<>>, part[1] = "open"
    PROVE  LET old == Load(Append(ls, t))  new == Load(Append(ls, t \o part))
           IN  new = old \/ (old.ok /\ new = Bad(Len(ls) + 1))
<1> DEFINE longer == t \o part
<1>1. /\ Len(t) \in Nat \ {0} /\ Len(part) \in Nat \ {0}
      /\ longer \in Seq(Token) /\ Len(longer) = Len(t) + Len(part)
      /\ longer[Len(t) + 1] = "open"
  <2>1. Len(t) \in Nat \ {0} /\ Len(part) \in Nat \ {0}
    OBVIOUS
  <2>2. 1 \in 1..Len(part)
    BY <2>1
  <2>3. QED
    BY <2>1, <2>2, Joined
<1> HIDE DEF longer
<1>2. ~Blank(longer) /\ ~Whole(longer) /\ ~Blank(t)
  <2>1. ~Blank(longer) /\ ~Blank(t)
    <3>1. Len(longer) # 0
      BY <1>1
    <3>2. QED
      BY <1>1, <3>1 DEF Blank
  <2>2. ASSUME Whole(longer) PROVE FALSE
    <3>1. Len(longer) = 3 /\ longer[2] \in Record /\ longer[3] = "close"
      BY <1>1, <2>2, WholeText
    <3>2. Len(t) + 1 \in {2, 3}
      BY <1>1, <3>1
    <3>3. longer[2] = "open" \/ longer[3] = "open"
      BY <1>1, <3>2
    <3>4. QED
      BY <3>1, <3>3, RecordTyped
  <2>3. QED
    BY <2>1, <2>2
<1>3. CASE ~Load(ls).ok
  BY <1>1, <1>3, BadStays DEF longer
<1>4. CASE Load(ls).ok
  <2>1. Load(Append(ls, longer)) = Bad(Len(ls) + 1)
    BY <1>1, <1>2, <1>4, BadAppended
  <2>2. CASE Whole(t)
    <3>1. BadLines(Append(ls, t)) = {}
      BY <1>4, <2>2, AppendBadLines, LoadTyped
    <3>2. Load(Append(ls, t)).ok
      BY <3>1 DEF Load, Good
    <3>3. QED
      BY <2>1, <3>2 DEF longer
  <2>3. CASE ~Whole(t)
    BY <1>2, <1>4, <2>1, <2>3, BadAppended DEF longer
  <2>4. QED
    BY <2>2, <2>3
<1>5. QED
  BY <1>3, <1>4, LoadTyped

\* A part of an object more on the tail, with or without a newline after it.
LEMMA PartWritten ==
    ASSUME NEW ls \in Text, NEW t \in Seq(Token),
           NEW part \in Seq(Token), part # <<>>, part[1] = "open"
    PROVE  LET old == Load(TextLines(ls, t))  new == Load(Append(ls, t \o part))
           IN  \/ new = old
               \/ old.ok /\ new = Bad(Len(ls) + 1)
               \/ /\ old.ok
                  /\ new = Good(new.entries)
                  /\ Log!ExtendedBy(new.entries, old.entries, Len(ls) + 1)
<1>1. CASE t = <<>>
  <2>1. t \o part = part
    BY <1>1, ConcatEmptySeq
  <2>2. QED
    BY <1>1, <2>1, LineAppended DEF TextLines
<1>2. CASE t # <<>>
  BY <1>2, LineLengthened DEF TextLines
<1>3. QED
  BY <1>1, <1>2

LEMMA WriteStep ==
    ASSUME TypeOK, ~lost', NEW part \in Seq(Token), part # <<>>, part[1] = "open",
           View' = Load(Append(lines, tail \o part))
    PROVE  Log!Next
<1>1. lines \in Text /\ tail \in Seq(Token)
  BY DEF TypeOK, Text
<1>2. CASE View' = View
  BY <1>2 DEF Log!Next
<1>3. CASE View.ok /\ View' = Bad(Len(lines) + 1)
  <2>1. View'.line = Len(lines) + 1 /\ View' = Log!Bad(View'.line) /\ ~View'.ok
    BY <1>3 DEF Bad, Log!Bad
  <2>2. Len(lines) + 1 \in Log!LineNo
    BY <1>1 DEF Log!LineNo, Text
  <2>3. \A i \in DOMAIN View.entries : i <= Len(lines) + 1
    <3>1. TextLines(lines, tail) \in Text
      BY TextTyped
    <3>2. Len(TextLines(lines, tail)) <= Len(lines) + 1 /\ Len(lines) \in Nat
          /\ Len(TextLines(lines, tail)) \in Nat
      BY <1>1, <3>1 DEF TextLines, Text
    <3>3. DOMAIN View.entries \subseteq 1..Len(TextLines(lines, tail))
      BY <1>3, <3>1, LoadTyped DEF View
    <3>4. QED
      BY <3>2, <3>3
  <2>4. Log!Damage(View, View')
    BY <1>3, <2>1, <2>2, <2>3 DEF Log!Damage
  <2>5. QED
    BY <2>4 DEF Log!Next
<1>4. CASE /\ View.ok
           /\ View' = Good(View'.entries)
           /\ Log!ExtendedBy(View'.entries, View.entries, Len(lines) + 1)
  <2>1. View' = Log!Good(View'.entries) /\ View'.ok
    BY <1>4 DEF Good, Log!Good
  <2>2. Len(lines) + 1 \in DOMAIN View'.entries
    BY <1>4 DEF Log!ExtendedBy
  <2>3. Log!Add(View, View')
    BY <1>4, <2>1, <2>2 DEF Log!Add
  <2>4. QED
    BY <2>3 DEF Log!Next
<1>5. QED
  BY <1>1, <1>2, <1>3, <1>4, PartWritten DEF View

-----------------------------------------------------------------------------
(***************************************************************************)
(* What a loss of power takes, and what the log makes of it.  `less` is    *)
(* what it leaves of the text ls: n lines, and perhaps a part of the next. *)
(***************************************************************************)
LeftOf(less, ls, n) ==
    /\ n <= Len(less) /\ Len(less) <= n + 1 /\ Len(less) <= Len(ls)
    /\ \A i \in 1..n : less[i] = ls[i]

\* The lines that are left whole are as good or bad as they were.
LEMMA LeftLines ==
    ASSUME NEW ls \in Text, NEW less \in Text, NEW n \in Nat, LeftOf(less, ls, n)
    PROVE  /\ DOMAIN less = 1..Len(less) /\ DOMAIN ls = 1..Len(ls)
           /\ Len(less) \in Nat /\ Len(ls) \in Nat
           /\ \A i \in 1..n : i \in DOMAIN less /\ i \in DOMAIN ls
           /\ \A i \in 1..n : i \in BadLines(less) <=> i \in BadLines(ls)
           /\ BadLines(less) \subseteq DOMAIN less /\ BadLines(less) \subseteq Nat \ {0}
           /\ BadLines(ls) \subseteq DOMAIN ls /\ BadLines(ls) \subseteq Nat \ {0}
<1>1. /\ DOMAIN less = 1..Len(less) /\ DOMAIN ls = 1..Len(ls)
      /\ Len(less) \in Nat /\ Len(ls) \in Nat
  BY DEF Text
<1>2. BadLines(less) \subseteq DOMAIN less /\ BadLines(ls) \subseteq DOMAIN ls
  BY DEF BadLines
<1>3. \A i \in 1..n : i \in DOMAIN less /\ i \in DOMAIN ls
  BY <1>1 DEF LeftOf
<1>4. \A i \in 1..n : i \in BadLines(less) <=> i \in BadLines(ls)
  BY <1>3 DEF BadLines, LeftOf
<1>5. QED
  BY <1>1, <1>2, <1>3, <1>4

\* Of a good text, whole lines are left: some of its last records are gone.
LEMMA WholeLinesLeft ==
    ASSUME NEW ls \in Text, NEW less \in Text, NEW n \in Nat, LeftOf(less, ls, n),
           Len(less) = n, Load(ls).ok
    PROVE  Log!Lose(Load(ls), Load(less))
<1>1. BadLines(ls) = {} /\ BadLines(less) = {}
  BY LoadTyped, LeftLines
<1>2. /\ Load(less) = Good(Entries(less)) /\ Load(less).ok
      /\ Load(less).entries = Entries(less) /\ Load(ls).entries = Entries(ls)
  BY <1>1 DEF Load, Good
<1>3. DOMAIN Entries(ls) = {i \in DOMAIN ls : ls[i] # <<>>}
      /\ DOMAIN Entries(less) = {i \in DOMAIN less : less[i] # <<>>}
  BY DEF Entries, Blank
<1>4. DOMAIN less = 1..n /\ \A i \in 1..n : i \in DOMAIN ls /\ less[i] = ls[i]
  BY LeftLines DEF LeftOf
<1>5. DOMAIN Entries(less) \subseteq DOMAIN Entries(ls)
  BY <1>3, <1>4
<1>6. ASSUME NEW i \in DOMAIN Entries(less)
      PROVE  /\ Entries(less)[i] = Entries(ls)[i]
             /\ \A j \in DOMAIN Entries(ls) \ DOMAIN Entries(less) : i < j
  <2>1. i \in 1..n
    BY <1>3, <1>4
  <2>2. Entries(less)[i] = Entries(ls)[i]
    BY <1>3, <1>4, <1>5, <2>1 DEF Entries, Blank
  <2>3. ASSUME NEW j \in DOMAIN Entries(ls) \ DOMAIN Entries(less) PROVE i < j
    <3>1. j \in DOMAIN ls /\ j \notin 1..n /\ DOMAIN ls = 1..Len(ls) /\ Len(ls) \in Nat
      BY <1>3, <1>4, LeftLines
    <3>2. QED
      BY <2>1, <3>1
  <2>4. QED
    BY <2>2, <2>3
<1>7. QED
  BY <1>2, <1>5, <1>6 DEF Log!Lose, Log!UpperPart, Good, Log!Good

\* A part of a record's line is left of the last line: that line is bad.
LEMMA PartLeft ==
    ASSUME NEW ls \in Text, NEW less \in Text, NEW n \in Nat, LeftOf(less, ls, n),
           Len(less) = n + 1, Load(ls).ok,
           less[n + 1] # <<>>, ls[n + 1] # <<>>, ~Whole(less[n + 1])
    PROVE  Log!Cut(Load(ls), Load(less))
<1>1. /\ BadLines(ls) = {} /\ n + 1 \in DOMAIN less /\ n + 1 \in DOMAIN ls
      /\ DOMAIN less = 1..(n + 1)
  BY LoadTyped, LeftLines DEF LeftOf
<1>2. BadLines(less) = {n + 1}
  <2>1. n + 1 \in BadLines(less)
    BY <1>1 DEF BadLines, Blank
  <2>2. \A i \in 1..n : i \notin BadLines(less)
    BY <1>1, LeftLines
  <2>3. BadLines(less) \subseteq 1..(n + 1)
    BY <1>1, LeftLines
  <2>4. QED
    BY <2>1, <2>2, <2>3
<1>3. Min(BadLines(less)) = n + 1
  BY <1>2, MinProps
<1>4. Load(less) = Bad(n + 1)
  BY <1>2, <1>3 DEF Load
<1>5. n + 1 \in DOMAIN Load(ls).entries
  BY <1>1, LoadTyped
<1>6. QED
  BY <1>4, <1>5 DEF Log!Cut, Bad, Log!Bad

\* Of a damaged text, what is left is damaged above, or good and above.
LEMMA DamagedLeft ==
    ASSUME NEW ls \in Text, NEW less \in Text, NEW n \in Nat, LeftOf(less, ls, n),
           ~Load(ls).ok
    PROVE  Log!Lose(Load(ls), Load(less)) \/ Log!Cut(Load(ls), Load(less))
<1> DEFINE k == Min(BadLines(ls))
<1>1. BadLines(ls) # {} /\ Load(ls) = Bad(k) /\ Load(ls).line = k
  BY LoadTyped DEF Bad
<1>2. k \in BadLines(ls) /\ k \in Nat \ {0}
  BY <1>1, LeftLines, MinProps
<1> HIDE DEF k
<1>3. Len(less) <= k \/ k \in BadLines(less)
  <2>1. CASE k <= n
    <3>1. k \in 1..n
      BY <1>2, <2>1
    <3>2. QED
      BY <1>2, <3>1, LeftLines
  <2>2. CASE n + 1 <= k
    <3>1. Len(less) <= n + 1 /\ Len(less) \in Nat
      BY LeftLines DEF LeftOf
    <3>2. QED
      BY <1>2, <2>2, <3>1
  <2>3. QED
    BY <1>2, <2>1, <2>2
<1>4. CASE BadLines(less) = {}
  <2>1. /\ Load(less) = Good(Load(less).entries) /\ Load(less).ok
        /\ DOMAIN Load(less).entries \subseteq 1..Len(less)
        /\ \A i \in DOMAIN Load(less).entries : Load(less).entries[i] \in Record
    <3>1. Load(less).ok
      BY <1>4 DEF Load, Good
    <3>2. QED
      BY <3>1, LoadTyped DEF Good
  <2>2. Len(less) <= k /\ Len(less) \in Nat
    BY <1>3, <1>4, LeftLines
  <2>3. \A i \in DOMAIN Load(less).entries : i \in 1..k
    BY <1>2, <2>1, <2>2
  <2>4. Log!Lose(Load(ls), Load(less))
    BY <1>1, <2>1, <2>3 DEF Log!Lose, Good, Log!Good
  <2>5. QED
    BY <2>4
<1>5. CASE BadLines(less) # {}
  <2> DEFINE j == Min(BadLines(less))
  <2>1. j \in BadLines(less) /\ \A i \in BadLines(less) : j <= i
    BY <1>5, LeftLines, MinProps
  <2>2. Load(less) = Bad(j)
    BY <1>5 DEF Load
  <2> HIDE DEF j
  <2>3. j \in 1..k
    <3>1. j \in Nat \ {0} /\ j <= Len(less) /\ Len(less) \in Nat
      BY <2>1, LeftLines
    <3>2. CASE k \in BadLines(less)
      BY <1>2, <2>1, <3>1, <3>2
    <3>3. CASE Len(less) <= k
      BY <1>2, <3>1, <3>3
    <3>4. QED
      BY <1>3, <3>2, <3>3
  <2>4. Log!Cut(Load(ls), Load(less))
    BY <1>1, <2>2, <2>3 DEF Log!Cut, Bad, Log!Bad
  <2>5. QED
    BY <2>4
<1>6. QED
  BY <1>4, <1>5

\* Any end of a text may be lost, whatever it was.
LEMMA EndLost ==
    ASSUME NEW ls \in Text, NEW less \in Text, NEW n \in Nat, LeftOf(less, ls, n),
           Len(less) = n + 1 =>
               /\ less[n + 1] # <<>> /\ ls[n + 1] # <<>>
               /\ Whole(ls[n + 1]) /\ Whole(less[n + 1]) => less[n + 1] = ls[n + 1]
    PROVE  Log!Lose(Load(ls), Load(less)) \/ Log!Cut(Load(ls), Load(less))
<1>1. CASE ~Load(ls).ok
  BY <1>1, DamagedLeft
<1>2. CASE Load(ls).ok /\ Len(less) = n
  BY <1>2, WholeLinesLeft
<1>3. CASE Load(ls).ok /\ Len(less) = n + 1 /\ ~Whole(less[n + 1])
  BY <1>3, PartLeft
<1>4. CASE Load(ls).ok /\ Len(less) = n + 1 /\ Whole(less[n + 1])
  <2>1. n + 1 \in DOMAIN ls /\ Len(less) <= Len(ls)
    BY <1>4, LeftLines DEF LeftOf
  <2>2. Whole(ls[n + 1])
    BY <1>4, <2>1, LoadTyped DEF BadLines, Blank
  <2>3. less[n + 1] = ls[n + 1]
    BY <1>4, <2>2
  <2>4. LeftOf(less, ls, n + 1)
    <3>1. \A i \in 1..(n + 1) : i \in 1..n \/ i = n + 1
      OBVIOUS
    <3>2. \A i \in 1..(n + 1) : less[i] = ls[i]
      BY <2>3, <3>1 DEF LeftOf
    <3>3. QED
      BY <1>4, <2>1, <3>2 DEF LeftOf
  <2>5. QED
    BY <1>4, <2>4, WholeLinesLeft
<1>5. QED
  <2>1. Len(less) = n \/ Len(less) = n + 1
    BY LeftLines DEF LeftOf
  <2>2. QED
    BY <1>1, <1>2, <1>3, <1>4, <2>1

LEMMA LossStep == TypeOK /\ LosePower => Log!Next
<1> SUFFICES ASSUME TypeOK, LosePower PROVE Log!Next
  OBVIOUS
<1> DEFINE ls   == TextLines(lines, tail)
           less == TextLines(lines', tail')
<1>1. PICK n \in 0..Len(lines) :
          LET next == IF n < Len(lines) THEN lines[n + 1] ELSE tail
          IN  /\ lines' = SubSeq(lines, 1, n)
              /\ \E cut \in 0..Len(next) : tail' = SubSeq(next, 1, cut)
  BY DEF LosePower
<1> DEFINE next == IF n < Len(lines) THEN lines[n + 1] ELSE tail
<1>2. PICK cut \in 0..Len(next) : tail' = SubSeq(next, 1, cut)
  BY <1>1
<1>3. /\ lines \in Seq(Seq(Token)) /\ tail \in Seq(Token) /\ next \in Seq(Token)
      /\ lines' \in Seq(Seq(Token)) /\ Len(lines') = n
      /\ \A i \in 1..n : lines'[i] = lines[i]
      /\ tail' \in Seq(Token) /\ Len(tail') = cut
      /\ \A i \in 1..cut : tail'[i] = next[i]
  <2>1. lines \in Seq(Seq(Token)) /\ tail \in Seq(Token)
    BY DEF TypeOK
  <2>2. /\ next \in Seq(Token)
        /\ SubSeq(lines, 1, n) \in Seq(Seq(Token))
        /\ Len(SubSeq(lines, 1, n)) = n
        /\ \A i \in 1..n : SubSeq(lines, 1, n)[i] = lines[i]
    BY LossTyped
  <2> HIDE DEF next
  <2>3. /\ SubSeq(next, 1, cut) \in Seq(Token)
        /\ Len(SubSeq(next, 1, cut)) = cut
        /\ \A i \in 1..cut : SubSeq(next, 1, cut)[i] = next[i]
    BY <2>2, CutOff
  <2>4. lines' = SubSeq(lines, 1, n) /\ tail' = SubSeq(next, 1, cut)
    BY <1>1, <1>2
  <2>5. QED
    BY <2>1, <2>2, <2>3, <2>4
<1>4. ls \in Text /\ less \in Text
  BY <1>3 DEF TextLines, Text
<1>5. /\ Len(lines) <= Len(ls)
      /\ \A i \in 1..Len(lines) : ls[i] = lines[i]
      /\ tail # <<>> => Len(ls) = Len(lines) + 1 /\ ls[Len(lines) + 1] = tail
  BY <1>3 DEF TextLines
<1>6. /\ n <= Len(less)
      /\ \A i \in 1..n : less[i] = lines[i]
      /\ IF tail' = <<>> THEN Len(less) = n ELSE Len(less) = n + 1 /\ less[n + 1] = tail'
  BY <1>3 DEF TextLines
<1>7. next # <<>> => n + 1 <= Len(ls) /\ ls[n + 1] = next
  <2>1. CASE n < Len(lines)
    <3>1. n + 1 \in 1..Len(lines) /\ Len(ls) \in Nat
      BY <1>3, <1>4, <2>1 DEF Text
    <3>2. next = lines[n + 1]
      BY <2>1
    <3> HIDE DEF next
    <3>3. ls[n + 1] = lines[n + 1]
      BY <1>5, <3>1
    <3>4. n + 1 <= Len(ls)
      BY <1>3, <1>5, <2>1, <3>1
    <3>5. QED
      BY <3>2, <3>3, <3>4
  <2>2. CASE n = Len(lines)
    <3>1. Len(lines) \in Nat
      BY <1>3
    <3>2. next = tail
      BY <2>2, <3>1
    <3> HIDE DEF next
    <3>3. SUFFICES ASSUME tail # <<>> PROVE n + 1 <= Len(ls) /\ ls[n + 1] = next
      BY <3>2
    <3>4. Len(ls) = n + 1 /\ ls[n + 1] = tail
      BY <1>5, <2>2, <3>3
    <3>5. QED
      BY <3>1, <3>2, <3>4, <2>2
  <2>3. QED
    BY <1>3, <2>1, <2>2
<1> HIDE DEF next
<1>8. tail' # <<>> => next # <<>>
  BY <1>2, <1>3
<1> HIDE DEF ls, less
<1>9. LeftOf(less, ls, n)
  <2>1. Len(ls) \in Nat /\ Len(less) \in Nat /\ n \in Nat /\ Len(lines) \in Nat /\ n <= Len(lines)
    BY <1>3, <1>4 DEF Text
  <2>2. \A i \in 1..n : i \in 1..Len(lines)
    BY <2>1
  <2>3. \A i \in 1..n : less[i] = ls[i]
    BY <1>5, <1>6, <2>2
  <2>4. Len(less) <= n + 1 /\ Len(less) <= Len(ls)
    BY <1>5, <1>6, <1>7, <1>8, <2>1
  <2>5. QED
    BY <1>6, <2>3, <2>4 DEF LeftOf
<1>10. ASSUME Len(less) = n + 1
       PROVE  /\ less[n + 1] # <<>> /\ ls[n + 1] # <<>>
              /\ Whole(ls[n + 1]) /\ Whole(less[n + 1]) => less[n + 1] = ls[n + 1]
  <2>1. tail' # <<>> /\ less[n + 1] = tail' /\ next # <<>> /\ ls[n + 1] = next
    BY <1>6, <1>7, <1>8, <1>10
  <2>2. ASSUME Whole(next), Whole(tail') PROVE tail' = next
    <3>1. Len(next) = 3 /\ Len(tail') = 3
      BY <1>3, <2>2, WholeText
    <3>2. tail' = <<tail'[1], tail'[2], tail'[3]>> /\ next = <<next[1], next[2], next[3]>>
      BY <1>3, <3>1
    <3>3. tail'[1] = next[1] /\ tail'[2] = next[2] /\ tail'[3] = next[3]
      BY <1>3, <3>1
    <3>4. QED
      BY <3>2, <3>3
  <2>3. QED
    BY <2>1, <2>2
<1>11. Log!Lose(Load(ls), Load(less)) \/ Log!Cut(Load(ls), Load(less))
  BY <1>3, <1>4, <1>9, <1>10, EndLost
<1>12. View = Load(ls) /\ View' = Load(less)
  BY DEF View, ls, less
<1>13. lost'
  BY DEF LosePower
<1>14. QED
  BY <1>11, <1>12, <1>13 DEF Log!Next

-----------------------------------------------------------------------------
(***************************************************************************)
(* The journal implements the log.                                         *)
(***************************************************************************)
LEMMA RefinementStep == TypeOK /\ [Next]_vars => [Log!Next]_<<View, lost>>
<1> SUFFICES ASSUME TypeOK, [Next]_vars PROVE Log!Next \/ UNCHANGED <<View, lost>>
  OBVIOUS
<1>1. ASSUME NEW w \in Writer, WriteLine(w) PROVE Log!Next
  <2>1. pending[w] \in Member
    BY <1>1, MemberTyped DEF WriteLine, TypeOK
  <2>2. View' = Load(Append(lines, tail \o JsonText(pending[w]))) /\ ~lost'
    BY <1>1 DEF WriteLine, View, TextLines, Silent
  <2>3. QED
    <3>1. /\ JsonText(pending[w]) \in Seq(Token) /\ JsonText(pending[w])[1] = "open"
          /\ JsonText(pending[w]) # <<>>
      BY <2>1, JsonTyped
    <3>2. QED
      BY <2>2, <3>1, WriteStep
<1>2. ASSUME NEW w \in Writer, TornWrite(w) PROVE Log!Next
  <2>1. pending[w] \in Member
    BY <1>2, MemberTyped DEF TornWrite, TypeOK
  <2>2. PICK cut \in 0..3 : tail' = tail \o SubSeq(JsonText(pending[w]), 1, cut)
    BY <1>2 DEF TornWrite
  <2> DEFINE part == SubSeq(JsonText(pending[w]), 1, cut)
  <2>3. /\ lines' = lines /\ tail \in Seq(Token) /\ ~lost'
        /\ part \in Seq(Token) /\ Len(part) = cut
        /\ cut >= 1 => part[1] = "open"
    BY <1>2, <2>1, PartTyped DEF TornWrite, TypeOK, Silent
  <2>4. tail' = tail \o part
    BY <2>2
  <2> HIDE DEF part
  <2>5. CASE cut = 0
    <3>1. part = <<>>
      BY <2>3, <2>5
    <3>2. tail' = tail
      BY <2>3, <2>4, <3>1, ConcatEmptySeq
    <3>3. View' = View
      BY <2>3, <3>2 DEF View
    <3>4. QED
      BY <2>3, <3>3 DEF Log!Next
  <2>6. CASE cut >= 1
    <3>1. part # <<>> /\ part[1] = "open"
      BY <2>3, <2>6
    <3>2. tail' # <<>>
      BY <2>3, <2>4, <3>1, ConcatEqualIffEmpty
    <3>3. View' = Load(Append(lines, tail \o part))
      BY <2>3, <2>4, <3>2 DEF View, TextLines
    <3>4. QED
      BY <2>3, <3>1, <3>3, WriteStep
  <2>7. QED
    BY <2>5, <2>6
<1>3. CASE AddNewline
  <2>1. lines' = Append(lines, tail) /\ tail' = <<>> /\ lines \in Text /\ ~lost'
    BY <1>3 DEF AddNewline, TypeOK, Text, Silent
  <2>2. View' = Load(Append(lines, tail))
    BY <2>1 DEF View, TextLines
  <2>3. View' = View
    <3>1. CASE tail = <<>>
      BY <2>1, <2>2, <3>1, BlankAppended DEF View, TextLines
    <3>2. CASE tail # <<>>
      BY <2>2, <3>2 DEF View, TextLines
    <3>3. QED
      BY <3>1, <3>2
  <2>4. QED
    BY <2>1, <2>3 DEF Log!Next
<1>4. CASE ForeignLine
  <2>1. View' = Load(Append(lines, tail \o JsonText(Foreign))) /\ ~lost'
    BY <1>4 DEF ForeignLine, View, TextLines, Silent
  <2>2. /\ JsonText(Foreign) \in Seq(Token) /\ JsonText(Foreign)[1] = "open"
        /\ JsonText(Foreign) # <<>>
    BY MemberTyped, JsonTyped
  <2>3. QED
    BY <2>1, <2>2, WriteStep
<1>5. CASE LosePower
  BY <1>5, LossStep
<1>6. CASE UNCHANGED <<lines, tail>> /\ ~lost'
  BY <1>6 DEF View, Log!Next
<1>7. CASE UNCHANGED vars
  BY <1>7 DEF View, vars, fileVars
<1>8. QED
  BY <1>1, <1>2, <1>3, <1>4, <1>5, <1>6, <1>7
     DEF Next, OpenAppend, BeginLoad, FinishLoad, fileVars, Silent

LEMMA RefinementInit == Init => Log!Init
<1> SUFFICES ASSUME Init PROVE View = Log!Good(<<>>)
  BY DEF Init, Log!Init
<1>1. TextLines(lines, tail) = <<>>
  BY DEF Init, TextLines
<1>2. BadLines(<<>>) = {} /\ Entries(<<>>) = <<>>
  BY DEF BadLines, Entries
<1>3. QED
  BY <1>1, <1>2 DEF View, Load, Good, Log!Good

(***************************************************************************)
(* Whatever writers and crashes do to the file, its readers see the log of *)
(* TransactionLog: records are added below all others or damage appears    *)
(* below them, and once load names a bad line it names that line for good. *)
(***************************************************************************)
THEOREM JournalImplementsLog == Spec => ImplementsLog
<1>1. TypeOK /\ [Next]_vars => [Log!Next]_<<View, lost>>
  BY RefinementStep
<1>2. QED
  BY <1>1, RefinementInit, TypeCorrect, PTL DEF Spec, ImplementsLog, Log!Spec
=============================================================================
