---------------------------- MODULE ShellProofs ----------------------------
(***************************************************************************)
(* Theorems about Shell, for any tasks, any sizes of the queue and of its  *)
(* elements, and whatever the host types and does.                         *)
(***************************************************************************)
EXTENDS Shell, SequenceTheorems, WellFoundedInduction, TLAPS

USE ShellAssumption
USE DEF host, screen, history

-----------------------------------------------------------------------------
(* What the terminal task has still to do for an element ends with the     *)
(* five sends of display_prompt; the place in todo, counted from its end,  *)
(* tells where the cursor is and what the top row shows.                   *)

Characters == {"a", "r", "del", "cr", "lf"}
Elements == [from : {"host"}, chars : Seq(Characters)]
               \cup [from : Senders, part : Nat, ends : BOOLEAN]
Strings == [part : Nat, parts : Nat, ends : BOOLEAN]
Doings == [do : Shows \ {"show"}]
             \cup [do : {"take"}, char : Characters]
             \cup [do : {"show"}, from : Senders, part : Nat, ends : BOOLEAN]

Types ==
    /\ queue \in Seq(Elements) /\ Len(queue) <= QueueSize
    /\ sending \in [Senders -> Seq(Strings)]
    /\ todo \in Seq(Doings)
    /\ line \in Seq(Characters)
    /\ cursor \in Cursors
    /\ shown \in [Senders -> Nat]

Left == Len(todo)

\* What is left to do: the rest of display_prompt behind what comes before it.
TodoInv ==
    \A i \in 1..Left :
        IF Left - i < 5 THEN todo[i] = DisplayPrompt[5 - (Left - i)]
        ELSE /\ todo[i].do \in {"restore", "take", "show"}
             /\ todo[i].do = "restore" => i = 1
             /\ todo[i].do = "show" => Left - i = 5

ScreenInv ==
    /\ endShown /\ Left # 5 => cursor.saved = "below"
    /\ endShown /\ Left > 3 => todo[1].do = "restore" \/ cursor.at = "below"
    /\ drawn =>
          /\ Left \in 1..3 => cursor.at = "top"
          /\ Left = 2 => top = <<>>
          /\ Left = 1 => top = <<">">>
          /\ Left = 0 => cursor.at = "top" /\ top = <<">">> \o line

PromptInv == Types /\ TodoInv /\ ScreenInv

-----------------------------------------------------------------------------
(* The parts of the messages of a task t on their way to the screen, by    *)
(* place: 0 is the one the terminal task holds or has shown last, then     *)
(* come those in the queue q, and behind it the one of s, the strings the  *)
(* task has still to send, that is next.                                   *)

Held(t) ==
    IF Left > 5 /\ todo[Left - 5].do = "show" /\ todo[Left - 5].from = t
    THEN todo[Left - 5].part ELSE shown[t]

Has(t, q, s, i) ==
    \/ i = 0
    \/ i \in 1..Len(q) /\ q[i].from = t
    \/ i = Len(q) + 1 /\ s # <<>>
PartAt(held, q, s, i) ==
    IF i = 0 THEN held
    ELSE IF i \in 1..Len(q) THEN q[i].part ELSE Head(s).part

\* Each part is the first of a message or follows the one before it.
InOrder(t, held, q, s) ==
    \A i, j \in 0..(Len(q) + 1) :
        /\ i < j /\ Has(t, q, s, i) /\ Has(t, q, s, j)
        /\ \A k \in 0..(Len(q) + 1) : i < k /\ k < j => ~Has(t, q, s, k)
        => PartAt(held, q, s, j) \in {1, PartAt(held, q, s, i) + 1}

\* Messages that have not been begun are to be sent from the first part.
Unbegun(s) == \A i \in 2..Len(s) : s[i].part = 1

PartsInv ==
    \A t \in Senders :
        /\ InOrder(t, Held(t), queue, sending[t])
        /\ Unbegun(sending[t])
        /\ Held(t) \in {shown[t], 1, shown[t] + 1}
-----------------------------------------------------------------------------
(* What the operators return.                                              *)

\* The elements of two sequences put one behind the other.
LEMMA JoinFacts ==
    ASSUME NEW S, NEW s \in Seq(S), NEW t \in Seq(S)
    PROVE  /\ s \o t \in Seq(S) /\ Len(s \o t) = Len(s) + Len(t)
           /\ Len(s) \in Nat /\ Len(t) \in Nat
           /\ \A i \in 1..Len(s) : (s \o t)[i] = s[i]
           /\ \A i \in 1..Len(t) : (s \o t)[Len(s) + i] = t[i]
<1>1. /\ s \o t \in Seq(S) /\ Len(s \o t) = Len(s) + Len(t)
      /\ Len(s) \in Nat /\ Len(t) \in Nat
      /\ \A i \in 1..(Len(s) + Len(t)) :
            (s \o t)[i] = IF i <= Len(s) THEN s[i] ELSE t[i - Len(s)]
  BY ConcatProperties, LenProperties
<1>2. ASSUME NEW i \in 1..Len(t) PROVE (s \o t)[Len(s) + i] = t[i]
  <2>1. PICK k \in 1..(Len(s) + Len(t)) : k = Len(s) + i
    BY <1>1
  <2>2. k > Len(s) /\ k - Len(s) = i
    BY <1>1, <2>1
  <2> QED BY <1>1, <2>1, <2>2
<1>3. \A i \in 1..Len(s) : (s \o t)[i] = s[i]
  BY <1>1
<1> QED BY <1>1, <1>2, <1>3

\* Elements and doings, as their tags say.
LEMMA TagFacts ==
    /\ "host" \notin Senders
    /\ \A e \in Elements :
          \/ e.from = "host" /\ e.chars \in Seq(Characters)
          \/ /\ e.from \in Senders /\ e.part \in Nat /\ e.from # "host"
             /\ e.ends \in BOOLEAN
    /\ \A d \in Doings :
          /\ d.do \in Shows \cup {"take"}
          /\ d.do = "take" => d.char \in Characters
          /\ d.do = "show" => /\ d.from \in Senders /\ d.part \in Nat
                              /\ d.ends \in BOOLEAN
<1>1. "host" \notin Senders
  BY DEF Senders
<1>2. "take" \notin Shows
  BY DEF Shows
<1>3. \A e \in Elements :
          \/ e.from = "host" /\ e.chars \in Seq(Characters)
          \/ /\ e.from \in Senders /\ e.part \in Nat /\ e.from # "host"
             /\ e.ends \in BOOLEAN
  BY <1>1 DEF Elements
<1>4. \A d \in Doings :
          /\ d.do \in Shows \cup {"take"}
          /\ d.do = "take" => d.char \in Characters
          /\ d.do = "show" => /\ d.from \in Senders /\ d.part \in Nat
                              /\ d.ends \in BOOLEAN
  BY <1>2 DEF Doings, Shows
<1> QED BY <1>1, <1>3, <1>4

\* What display_prompt sends.
LEMMA DisplayPromptIs ==
    /\ DisplayPrompt \in Seq(Doings) /\ Len(DisplayPrompt) = 5
    /\ DisplayPrompt[1].do = "save" /\ DisplayPrompt[2].do = "home"
    /\ DisplayPrompt[3].do = "erase" /\ DisplayPrompt[4].do = "prompt"
    /\ DisplayPrompt[5].do = "line"
<1>1. \A what \in Shows \ {"show"} : Do(what) \in Doings
  BY DEF Do, Doings
<1>2. DisplayPrompt = <<Do("save"), Do("home"), Do("erase"), Do("prompt"),
                        Do("line")>>
  BY DEF DisplayPrompt
<1>3. {"save", "home", "erase", "prompt", "line"} \subseteq Shows \ {"show"}
  BY DEF Shows
<1> QED BY <1>1, <1>2, <1>3 DEF Do

\* What an element makes the terminal task do: it restores the cursor, takes
\* the characters or shows the part, and displays the prompt.
LEMMA WorkIs ==
    ASSUME NEW element \in Elements
    PROVE  /\ Work(element) \in Seq(Doings)
           /\ Work(element)[1].do = "restore"
           /\ \A i \in 1..5 :
                 Work(element)[Len(Work(element)) - 5 + i] = DisplayPrompt[i]
           /\ element.from = "host" =>
                 /\ Len(Work(element)) = Len(element.chars) + 6
                 /\ \A i \in 1..Len(element.chars) :
                       Work(element)[1 + i]
                          = [do |-> "take", char |-> element.chars[i]]
           /\ element.from # "host" =>
                 /\ Len(Work(element)) = 7
                 /\ Work(element)[2] = [do |-> "show", from |-> element.from,
                                        part |-> element.part,
                                        ends |-> element.ends]
<1> DEFINE middle ==
             IF element.from = "host"
             THEN [k \in DOMAIN element.chars |->
                      [do |-> "take", char |-> element.chars[k]]]
             ELSE <<[do |-> "show", from |-> element.from,
                     part |-> element.part, ends |-> element.ends]>>
           begun == ClearPrompt \o middle
<1>1. Work(element) = begun \o DisplayPrompt
  BY DEF Work
<1>2. ClearPrompt \in Seq(Doings) /\ Len(ClearPrompt) = 1
      /\ ClearPrompt[1].do = "restore"
  BY DEF ClearPrompt, Do, Doings, Shows
<1>3. /\ middle \in Seq(Doings)
      /\ element.from = "host" =>
            /\ Len(middle) = Len(element.chars)
            /\ \A i \in 1..Len(element.chars) :
                  middle[i] = [do |-> "take", char |-> element.chars[i]]
      /\ element.from # "host" =>
            /\ Len(middle) = 1
            /\ middle[1] = [do |-> "show", from |-> element.from,
                            part |-> element.part, ends |-> element.ends]
  <2>1. CASE element.from = "host"
    <3>1. element.chars \in Seq(Characters)
      BY <2>1, TagFacts
    <3>2. \A k \in 1..Len(element.chars) : element.chars[k] \in Characters
      BY <3>1
    <3>3. \A c \in Characters : [do |-> "take", char |-> c] \in Doings
      BY DEF Doings
    <3> QED BY <2>1, <3>1, <3>2, <3>3
  <2>2. CASE element.from # "host"
    <3>1. [do |-> "show", from |-> element.from, part |-> element.part,
           ends |-> element.ends] \in Doings
      BY <2>2, TagFacts DEF Doings
    <3> QED BY <2>2, <3>1
  <2> QED BY <2>1, <2>2
<1>4. Len(middle) \in Nat
  BY <1>3
<1> HIDE DEF middle
<1>5. /\ begun \in Seq(Doings) /\ Len(begun) = 1 + Len(middle)
      /\ begun[1] = ClearPrompt[1]
      /\ \A i \in 1..Len(middle) : begun[1 + i] = middle[i]
  <2>1. /\ begun \in Seq(Doings)
        /\ Len(begun) = Len(ClearPrompt) + Len(middle)
        /\ \A i \in 1..Len(ClearPrompt) : begun[i] = ClearPrompt[i]
        /\ \A i \in 1..Len(middle) : begun[Len(ClearPrompt) + i] = middle[i]
    <3>1. ClearPrompt \in Seq(Doings) /\ middle \in Seq(Doings)
      BY <1>2, <1>3
    <3>2. \A p, q \in Seq(Doings) :
             /\ p \o q \in Seq(Doings) /\ Len(p \o q) = Len(p) + Len(q)
             /\ \A i \in 1..Len(p) : (p \o q)[i] = p[i]
             /\ \A i \in 1..Len(q) : (p \o q)[Len(p) + i] = q[i]
      BY JoinFacts
    <3> QED BY <3>1, <3>2, Zenon
  <2> HIDE DEF begun
  <2> QED BY <1>2, <1>4, <2>1
<1> HIDE DEF begun
<1>6. /\ Work(element) \in Seq(Doings)
      /\ Len(Work(element)) = Len(begun) + 5
      /\ \A i \in 1..Len(begun) : Work(element)[i] = begun[i]
      /\ \A i \in 1..5 : Work(element)[Len(begun) + i] = DisplayPrompt[i]
  <2>1. DisplayPrompt \in Seq(Doings) /\ Len(DisplayPrompt) = 5
    BY DisplayPromptIs
  <2>2. /\ begun \o DisplayPrompt \in Seq(Doings)
        /\ Len(begun \o DisplayPrompt) = Len(begun) + Len(DisplayPrompt)
        /\ \A i \in 1..Len(begun) : (begun \o DisplayPrompt)[i] = begun[i]
        /\ \A i \in 1..Len(DisplayPrompt) :
              (begun \o DisplayPrompt)[Len(begun) + i] = DisplayPrompt[i]
    <3>1. begun \in Seq(Doings) /\ DisplayPrompt \in Seq(Doings)
      BY <1>5, <2>1
    <3> QED BY <3>1, JoinFacts
  <2> QED BY <1>1, <2>1, <2>2, Zenon
<1>7. \A i \in 1..5 :
         Work(element)[Len(Work(element)) - 5 + i] = DisplayPrompt[i]
  <2>1. PICK n \in Nat : n = Len(begun)
    BY <1>4, <1>5
  <2>2. Len(Work(element)) - 5 = n
    BY <1>6, <2>1
  <2>3. \A i \in 1..5 : Work(element)[n + i] = DisplayPrompt[i]
    BY <1>6, <2>1, Zenon
  <2> QED BY <2>2, <2>3, Zenon
<1>8. /\ Work(element)[1].do = "restore"
      /\ \A i \in 1..Len(middle) : Work(element)[1 + i] = middle[i]
  <2>1. 1 \in 1..Len(begun)
        /\ \A i \in 1..Len(middle) : 1 + i \in 1..Len(begun)
    BY <1>4, <1>5
  <2> QED BY <1>2, <1>5, <1>6, <2>1
<1>9. Len(Work(element)) = Len(middle) + 6
  BY <1>4, <1>5, <1>6
<1>10. element.from = "host" =>
          /\ Len(Work(element)) = Len(element.chars) + 6
          /\ \A i \in 1..Len(element.chars) :
                Work(element)[1 + i] = [do |-> "take",
                                        char |-> element.chars[i]]
  BY <1>3, <1>8, <1>9
<1>11. element.from # "host" =>
          /\ Len(Work(element)) = 7
          /\ Work(element)[2] = [do |-> "show", from |-> element.from,
                                 part |-> element.part,
                                 ends |-> element.ends]
  <2>1. 1 + 1 = 2 /\ 1 \in 1..1
    OBVIOUS
  <2> QED BY <1>3, <1>8, <1>9, <2>1
<1> QED BY <1>6, <1>7, <1>8, <1>10, <1>11, Zenon

\* The interrupt appends elements of characters, as many as find room.
LEMMA ReceiveIs ==
    ASSUME Types, NEW chars \in Seq(Characters), NEW long,
           Receive(chars, long)
    PROVE  \E more \in Seq(Elements) :
              /\ queue' = queue \o more
              /\ Len(queue) + Len(more) <= QueueSize
              /\ \A k \in 1..Len(more) : more[k].from = "host"
<1> DEFINE chunks == Chunks(chars)
           room == QueueSize - Len(queue)
           taken == IF Len(chunks) <= room THEN Len(chunks) ELSE room
           more == [k \in 1..taken |-> [from |-> "host", chars |-> chunks[k]]]
<1>1. Len(queue) \in Nat /\ room \in Nat /\ Len(chars) \in Nat
  BY DEF Types
<1>2. chunks \in Seq(Seq(Characters))
  <2> DEFINE count == (Len(chars) + ChunkSize - 1) \div ChunkSize
  <2>1. count \in Nat
    <3>1. \A n \in Nat, d \in Nat \ {0} : (n + d - 1) \div d \in Nat
      OBVIOUS
    <3>2. ChunkSize \in Nat \ {0}
      OBVIOUS
    <3> QED BY <1>1, <3>1, <3>2, Zenon
  <2>2. \A k \in 1..count :
           SubSeq(chars, (k - 1) * ChunkSize + 1,
                  IF k * ChunkSize < Len(chars) THEN k * ChunkSize
                  ELSE Len(chars)) \in Seq(Characters)
    <3> SUFFICES ASSUME NEW k \in 1..count
                 PROVE  SubSeq(chars, (k - 1) * ChunkSize + 1,
                               IF k * ChunkSize < Len(chars) THEN k * ChunkSize
                               ELSE Len(chars)) \in Seq(Characters)
      OBVIOUS
    <3> DEFINE first == (k - 1) * ChunkSize + 1
               last == IF k * ChunkSize < Len(chars) THEN k * ChunkSize
                       ELSE Len(chars)
    <3>1. k \in Nat /\ k - 1 \in Nat /\ ChunkSize \in Nat
      BY <2>1
    <3>2. (k - 1) * ChunkSize \in Nat /\ k * ChunkSize \in Nat
      <4>1. \A a, b \in Nat : a * b \in Nat
        OBVIOUS
      <4> QED BY <3>1, <4>1, Zenon
    <3>3. first \in Nat /\ first >= 1 /\ last \in Nat /\ last <= Len(chars)
      <4>1. PICK a \in Nat, b \in Nat, l \in Nat :
               /\ a = (k - 1) * ChunkSize /\ b = k * ChunkSize
               /\ l = Len(chars)
        BY <1>1, <3>2, Zenon
      <4>2. first = a + 1 /\ last = IF b < l THEN b ELSE l
        BY <4>1, Zenon
      <4> HIDE DEF first, last
      <4>3. Len(chars) = l /\ l \in Nat /\ a \in Nat /\ b \in Nat
        BY <4>1
      <4> QED BY <4>2, <4>3
    <3> HIDE DEF first, last
    <3>4. SubSeq(chars, first, last) \in Seq(Characters)
      BY <1>1, <3>3, SubSeqProperties
    <3> QED BY <3>4 DEF first, last
  <2> DEFINE piece(k) ==
               SubSeq(chars, (k - 1) * ChunkSize + 1,
                      IF k * ChunkSize < Len(chars) THEN k * ChunkSize
                      ELSE Len(chars))
  <2>3. chunks = [k \in 1..count |-> piece(k)]
    BY DEF Chunks
  <2>4. \A k \in 1..count : piece(k) \in Seq(Characters)
    BY <2>2
  <2> HIDE DEF count, piece, chunks
  <2> QED BY <2>1, <2>3, <2>4
<1> HIDE DEF chunks
<1>3. taken \in Nat /\ taken <= room /\ taken <= Len(chunks)
  BY <1>1, <1>2
<1>4. \A k \in 1..taken : [from |-> "host", chars |-> chunks[k]] \in Elements
  <2>1. \A k \in 1..taken : chunks[k] \in Seq(Characters)
    BY <1>2, <1>3
  <2> QED BY <2>1 DEF Elements
<1>5. queue' = queue \o more
  BY DEF Receive, chunks
<1> HIDE DEF taken
<1>6. more \in Seq(Elements) /\ Len(more) = taken
      /\ \A k \in 1..taken : more[k].from = "host"
  BY <1>3, <1>4
<1> HIDE DEF more
<1>7. Len(queue) + Len(more) <= QueueSize
  BY <1>1, <1>3, <1>6
<1> QED BY <1>5, <1>6, <1>7

\* A string that is sent part by part leaves strings to send.
LEMMA SendPartIs ==
    ASSUME Types, NEW t \in Senders, SendPart(t)
    PROVE  /\ sending' \in [Senders -> Seq(Strings)]
           /\ \A u \in Senders : u # t => sending'[u] = sending[u]
           /\ Head(sending[t]) \in Strings /\ Head(sending[t]).part \in Nat
           /\ \/ /\ queue' = queue /\ sending'[t] = Tail(sending[t])
              \/ /\ Len(queue) < QueueSize
                 /\ queue' = Append(queue, Piece(t, Head(sending[t])))
                 /\ \/ sending'[t] = Tail(sending[t])
                    \/ /\ Len(sending'[t]) = Len(sending[t])
                       /\ Head(sending'[t]).part = Head(sending[t]).part + 1
                       /\ \A i \in 2..Len(sending[t]) :
                             sending'[t][i] = sending[t][i]
<1> DEFINE string == Head(sending[t])
           next == [string EXCEPT !.part = @ + 1]
<1>1. /\ sending[t] \in Seq(Strings) /\ sending[t] # <<>>
      /\ sending \in [Senders -> Seq(Strings)]
  BY DEF Types, SendPart
<1>2. string \in Strings /\ Tail(sending[t]) \in Seq(Strings)
  BY <1>1
<1>3. next \in Strings /\ next.part = string.part + 1 /\ string.part \in Nat
  <2> HIDE DEF string
  <2>1. PICK p \in Nat, q \in Nat, b \in BOOLEAN :
           string = [part |-> p, parts |-> q, ends |-> b]
    BY <1>2 DEF Strings
  <2>2. next = [part |-> p + 1, parts |-> q, ends |-> b]
    BY <2>1
  <2> QED BY <2>1, <2>2 DEF Strings
<1>4. \/ sending' = [sending EXCEPT ![t] = Tail(@)]
      \/ /\ Len(queue) < QueueSize
         /\ sending' = [sending EXCEPT ![t] = <<next>> \o Tail(@)]
  BY DEF SendPart
<1>5. queue' = IF Len(queue) < QueueSize
               THEN Append(queue, Piece(t, string))
               ELSE queue
  BY DEF SendPart
<1>6. CASE sending' = [sending EXCEPT ![t] = Tail(@)]
  <2>1. sending'[t] = Tail(sending[t])
    BY <1>1, <1>6
  <2> HIDE DEF string, next
  <2>2. sending' \in [Senders -> Seq(Strings)]
        /\ \A u \in Senders : u # t => sending'[u] = sending[u]
    BY <1>1, <1>2, <1>6
  <2> QED BY <1>2, <1>3, <1>5, <2>1, <2>2 DEF string
<1>7. CASE /\ Len(queue) < QueueSize
           /\ sending' = [sending EXCEPT ![t] = <<next>> \o Tail(@)]
  <2> HIDE DEF next
  <2>1. /\ <<next>> \o Tail(sending[t]) \in Seq(Strings)
        /\ Len(<<next>> \o Tail(sending[t])) = Len(sending[t])
        /\ Head(<<next>> \o Tail(sending[t])) = next
        /\ \A i \in 2..Len(sending[t]) :
              (<<next>> \o Tail(sending[t]))[i] = sending[t][i]
    BY <1>1, <1>2, <1>3
  <2>2. sending'[t] = <<next>> \o Tail(sending[t])
    BY <1>1, <1>7
  <2>3. sending' \in [Senders -> Seq(Strings)]
        /\ \A u \in Senders : u # t => sending'[u] = sending[u]
    BY <1>1, <1>7, <2>1
  <2> QED BY <1>2, <1>3, <1>5, <1>7, <2>1, <2>2, <2>3 DEF string
<1> QED BY <1>4, <1>6, <1>7

\* The element that is sent for a string is its next part.
LEMMA PieceIs ==
    ASSUME NEW t \in Senders, NEW string \in Strings
    PROVE  /\ Piece(t, string) \in Elements
           /\ Piece(t, string).from = t
           /\ Piece(t, string).part = string.part
BY DEF Piece, Elements, Strings

-----------------------------------------------------------------------------
(* The prompt.                                                             *)

\* The terminal task does one thing after the other.
LEMMA TailIs ==
    ASSUME NEW S, NEW s \in Seq(S), s # <<>>
    PROVE  /\ Len(s) \in Nat \ {0} /\ Head(s) = s[1] /\ s[1] \in S
           /\ Tail(s) \in Seq(S) /\ Len(Tail(s)) = Len(s) - 1
           /\ \A i \in 1..(Len(s) - 1) : Tail(s)[i] = s[i + 1]
OBVIOUS

\* What the strings of a callback are: each is to be sent from its first part.
LEMMA CallbackIs ==
    ASSUME NEW command \in Seq(Characters), NEW strings \in Callback(command)
    PROVE  /\ strings \in Seq(Strings)
           /\ \A i \in 1..Len(strings) : strings[i].part = 1
<1> DEFINE Whole == {s \in Strings : s.part = 1}
           count == (Len(command) + ChunkSize - 1) \div ChunkSize
<1>1. /\ String(1, FALSE) \in Whole /\ String(1, TRUE) \in Whole
      /\ Message \in Whole
  BY DEF String, Strings, Message
<1>2. PICK logs \in Logs(command) :
         strings = <<String(1, FALSE)>> \o Echo(command)
                      \o <<String(1, TRUE)>> \o logs
  BY DEF Callback
<1>3. logs \in Seq(Whole)
  <2> HIDE DEF Whole
  <2>1. logs \in {<<>>, <<Message>>, <<Message, Message>>}
    BY <1>2 DEF Logs
  <2>2. <<>> \in Seq(Whole)
    OBVIOUS
  <2>3. \A s \in Whole : <<s>> \in Seq(Whole) /\ <<s, s>> \in Seq(Whole)
    OBVIOUS
  <2> QED BY <1>1, <2>1, <2>2, <2>3
<1>4. Echo(command) \in Seq(Whole)
  <2>1. count \in Nat
    <3>1. PICK l \in Nat : l = Len(command)
      OBVIOUS
    <3>2. \A n \in Nat, d \in Nat \ {0} : (n + d - 1) \div d \in Nat
      OBVIOUS
    <3>3. ChunkSize \in Nat \ {0}
      OBVIOUS
    <3> QED BY <3>1, <3>2, <3>3, Zenon
  <2> HIDE DEF count
  <2>2. String(count, FALSE) \in Whole
    BY <2>1 DEF String, Strings
  <2>3. Echo(command) \in {<<>>, <<String(count, FALSE)>>}
    BY DEF Echo, count
  <2> HIDE DEF Whole
  <2>4. <<>> \in Seq(Whole) /\ \A s \in Whole : <<s>> \in Seq(Whole)
    OBVIOUS
  <2> QED BY <2>2, <2>3, <2>4, Zenon
<1>5. strings \in Seq(Whole)
  <2> HIDE DEF Whole
  <2>0. \A s \in Whole : <<s>> \in Seq(Whole)
    OBVIOUS
  <2>1. <<String(1, FALSE)>> \in Seq(Whole) /\ <<String(1, TRUE)>> \in Seq(Whole)
    BY <1>1, <2>0, Zenon
  <2>2. <<String(1, FALSE)>> \o Echo(command) \in Seq(Whole)
    BY <1>4, <2>1, ConcatProperties, Zenon
  <2>3. <<String(1, FALSE)>> \o Echo(command) \o <<String(1, TRUE)>>
           \in Seq(Whole)
    BY <2>1, <2>2, ConcatProperties, Zenon
  <2>4. <<String(1, FALSE)>> \o Echo(command) \o <<String(1, TRUE)>> \o logs
           \in Seq(Whole)
    BY <1>3, <2>3, ConcatProperties, Zenon
  <2> QED BY <1>2, <2>4, Zenon
<1>6. \A i \in 1..Len(strings) : strings[i] \in Strings /\ strings[i].part = 1
  BY <1>5
<1>7. strings \in Seq(Strings)
  <2>1. Len(strings) \in Nat /\ strings = [i \in 1..Len(strings) |-> strings[i]]
    <3> HIDE DEF Whole
    <3> QED BY <1>5
  <2> QED BY <1>6, <2>1
<1> QED BY <1>6, <1>7

\* Taking one thing off what is left leaves the rest of display_prompt behind
\* what comes before it.
LEMMA TodoAdvances ==
    ASSUME Types, TodoInv, todo # <<>>, todo' = Tail(todo)
    PROVE  /\ TodoInv' /\ todo' \in Seq(Doings)
           /\ Left \in Nat \ {0} /\ Left' = Left - 1
           /\ \A i \in 1..Left' : todo'[i] = todo[i + 1]
<1>1. todo \in Seq(Doings)
  BY DEF Types
<1>2. PICK n \in Nat \ {0} : n = Left
  BY <1>1, TailIs DEF Left
<1>3. /\ todo' \in Seq(Doings) /\ Left' = n - 1
      /\ \A i \in 1..(n - 1) : todo'[i] = todo[i + 1]
  BY <1>1, <1>2, TailIs DEF Left
<1>4. ASSUME NEW i \in 1..(n - 1)
      PROVE  IF n - 1 - i < 5 THEN todo'[i] = DisplayPrompt[5 - (n - 1 - i)]
             ELSE /\ todo'[i].do \in {"restore", "take", "show"}
                  /\ todo'[i].do = "restore" => i = 1
                  /\ todo'[i].do = "show" => n - 1 - i = 5
  <2>1. PICK k \in 2..n : k = i + 1
    OBVIOUS
  <2>2. n - 1 - i = n - k
    BY <2>1
  <2>3. IF n - k < 5 THEN todo[k] = DisplayPrompt[5 - (n - k)]
        ELSE /\ todo[k].do \in {"restore", "take", "show"}
             /\ todo[k].do = "restore" => k = 1
             /\ todo[k].do = "show" => n - k = 5
    BY <1>2 DEF TodoInv
  <2>4. todo'[i] = todo[k]
    BY <1>3, <2>1
  <2>5. CASE n - k < 5
    <3>1. n - 1 - i < 5
      BY <2>2, <2>5
    <3>2. todo'[i] = DisplayPrompt[5 - (n - 1 - i)]
      BY <2>2, <2>3, <2>4, <2>5
    <3> QED BY <3>1, <3>2
  <2>6. CASE ~(n - k < 5)
    <3>1. ~(n - 1 - i < 5)
      BY <2>2, <2>6
    <3>2. /\ todo'[i].do \in {"restore", "take", "show"}
          /\ todo'[i].do # "restore"
          /\ todo'[i].do = "show" => n - 1 - i = 5
      <4>1. /\ todo[k].do \in {"restore", "take", "show"}
            /\ todo[k].do = "restore" => k = 1
            /\ todo[k].do = "show" => n - k = 5
        BY <2>3, <2>6, Zenon
      <4>2. k # 1
        OBVIOUS
      <4> QED BY <2>2, <2>4, <4>1, <4>2, Zenon
    <3> QED BY <3>1, <3>2
  <2> QED BY <2>5, <2>6
<1>5. TodoInv'
  BY <1>3, <1>4 DEF TodoInv
<1> QED BY <1>2, <1>3, <1>5

\* What the terminal task does first, by what it has left to do.
LEMMA HeadIs ==
    ASSUME Types, TodoInv, todo # <<>>
    PROVE  /\ Left \in Nat \ {0} /\ Head(todo) = todo[1] /\ todo[1] \in Doings
           /\ Left > 5 => /\ todo[1].do \in {"restore", "take", "show"}
                          /\ todo[1].do = "show" => Left = 6
           /\ Left = 5 => todo[1].do = "save"
           /\ Left = 4 => todo[1].do = "home"
           /\ Left = 3 => todo[1].do = "erase"
           /\ Left = 2 => todo[1].do = "prompt"
           /\ Left = 1 => todo[1].do = "line"
<1>1. todo \in Seq(Doings)
  BY DEF Types
<1>2. PICK n \in Nat \ {0} : n = Left
  BY <1>1, TailIs DEF Left
<1>3. Head(todo) = todo[1] /\ todo[1] \in Doings
  BY <1>1, TailIs
<1>4. IF n - 1 < 5 THEN todo[1] = DisplayPrompt[5 - (n - 1)]
      ELSE /\ todo[1].do \in {"restore", "take", "show"}
           /\ todo[1].do = "show" => n - 1 = 5
  <2>1. 1 \in 1..n
    OBVIOUS
  <2> QED BY <1>2, <2>1 DEF TodoInv
<1>5. /\ n > 5 => /\ todo[1].do \in {"restore", "take", "show"}
                  /\ todo[1].do = "show" => n = 6
      /\ n = 5 => todo[1] = DisplayPrompt[1]
      /\ n = 4 => todo[1] = DisplayPrompt[2]
      /\ n = 3 => todo[1] = DisplayPrompt[3]
      /\ n = 2 => todo[1] = DisplayPrompt[4]
      /\ n = 1 => todo[1] = DisplayPrompt[5]
  BY <1>4
<1> QED BY <1>2, <1>3, <1>5, DisplayPromptIs

\* Init.
LEMMA PromptInit == Init => PromptInv
<1> SUFFICES ASSUME Init PROVE PromptInv
  OBVIOUS
<1>1. Types
  BY DEF Init, Types
<1>2. Left = 0
  BY DEF Init, Left
<1> QED BY <1>1, <1>2 DEF Init, PromptInv, TodoInv, ScreenInv

\* What leaves the terminal task and its screen alone.
LEMMA PromptKept ==
    ASSUME PromptInv, Types',
           UNCHANGED <<todo, line, cursor, top, drawn, endShown>>
    PROVE  PromptInv'
<1>1. TodoInv'
  BY DEF PromptInv, TodoInv, Left
<1>2. ScreenInv'
  BY DEF PromptInv, ScreenInv, Left
<1> QED BY <1>1, <1>2 DEF PromptInv

\* Logger::log.
LEMMA LogTypes ==
    ASSUME Types, NEW t \in Tasks, Log(t)
    PROVE  Types'
<1>1. <<Message>> \in Seq(Strings)
  BY DEF Message, String, Strings
<1>2. sending' \in [Senders -> Seq(Strings)]
  BY <1>1 DEF Log, Types
<1> QED BY <1>2 DEF Log, Types

\* send_str.
LEMMA SendPartTypes ==
    ASSUME Types, NEW t \in Senders, SendPart(t)
    PROVE  Types'
<1>1. /\ sending' \in [Senders -> Seq(Strings)]
      /\ \/ queue' = queue
         \/ /\ Len(queue) < QueueSize
            /\ queue' = Append(queue, Piece(t, Head(sending[t])))
      /\ Head(sending[t]) \in Strings
  BY SendPartIs
<1>2. queue' \in Seq(Elements) /\ Len(queue') <= QueueSize
  <2>1. Piece(t, Head(sending[t])) \in Elements
    BY <1>1, PieceIs
  <2>2. queue \in Seq(Elements) /\ Len(queue) <= QueueSize
    BY DEF Types
  <2>3. \A e \in Elements : /\ Append(queue, e) \in Seq(Elements)
                            /\ Len(Append(queue, e)) = Len(queue) + 1
    BY <2>2
  <2>4. Len(queue) < QueueSize => Len(queue) + 1 <= QueueSize
    BY <2>2
  <2> QED BY <1>1, <2>1, <2>2, <2>3, <2>4
<1> QED BY <1>1, <1>2 DEF SendPart, Types

\* xQueueReceive and what the terminal task makes of the element.
LEMMA ReceiveElementPrompt ==
    ASSUME PromptInv, ReceiveElement
    PROVE  PromptInv'
<1>1. queue \in Seq(Elements) /\ queue # <<>> /\ Len(queue) <= QueueSize
  BY DEF PromptInv, Types, ReceiveElement
<1>2. PICK e \in Elements : e = Head(queue)
  BY <1>1
<1>3. todo' = Work(e)
  BY <1>2 DEF ReceiveElement
<1>4. queue' \in Seq(Elements) /\ Len(queue') <= QueueSize
  BY <1>1 DEF ReceiveElement
<1>w. /\ Work(e) \in Seq(Doings)
      /\ Work(e)[1].do = "restore"
      /\ \A i \in 1..5 :
            Work(e)[Len(Work(e)) - 5 + i] = DisplayPrompt[i]
      /\ e.from = "host" =>
            /\ Len(Work(e)) = Len(e.chars) + 6
            /\ \A i \in 1..Len(e.chars) :
                  Work(e)[1 + i] = [do |-> "take", char |-> e.chars[i]]
      /\ e.from # "host" =>
            /\ Len(Work(e)) = 7
            /\ Work(e)[2] = [do |-> "show", from |-> e.from,
                             part |-> e.part, ends |-> e.ends]
  BY WorkIs, Zenon
<1>5. Types'
  BY <1>3, <1>4, <1>w DEF PromptInv, Types, ReceiveElement
<1>6. PICK n \in Nat : /\ Len(Work(e)) = n + 6
                       /\ e.from = "host" => n = Len(e.chars)
                       /\ e.from # "host" => n = 1
  <2>1. CASE e.from = "host"
    <3>1. e.chars \in Seq(Characters)
      BY <2>1, TagFacts
    <3>2. Len(e.chars) \in Nat /\ Len(Work(e)) = Len(e.chars) + 6
      <4>1. Len(e.chars) \in Nat
        BY <3>1
      <4>2. Len(Work(e)) = Len(e.chars) + 6
        BY <2>1, <1>w, Zenon
      <4> QED BY <4>1, <4>2, Zenon
    <3>3. PICK m \in Nat : m = Len(e.chars)
      BY <3>2, Zenon
    <3> QED BY <2>1, <3>2, <3>3
  <2>2. CASE e.from # "host"
    <3>1. Len(Work(e)) = 1 + 6
      BY <2>2, <1>w
    <3> QED BY <2>2, <3>1
  <2> QED BY <2>1, <2>2
<1>7. \A i \in 1..n :
         /\ Work(e)[1 + i].do \in {"take", "show"}
         /\ Work(e)[1 + i].do = "show" => n = 1
  <2>1. CASE e.from = "host"
    <3>1. \A i \in 1..n :
             Work(e)[1 + i] = [do |-> "take", char |-> e.chars[i]]
      BY <1>6, <1>w, <2>1, Zenon
    <3>2. ASSUME NEW i \in 1..n PROVE Work(e)[1 + i].do = "take"
      <4> DEFINE d == Work(e)[1 + i]
      <4>1. d = [do |-> "take", char |-> e.chars[i]]
        BY <3>1
      <4> HIDE DEF d
      <4>2. d.do = "take"
        BY <4>1
      <4> QED BY <4>2 DEF d
    <3> QED BY <3>2, Zenon
  <2>2. CASE e.from # "host"
    <3>1. n = 1
      BY <1>6, <2>2
    <3>2. Work(e)[2].do = "show"
      BY <1>w, <2>2
    <3>3. \A i \in 1..n : 1 + i = 2
      BY <3>1
    <3> QED BY <3>1, <3>2, <3>3
  <2> QED BY <2>1, <2>2
<1>8. /\ Work(e)[1].do = "restore"
      /\ \A i \in 1..5 : Work(e)[n + 1 + i] = DisplayPrompt[i]
  <2>1. n + 6 - 5 = n + 1
    OBVIOUS
  <2> QED BY <1>6, <1>w, <2>1
<1>9. ASSUME NEW i \in 1..(n + 6)
      PROVE  IF n + 6 - i < 5
             THEN Work(e)[i] = DisplayPrompt[5 - (n + 6 - i)]
             ELSE /\ Work(e)[i].do \in {"restore", "take", "show"}
                  /\ Work(e)[i].do = "restore" => i = 1
                  /\ Work(e)[i].do = "show" => n + 6 - i = 5
  <2>1. CASE n + 6 - i < 5
    <3>1. PICK k \in 1..5 : i = n + 1 + k
      <4>1. i - n - 1 \in 1..5 /\ i = n + 1 + (i - n - 1)
        BY <2>1
      <4> QED BY <4>1
    <3>2. k = 5 - (n + 6 - i)
      BY <3>1
    <3>3. Work(e)[i] = DisplayPrompt[k]
      BY <1>8, <3>1
    <3> QED BY <2>1, <3>2, <3>3
  <2>2. CASE i = 1
    BY <1>8, <2>2
  <2>3. CASE ~(n + 6 - i < 5) /\ i # 1
    <3>1. PICK k \in 1..n : i = 1 + k
      <4>1. i - 1 \in 1..n /\ i = 1 + (i - 1)
        BY <2>3
      <4> QED BY <4>1
    <3>2. /\ Work(e)[i].do \in {"take", "show"}
          /\ Work(e)[i].do = "show" => n = 1
      BY <1>7, <3>1
    <3>3. n = 1 => n + 6 - i = 5
      BY <3>1
    <3> DEFINE d == Work(e)[i].do
    <3>4. d \in {"take", "show"} /\ (d = "show" => n + 6 - i = 5)
      BY <3>2, <3>3
    <3>5. ~(n + 6 - i < 5)
      BY <2>3
    <3> HIDE DEF d
    <3>6. /\ d \in {"restore", "take", "show"} /\ d # "restore"
          /\ d = "show" => n + 6 - i = 5
      BY <3>4, Zenon
    <3> QED BY <3>5, <3>6, Zenon DEF d
  <2> QED BY <2>1, <2>2, <2>3
<1>10. Left' = n + 6
  BY <1>3, <1>6 DEF Left
<1>11. TodoInv'
  <2>1. \A i \in 1..(n + 6) :
           IF n + 6 - i < 5
           THEN todo'[i] = DisplayPrompt[5 - (n + 6 - i)]
           ELSE /\ todo'[i].do \in {"restore", "take", "show"}
                /\ todo'[i].do = "restore" => i = 1
                /\ todo'[i].do = "show" => n + 6 - i = 5
    BY <1>3, <1>9, Zenon
  <2>2. PICK m \in Nat : m = n + 6
    OBVIOUS
  <2>3. Left' = m
    BY <1>10, <2>2
  <2> QED BY <2>1, <2>2, <2>3 DEF TodoInv
<1>12. ScreenInv'
  <2>1. Left' > 3 /\ todo'[1].do = "restore"
    BY <1>3, <1>8, <1>10
  <2>2. UNCHANGED <<cursor, top, line, drawn, endShown>> /\ Left = 0
    BY DEF ReceiveElement, Left
  <2>3. Left' \notin 1..3 /\ Left' # 2 /\ Left' # 1 /\ Left' # 0
    BY <1>10
  <2> QED BY <2>1, <2>2, <2>3 DEF PromptInv, ScreenInv
<1> QED BY <1>5, <1>11, <1>12 DEF PromptInv

\* LineBuffer::new_char leaves characters in the buffer.
LEMMA TakenIsInLine ==
    ASSUME NEW buffer \in Seq(Characters), NEW c \in Characters
    PROVE  NewChar(buffer, c) \in Seq(Characters)
<1>1. buffer # <<>> => SubSeq(buffer, 1, Len(buffer) - 1) \in Seq(Characters)
  OBVIOUS
<1>2. Append(buffer, c) \in Seq(Characters) /\ <<>> \in Seq(Characters)
  OBVIOUS
<1> QED BY <1>1, <1>2 DEF NewChar

\* The callback of a line is called with what is in the buffer.
LEMMA TakeCharacterPrompt ==
    ASSUME PromptInv, TakeCharacter
    PROVE  PromptInv'
<1>1. todo # <<>> /\ Head(todo).do = "take" /\ todo' = Tail(todo)
      /\ UNCHANGED <<queue, cursor, top, shown, drawn, endShown>>
  BY DEF TakeCharacter, Now
<1>2. /\ TodoInv' /\ todo' \in Seq(Doings) /\ Left' = Left - 1
      /\ Left \in Nat \ {0}
  BY <1>1, TodoAdvances DEF PromptInv
<1>3. Left > 5 /\ todo[1].do = "take"
  BY <1>1, HeadIs DEF PromptInv
<1>4. sending' \in [Senders -> Seq(Strings)]
  <2>1. CASE Ends
    <3>1. PICK strings \in Callback(line) :
             sending' = [sending EXCEPT !["shell"] = strings]
      BY <2>1 DEF TakeCharacter
    <3>2. strings \in Seq(Strings)
      BY CallbackIs DEF PromptInv, Types
    <3> QED BY <3>1, <3>2 DEF PromptInv, Types
  <2>2. CASE ~Ends
    BY <2>2 DEF TakeCharacter, PromptInv, Types
  <2> QED BY <2>1, <2>2
<1>9. line' \in Seq(Characters)
  <2>1. line' = NewChar(line, Head(todo).char)
    BY DEF TakeCharacter
  <2>2. Head(todo).char \in Characters
    BY <1>1, HeadIs, TagFacts DEF PromptInv
  <2>3. line \in Seq(Characters)
    BY DEF PromptInv, Types
  <2> QED BY <2>1, <2>2, <2>3, TakenIsInLine
<1>5. Types'
  BY <1>1, <1>2, <1>4, <1>9 DEF PromptInv, Types
<1>6. endShown => cursor.at = "below" /\ cursor.saved = "below"
  <2>1. Left > 3 /\ Left # 5 /\ todo[1].do # "restore"
    BY <1>2, <1>3
  <2> QED BY <2>1 DEF PromptInv, ScreenInv
<1>7. Left' > 3
  BY <1>2, <1>3
<1>8. ScreenInv'
  <2>1. Left' \notin 1..3 /\ Left' # 2 /\ Left' # 1 /\ Left' # 0
    BY <1>2, <1>7
  <2> QED BY <1>1, <1>6, <2>1 DEF ScreenInv
<1> QED BY <1>2, <1>5, <1>8 DEF PromptInv

\* The line "restart".
LEMMA RestartPrompt ==
    ASSUME PromptInv, Restart
    PROVE  PromptInv'
<1>1. Types'
  BY DEF Restart, PromptInv, Types
<1>2. Left' = 0 /\ drawn' = FALSE /\ UNCHANGED <<cursor, endShown>>
  BY DEF Restart, Left
<1>3. Left # 5
  <2>1. Head(todo).do = "take" /\ todo # <<>>
    BY DEF Restart, Ends, Now
  <2>2. PICK n : n = Left
    OBVIOUS
  <2>3. n = 5 => FALSE
    BY <2>1, <2>2, HeadIs DEF PromptInv
  <2> QED BY <2>2, <2>3
<1>4. ScreenInv'
  BY <1>2, <1>3 DEF PromptInv, ScreenInv
<1>5. TodoInv'
  BY <1>2 DEF TodoInv
<1> QED BY <1>1, <1>4, <1>5 DEF PromptInv

\* raw_send and what the terminal makes of it.
LEMMA RawSendPrompt ==
    ASSUME PromptInv, RawSend
    PROVE  PromptInv'
<1>1. /\ todo # <<>> /\ todo' = Tail(todo) /\ Display(Head(todo))
      /\ Head(todo).do \in Shows
      /\ UNCHANGED <<queue, sending, line>>
  BY DEF RawSend, Now
<1>2. /\ TodoInv' /\ todo' \in Seq(Doings)
      /\ Left \in Nat \ {0} /\ Left' = Left - 1
  BY <1>1, TodoAdvances DEF PromptInv
<1> DEFINE sent == todo[1]
<1>3. Head(todo) = sent /\ sent \in Doings
  BY <1>1, HeadIs DEF PromptInv
<1>4. /\ Left > 5 => /\ sent.do \in {"restore", "show"}
      /\ Left = 5 => sent.do = "save"
      /\ Left = 4 => sent.do = "home"
      /\ Left = 3 => sent.do = "erase"
      /\ Left = 2 => sent.do = "prompt"
      /\ Left = 1 => sent.do = "line"
  <2>1. "take" \notin Shows
    BY DEF Shows
  <2> QED BY <1>1, <1>3, <2>1, HeadIs DEF PromptInv
<1> HIDE DEF sent
<1>5. /\ shown' = IF sent.do = "show"
                  THEN [shown EXCEPT ![sent.from] = sent.part] ELSE shown
      /\ drawn' = (drawn \/ sent.do = "home")
      /\ endShown' = (endShown \/ (sent.do = "show" /\ sent.ends))
  BY <1>1, <1>3 DEF Display
<1>6. shown' \in [Senders -> Nat]
  <2>1. sent.do = "show" => sent.from \in Senders /\ sent.part \in Nat
    BY <1>3, TagFacts
  <2> QED BY <1>5, <2>1 DEF PromptInv, Types
<1>7. PICK at \in Rows, saved \in Rows : cursor = [at |-> at, saved |-> saved]
  BY DEF PromptInv, Types, Cursors
<1>c. /\ sent.do = "restore" => cursor' = [at |-> saved, saved |-> saved]
      /\ sent.do = "save" => cursor' = [at |-> at, saved |-> at]
      /\ sent.do = "home" => cursor' = [at |-> "top", saved |-> saved]
      /\ sent.do = "show" =>
            \E row \in Rows :
               /\ cursor' = [at |-> row, saved |-> saved]
               /\ row = "below" \/ (~sent.ends /\ row = at)
      /\ sent.do \in {"erase", "prompt", "line"} => cursor' = cursor
  <2>1. CASE sent.do = "show"
    <3>1. PICK row \in RowAfter(sent) : cursor' = [cursor EXCEPT !.at = row]
      BY <1>1, <1>3, <2>1 DEF Display
    <3>2. /\ row = "below" \/ (~sent.ends /\ row = at)
          /\ row \in Rows
      BY <1>7, <3>1 DEF RowAfter, Rows
    <3>3. cursor' = [at |-> row, saved |-> saved]
      BY <1>7, <3>1
    <3> QED BY <2>1, <3>2, <3>3
  <2>2. CASE sent.do # "show"
    BY <1>1, <1>3, <1>7, <2>2 DEF Display
  <2> QED BY <2>1, <2>2
<1>t. /\ sent.do = "home" => top' = top
      /\ cursor.at = "top" =>
            /\ sent.do = "erase" => top' = <<>>
            /\ sent.do = "prompt" /\ top = <<>> => top' = <<">">>
            /\ sent.do = "line" => top' = top \o line
  BY <1>1, <1>3 DEF Display
<1>s. /\ endShown /\ Left # 5 => saved = "below"
      /\ endShown /\ Left > 3 => sent.do = "restore" \/ at = "below"
      /\ drawn /\ Left \in 1..3 => at = "top"
      /\ drawn /\ Left = 2 => top = <<>>
      /\ drawn /\ Left = 1 => top = <<">">>
  <2>1. cursor.at = at /\ cursor.saved = saved
    BY <1>7
  <2> QED BY <2>1 DEF PromptInv, ScreenInv, sent
<1>8. /\ cursor' \in Cursors
      /\ endShown' /\ Left # 6 => cursor'.saved = "below"
      /\ endShown' /\ Left > 4 => cursor'.at = "below"
      /\ drawn' =>
            /\ Left \in 1..4 => cursor'.at = "top"
            /\ Left = 3 => top' = <<>>
            /\ Left = 2 => top' = <<">">>
            /\ Left = 1 => top' = <<">">> \o line
  <2>1. CASE Left > 5
    <3>1. /\ sent.do \in {"restore", "show"} /\ Left > 3
          /\ ~(Left \in 1..4) /\ Left # 3 /\ Left # 2 /\ Left # 1
          /\ Left # 5
      BY <1>2, <1>4, <2>1
    <3>2. CASE sent.do = "restore"
      <4>1. /\ cursor' = [at |-> saved, saved |-> saved]
            /\ endShown' => endShown
        BY <1>5, <1>c, <3>2
      <4>2. endShown => saved = "below"
        BY <1>s, <3>1
      <4> QED BY <3>1, <4>1, <4>2 DEF Cursors
    <3>3. CASE sent.do = "show"
      <4>1. PICK row \in Rows :
               /\ cursor' = [at |-> row, saved |-> saved]
               /\ row = "below" \/ (~sent.ends /\ row = at)
        BY <1>c, <3>3
      <4>2. endShown' => row = "below"
        BY <1>5, <1>s, <3>1, <3>3, <4>1
      <4>3. Left = 6
        <5>1. PICK n \in Nat : n = Left
          BY <1>2
        <5>2. n > 5 /\ todo[1].do = "show"
          BY <2>1, <3>3, <5>1 DEF sent
        <5>3. n > 5 /\ todo[1].do = "show" => n = 6
          BY <1>1, <5>1, HeadIs DEF PromptInv
        <5> QED BY <5>1, <5>2, <5>3
      <4> QED BY <3>1, <4>1, <4>2, <4>3 DEF Cursors
    <3> QED BY <3>1, <3>2, <3>3
  <2>2. CASE Left = 5
    <3>1. cursor' = [at |-> at, saved |-> at] /\ (endShown' => endShown)
      BY <1>4, <1>5, <1>c, <2>2
    <3>2. endShown => at = "below"
      BY <1>4, <1>s, <2>2
    <3> QED BY <2>2, <3>1, <3>2 DEF Cursors
  <2>3. CASE Left = 4
    <3>1. cursor' = [at |-> "top", saved |-> saved] /\ (endShown' => endShown)
      BY <1>4, <1>5, <1>c, <2>3
    <3>2. endShown => saved = "below"
      BY <1>s, <2>3
    <3> QED BY <2>3, <3>1, <3>2 DEF Cursors, Rows
  <2>4. CASE Left \in 1..3
    <3>1. /\ cursor' = cursor /\ (endShown' => endShown) /\ (drawn' => drawn)
          /\ Left # 5 /\ ~(Left > 4)
      <4>1. sent.do \in {"erase", "prompt", "line"}
        BY <1>4, <2>4
      <4>2. cursor' = cursor
        BY <1>c, <4>1
      <4>3. (endShown' => endShown) /\ (drawn' => drawn)
        BY <1>5, <4>1
      <4> QED BY <2>4, <4>2, <4>3
    <3>2. endShown => saved = "below"
      BY <1>s, <3>1
    <3>3. /\ drawn => cursor.at = "top"
          /\ drawn /\ Left = 3 => top' = <<>>
          /\ drawn /\ Left = 2 => top' = <<">">>
      BY <1>4, <1>7, <1>s, <1>t, <2>4
    <3>4. drawn /\ Left = 1 => top' = <<">">> \o line
      <4> SUFFICES ASSUME drawn, Left = 1 PROVE top' = <<">">> \o line
        OBVIOUS
      <4>1. cursor.at = "top" /\ top = <<">">> /\ sent.do = "line"
        BY <1>4, <1>s, <3>3
      <4> QED BY <1>t, <4>1, Zenon
    <3>5. cursor.saved = saved /\ cursor \in Cursors
      BY <1>7 DEF Cursors
    <3> QED BY <3>1, <3>2, <3>3, <3>4, <3>5
  <2> QED BY <1>2, <2>1, <2>2, <2>3, <2>4
<1>9. Types'
  BY <1>1, <1>2, <1>6, <1>8 DEF PromptInv, Types
<1>10. ScreenInv'
  <2>1. PICK n \in Nat \ {0} : n = Left
    BY <1>2
  <2>2. /\ n - 1 # 5 => n # 6
        /\ n - 1 > 3 => n > 4
        /\ n - 1 \in 1..3 => n \in 1..4
        /\ n - 1 = 2 => n = 3
        /\ n - 1 = 1 => n = 2
        /\ n - 1 = 0 => n = 1 /\ n \in 1..4
    OBVIOUS
  <2>3. Left' = n - 1 /\ line' = line
    BY <1>1, <1>2, <2>1
  <2> QED BY <1>8, <2>1, <2>2, <2>3 DEF ScreenInv
<1> QED BY <1>2, <1>9, <1>10 DEF PromptInv

\* CDC_Receive_FS.
LEMMA TypeTypes ==
    ASSUME Types, NEW chars \in Inputs, Type(chars)
    PROVE  Types'
<1>1. chars \in Seq(Characters)
  BY DEF Characters
<1>2. \E long : Receive(chars, long)
  BY DEF Type
<1>3. PICK more \in Seq(Elements) : /\ queue' = queue \o more
                                    /\ Len(queue) + Len(more) <= QueueSize
  BY <1>1, <1>2, ReceiveIs
<1>4. queue \in Seq(Elements)
  BY DEF Types
<1>5. queue \o more \in Seq(Elements)
      /\ Len(queue \o more) = Len(queue) + Len(more)
  BY <1>4, JoinFacts
<1> QED BY <1>3, <1>5 DEF Type, Types

\* Every step leaves the prompt invariant true.
LEMMA PromptStep ==
    ASSUME PromptInv, [Next]_vars
    PROVE  PromptInv'
<1> USE DEF PromptInv
<1>1. ASSUME NEW t \in Tasks, Log(t) PROVE PromptInv'
  <2>1. UNCHANGED <<todo, line, cursor, top, drawn, endShown>>
    BY <1>1 DEF Log
  <2> QED BY <1>1, <2>1, LogTypes, PromptKept
<1>2. ASSUME NEW t \in Senders, SendPart(t) PROVE PromptInv'
  <2>1. UNCHANGED <<todo, line, cursor, top, drawn, endShown>>
    BY <1>2 DEF SendPart
  <2> QED BY <1>2, <2>1, SendPartTypes, PromptKept
<1>3. ASSUME NEW chars \in Inputs, Type(chars) PROVE PromptInv'
  <2>1. UNCHANGED <<todo, line, cursor, top, drawn, endShown>>
    BY <1>3 DEF Type
  <2> QED BY <1>3, <2>1, TypeTypes, PromptKept
<1>4. CASE Fetch \/ Unplug \/ UNCHANGED vars
  <2>1. UNCHANGED <<queue, sending, todo, line, cursor, top, shown, drawn,
                    endShown>>
    BY <1>4 DEF Fetch, Unplug, vars
  <2>2. Types'
    BY <2>1 DEF Types
  <2> QED BY <2>1, <2>2, PromptKept
<1>5. CASE Plug
  <2>1. UNCHANGED <<queue, sending, todo, line, shown>>
    BY <1>5 DEF Plug
  <2>2. CASE UNCHANGED screen
    <3>1. Types'
      BY <2>1, <2>2 DEF Types
    <3> QED BY <2>1, <2>2, <3>1, PromptKept
  <2>3. CASE cursor' \in Cursors /\ drawn' = FALSE /\ endShown' = FALSE
    <3>1. Types'
      BY <2>1, <2>3 DEF Types
    <3>2. TodoInv'
      BY <2>1 DEF TodoInv, Left
    <3>3. ScreenInv'
      BY <2>3 DEF ScreenInv
    <3> QED BY <3>1, <3>2, <3>3
  <2> QED BY <1>5, <2>2, <2>3 DEF Plug
<1> QED BY <1>1, <1>2, <1>3, <1>4, <1>5, ReceiveElementPrompt, TakeCharacterPrompt,
           RestartPrompt, RawSendPrompt DEF Next, Terminal

\* input_line_callback, display_prompt: wherever the cursor of a screen is at
\* first, whatever the host types and is sent, and however long the lines are,
\* when the terminal task has done with an element the top row shows the prompt
\* and the line as typed; and from the first line end on the place where output
\* goes on is below it, so that only the first entry is written where the
\* prompt destroys it (Watchdog.cpp:85).
THEOREM PromptShowsTheLine == Spec => []PromptIsCurrent
<1>1. Init => PromptInv
  BY PromptInit
<1>2. PromptInv /\ [Next]_vars => PromptInv'
  BY PromptStep
<1>3. PromptInv => PromptIsCurrent
  <2> SUFFICES ASSUME PromptInv, todo = <<>>, drawn
               PROVE  /\ top = <<">">> \o line
                      /\ cursor.at = "top"
                      /\ endShown => cursor.saved = "below"
    BY DEF PromptIsCurrent
  <2>1. Left = 0
    BY DEF Left
  <2> QED BY <2>1 DEF PromptInv, ScreenInv
<1> QED BY <1>1, <1>2, <1>3, PTL DEF Spec

-----------------------------------------------------------------------------
(* The parts of a message.                                                 *)

\* Nothing changes for a task when others' elements come into the queue.
LEMMA OthersJoin ==
    ASSUME NEW t \in Senders, NEW held, NEW s, NEW q \in Seq(Elements),
           NEW more \in Seq(Elements), \A k \in 1..Len(more) : more[k].from # t,
           InOrder(t, held, q, s)
    PROVE  InOrder(t, held, q \o more, s)
<1> DEFINE all == q \o more
<1>1. PICK n \in Nat, m \in Nat : n = Len(q) /\ m = n + Len(more)
  OBVIOUS
<1>2. /\ Len(all) = m /\ n <= m
      /\ \A i \in 1..n : all[i] = q[i]
      /\ \A i \in (n + 1)..m : all[i].from # t
  <2>1. /\ Len(all) = Len(q) + Len(more) /\ Len(more) \in Nat
        /\ \A i \in 1..Len(q) : all[i] = q[i]
        /\ \A i \in 1..Len(more) : all[Len(q) + i] = more[i]
    BY JoinFacts
  <2>2. ASSUME NEW i \in (n + 1)..m PROVE all[i].from # t
    <3>1. PICK k \in 1..Len(more) : i = Len(q) + k
      <4>1. i - n \in 1..Len(more) /\ i = Len(q) + (i - n)
        BY <1>1, <2>1
      <4> QED BY <4>1
    <3> QED BY <2>1, <3>1
  <2> QED BY <1>1, <2>1, <2>2
<1> HIDE DEF all
<1>3. \A i \in 0..n : /\ Has(t, all, s, i) <=> Has(t, q, s, i)
                      /\ PartAt(held, all, s, i) = PartAt(held, q, s, i)
  BY <1>1, <1>2 DEF Has, PartAt
<1>4. \A i \in (n + 1)..m : ~Has(t, all, s, i)
  BY <1>1, <1>2 DEF Has
<1>5. /\ Has(t, all, s, m + 1) <=> Has(t, q, s, n + 1)
      /\ PartAt(held, all, s, m + 1) = PartAt(held, q, s, n + 1)
  BY <1>1, <1>2 DEF Has, PartAt
<1>6. SUFFICES ASSUME NEW i \in 0..(m + 1), NEW j \in 0..(m + 1), i < j,
                      Has(t, all, s, i), Has(t, all, s, j),
                      \A k \in 0..(m + 1) :
                          i < k /\ k < j => ~Has(t, all, s, k)
               PROVE  PartAt(held, all, s, j)
                         \in {1, PartAt(held, all, s, i) + 1}
  BY <1>2 DEF InOrder, all
<1>7. i \in 0..n
  <2>1. i \in 0..n \/ i \in (n + 1)..m
    BY <1>1, <1>6
  <2> QED BY <1>4, <1>6, <2>1, Zenon
<1>10. \A k, l \in 0..(n + 1) :
          /\ k < l /\ Has(t, q, s, k) /\ Has(t, q, s, l)
          /\ \A x \in 0..(n + 1) : k < x /\ x < l => ~Has(t, q, s, x)
          => PartAt(held, q, s, l) \in {1, PartAt(held, q, s, k) + 1}
  BY <1>1, Zenon DEF InOrder
<1>11. Has(t, q, s, i) /\ i \in 0..(n + 1) /\ n + 1 \in 0..(n + 1)
  BY <1>1, <1>3, <1>6, <1>7
<1>8. CASE j \in 0..n
  <2>1. \A k \in 0..(n + 1) : i < k /\ k < j => ~Has(t, q, s, k)
    BY <1>2, <1>3, <1>6, <1>8
  <2>2. Has(t, q, s, j) /\ j \in 0..(n + 1) /\ i < j
    BY <1>1, <1>3, <1>6, <1>8
  <2>3. PartAt(held, q, s, j) \in {1, PartAt(held, q, s, i) + 1}
    BY <1>10, <1>11, <2>1, <2>2, Zenon
  <2> QED BY <1>3, <1>7, <1>8, <2>3
<1>9. CASE j = m + 1
  <2>1. \A k \in 0..(n + 1) : i < k /\ k < n + 1 => ~Has(t, q, s, k)
    <3> SUFFICES ASSUME NEW k \in 0..(n + 1), i < k, k < n + 1
                 PROVE  ~Has(t, q, s, k)
      OBVIOUS
    <3>1. k \in 0..n /\ k \in 0..(m + 1) /\ k < j
      BY <1>1, <1>2, <1>9
    <3> QED BY <1>3, <1>6, <3>1, Zenon
  <2>2. Has(t, q, s, n + 1) /\ i < n + 1
    BY <1>1, <1>5, <1>6, <1>7, <1>9
  <2>3. PartAt(held, q, s, n + 1) \in {1, PartAt(held, q, s, i) + 1}
    BY <1>10, <1>11, <2>1, <2>2, Zenon
  <2> QED BY <1>3, <1>5, <1>7, <1>9, <2>3
<1> QED BY <1>4, <1>6, <1>8, <1>9

\* What a task has still to send may be cut to begin with a first part.
LEMMA AnewIsInOrder ==
    ASSUME NEW t \in Senders, NEW held, NEW s, NEW q \in Seq(Elements),
           NEW new, new = <<>> \/ Head(new).part = 1, InOrder(t, held, q, s)
    PROVE  InOrder(t, held, q, new)
<1>1. PICK n \in Nat : n = Len(q)
  OBVIOUS
<1>2. \A i \in 0..n : /\ Has(t, q, new, i) <=> Has(t, q, s, i)
                      /\ PartAt(held, q, new, i) = PartAt(held, q, s, i)
  BY <1>1 DEF Has, PartAt
<1>3. Has(t, q, new, n + 1) => PartAt(held, q, new, n + 1) = 1
  BY <1>1 DEF Has, PartAt
<1>4. SUFFICES ASSUME NEW i \in 0..(n + 1), NEW j \in 0..(n + 1), i < j,
                      Has(t, q, new, i), Has(t, q, new, j),
                      \A k \in 0..(n + 1) :
                          i < k /\ k < j => ~Has(t, q, new, k)
               PROVE  PartAt(held, q, new, j)
                         \in {1, PartAt(held, q, new, i) + 1}
  BY <1>1 DEF InOrder
<1>5. CASE j \in 0..n
  <2>1. i \in 0..n /\ \A k \in 0..(n + 1) : i < k /\ k < j => ~Has(t, q, s, k)
    BY <1>2, <1>4, <1>5
  <2>2. PartAt(held, q, s, j) \in {1, PartAt(held, q, s, i) + 1}
    BY <1>1, <1>2, <1>4, <1>5, <2>1 DEF InOrder
  <2> QED BY <1>2, <1>5, <2>1, <2>2
<1> QED BY <1>3, <1>4, <1>5

\* A part that comes into the queue is behind those before it, and followed
\* by the next of its string or by another string.
LEMMA OwnJoins ==
    ASSUME NEW t \in Senders, NEW held, NEW s, s # <<>>,
           NEW q \in Seq(Elements), Head(s) \in Strings,
           NEW new,
           new = <<>> \/ Head(new).part \in {1, Head(s).part + 1},
           InOrder(t, held, q, s)
    PROVE  InOrder(t, held,
                   Append(q, Piece(t, Head(s))), new)
<1> DEFINE e == Piece(t, Head(s))
           all == Append(q, e)
<1>1. PICK n \in Nat : n = Len(q)
  OBVIOUS
<1>2. e \in Elements /\ e.from = t /\ e.part = Head(s).part
  BY PieceIs
<1> HIDE DEF e
<1>3. /\ Len(all) = n + 1 /\ all[n + 1] = e
      /\ \A i \in 1..n : all[i] = q[i]
  BY <1>1, <1>2
<1> HIDE DEF all
<1>4. \A i \in 0..(n + 1) :
         /\ Has(t, all, new, i) <=> Has(t, q, s, i)
         /\ PartAt(held, all, new, i) = PartAt(held, q, s, i)
  BY <1>1, <1>2, <1>3 DEF Has, PartAt
<1>5. /\ Has(t, all, new, n + 1)
      /\ PartAt(held, all, new, n + 1) = Head(s).part
      /\ Has(t, all, new, n + 2) =>
            PartAt(held, all, new, n + 2) \in {1, Head(s).part + 1}
  BY <1>1, <1>2, <1>3 DEF Has, PartAt
<1>6. SUFFICES ASSUME NEW i \in 0..(n + 2), NEW j \in 0..(n + 2), i < j,
                      Has(t, all, new, i), Has(t, all, new, j),
                      \A k \in 0..(n + 2) :
                          i < k /\ k < j => ~Has(t, all, new, k)
               PROVE  PartAt(held, all, new, j)
                         \in {1, PartAt(held, all, new, i) + 1}
  <2>1. n + 1 + 1 = n + 2
    OBVIOUS
  <2> QED BY <1>3, <2>1 DEF InOrder, all, e
<1>7. CASE j \in 0..(n + 1)
  <2>1. i \in 0..(n + 1)
        /\ \A k \in 0..(n + 1) : i < k /\ k < j => ~Has(t, q, s, k)
    BY <1>4, <1>6, <1>7
  <2>2. PartAt(held, q, s, j) \in {1, PartAt(held, q, s, i) + 1}
    BY <1>1, <1>4, <1>6, <1>7, <2>1 DEF InOrder
  <2> QED BY <1>4, <1>7, <2>1, <2>2
<1>8. CASE j = n + 2
  <2>1. i = n + 1
    BY <1>5, <1>6, <1>8
  <2> QED BY <1>5, <1>6, <1>8, <2>1
<1> QED BY <1>6, <1>7, <1>8 DEF all, e

\* The part that the terminal task takes from the queue follows the one it
\* has shown.
LEMMA FirstIsTaken ==
    ASSUME NEW t \in Senders, NEW held, NEW s,
           NEW q \in Seq(Elements), q # <<>>, InOrder(t, held, q, s),
           NEW next, next = IF Head(q).from = t THEN Head(q).part ELSE held
    PROVE  /\ InOrder(t, next, Tail(q), s)
           /\ next \in {held, 1, held + 1}
<1> DEFINE rest == Tail(q)
<1>1. PICK n \in Nat : n + 1 = Len(q)
  <2>1. Len(q) \in Nat \ {0}
    BY TailIs
  <2>2. Len(q) - 1 \in Nat /\ Len(q) - 1 + 1 = Len(q)
    BY <2>1
  <2> QED BY <2>2
<1>2. /\ Len(rest) = n /\ \A i \in 1..n : rest[i] = q[i + 1]
      /\ Head(q) = q[1]
  BY <1>1, TailIs
<1> HIDE DEF rest
<1>3. /\ \A i \in 1..(n + 1) :
            /\ Has(t, rest, s, i) <=> Has(t, q, s, i + 1)
            /\ PartAt(next, rest, s, i) = PartAt(held, q, s, i + 1)
      /\ Has(t, q, s, 1) <=> Head(q).from = t
      /\ PartAt(held, q, s, 1) = Head(q).part
      /\ PartAt(next, rest, s, 0) = next
      /\ Has(t, q, s, 0) /\ PartAt(held, q, s, 0) = held
  <2>1. ASSUME NEW i \in 1..(n + 1)
        PROVE  /\ Has(t, rest, s, i) <=> Has(t, q, s, i + 1)
               /\ PartAt(next, rest, s, i) = PartAt(held, q, s, i + 1)
    <3>1. CASE i \in 1..n
      <4>1. PICK k \in 2..(n + 1) : k = i + 1
        BY <3>1
      <4>2. rest[i] = q[k]
        BY <1>2, <3>1, <4>1
      <4>3. Has(t, rest, s, i) <=> q[k].from = t
        BY <1>2, <3>1, <4>2 DEF Has
      <4>4. Has(t, q, s, k) <=> q[k].from = t
        BY <1>1 DEF Has
      <4>5. PartAt(next, rest, s, i) = q[k].part
        BY <1>2, <3>1, <4>2 DEF PartAt
      <4>6. PartAt(held, q, s, k) = q[k].part
        BY <1>1 DEF PartAt
      <4> QED BY <4>1, <4>3, <4>4, <4>5, <4>6
    <3>2. CASE i = n + 1
      <4>1. i + 1 = Len(q) + 1 /\ i = Len(rest) + 1
        BY <1>1, <1>2, <3>2
      <4>2. /\ Has(t, rest, s, Len(rest) + 1) <=> s # <<>>
            /\ PartAt(next, rest, s, Len(rest) + 1) = Head(s).part
        BY <1>2 DEF Has, PartAt
      <4>3. /\ Has(t, q, s, Len(q) + 1) <=> s # <<>>
            /\ PartAt(held, q, s, Len(q) + 1) = Head(s).part
        BY <1>1 DEF Has, PartAt
      <4> QED BY <4>1, <4>2, <4>3
    <3> QED BY <3>1, <3>2
  <2>2. /\ Has(t, q, s, 1) <=> Head(q).from = t
        /\ PartAt(held, q, s, 1) = Head(q).part
        /\ PartAt(next, rest, s, 0) = next
        /\ Has(t, q, s, 0) /\ PartAt(held, q, s, 0) = held
    BY <1>1, <1>2 DEF Has, PartAt
  <2> QED BY <2>1, <2>2
<1>4. next \in {held, 1, held + 1}
  <2>1. CASE Head(q).from = t
    <3>1. /\ 0 \in 0..(n + 2) /\ 1 \in 0..(n + 2) /\ 0 < 1
          /\ \A k \in 0..(n + 2) : ~(0 < k /\ k < 1)
      OBVIOUS
    <3>2. Has(t, q, s, 0) /\ Has(t, q, s, 1)
      BY <1>3, <2>1
    <3>3. Len(q) + 1 = n + 2
      BY <1>1
    <3>4. PartAt(held, q, s, 1) \in {1, PartAt(held, q, s, 0) + 1}
      BY <3>1, <3>2, <3>3 DEF InOrder
    <3> QED BY <1>3, <2>1, <3>4
  <2>2. CASE Head(q).from # t
    BY <2>2
  <2> QED BY <2>1, <2>2
<1>5. SUFFICES ASSUME NEW i \in 0..(n + 1), NEW j \in 0..(n + 1), i < j,
                      Has(t, rest, s, i), Has(t, rest, s, j),
                      \A k \in 0..(n + 1) :
                          i < k /\ k < j => ~Has(t, rest, s, k)
               PROVE  PartAt(next, rest, s, j)
                         \in {1, PartAt(next, rest, s, i) + 1}
  BY <1>2, <1>4 DEF InOrder, rest
<1>6. PICK b \in 2..(n + 2) : b = j + 1
  BY <1>5
<1>7. Has(t, q, s, b) /\ PartAt(next, rest, s, j) = PartAt(held, q, s, b)
  BY <1>3, <1>5, <1>6
<1>8. ASSUME NEW k \in 0..(n + 2), i + 1 < k, k < b
      PROVE  ~Has(t, q, s, k)
  <2>1. PICK h \in 0..(n + 1) : k = h + 1
    <3>1. k - 1 \in 0..(n + 1) /\ k = k - 1 + 1
      BY <1>8
    <3> QED BY <3>1
  <2>2. i < h /\ h < j /\ h \in 1..(n + 1)
    BY <1>6, <1>8, <2>1
  <2> QED BY <1>3, <1>5, <2>1, <2>2
<1>9. ASSUME NEW a \in 0..(n + 2), a < b, Has(t, q, s, a),
             \A k \in 0..(n + 2) : a < k /\ k < b => ~Has(t, q, s, k),
             PartAt(held, q, s, a) = PartAt(next, rest, s, i)
      PROVE  PartAt(next, rest, s, j)
                \in {1, PartAt(next, rest, s, i) + 1}
  <2>1. Len(q) + 1 = n + 2 /\ b \in 0..(n + 2)
    BY <1>1
  <2>2. PartAt(held, q, s, b) \in {1, PartAt(held, q, s, a) + 1}
    BY <1>7, <1>9, <2>1 DEF InOrder
  <2> QED BY <1>7, <1>9, <2>2
<1>10. CASE i # 0
  <2>1. PICK a \in 0..(n + 2) : a = i + 1
    OBVIOUS
  <2>2. Has(t, q, s, a) /\ PartAt(held, q, s, a) = PartAt(next, rest, s, i)
    BY <1>3, <1>5, <1>10, <2>1
  <2>3. a < b /\ \A k \in 0..(n + 2) : a < k /\ k < b => ~Has(t, q, s, k)
    BY <1>5, <1>6, <1>8, <2>1
  <2> QED BY <1>9, <2>2, <2>3
<1>11. CASE i = 0 /\ Head(q).from = t
  <2>1. Has(t, q, s, 1) /\ PartAt(held, q, s, 1) = PartAt(next, rest, s, i)
    BY <1>3, <1>11
  <2>2. 1 \in 0..(n + 2) /\ 1 < b
        /\ \A k \in 0..(n + 2) : 1 < k /\ k < b => ~Has(t, q, s, k)
    BY <1>8, <1>11
  <2> QED BY <1>9, <2>1, <2>2
<1>12. CASE i = 0 /\ Head(q).from # t
  <2>1. Has(t, q, s, 0) /\ PartAt(held, q, s, 0) = PartAt(next, rest, s, i)
        /\ ~Has(t, q, s, 1)
    BY <1>3, <1>12
  <2>2. 0 \in 0..(n + 2) /\ 0 < b
    OBVIOUS
  <2>3. \A k \in 0..(n + 2) : 0 < k /\ k < b => ~Has(t, q, s, k)
    <3>1. \A k \in 0..(n + 2) : 0 < k => k = 1 \/ 0 + 1 < k
      OBVIOUS
    <3> QED BY <1>8, <1>12, <2>1, <3>1
  <2> QED BY <1>9, <2>1, <2>2, <2>3
<1> QED BY <1>10, <1>11, <1>12

\* Strings that are each to be sent from its first part.
LEMMA UnbegunIs ==
    ASSUME NEW s \in Seq(Strings)
    PROVE  /\ Unbegun(s) =>
                 /\ Unbegun(Tail(s))
                 /\ s # <<>> => Tail(s) = <<>> \/ Head(Tail(s)).part = 1
           /\ (\A i \in 1..Len(s) : s[i].part = 1) =>
                 /\ Unbegun(s)
                 /\ s = <<>> \/ Head(s).part = 1
<1>1. Len(s) \in Nat
  OBVIOUS
<1>2. CASE s = <<>>
  <2>1. Len(s) = 0 /\ Len(Tail(s)) = 0
    BY <1>2
  <2> QED BY <1>2, <2>1 DEF Unbegun
<1>3. CASE s # <<>>
  <2>1. PICK n \in Nat : n + 1 = Len(s)
    <3>1. Len(s) \in Nat \ {0}
      BY <1>3, TailIs
    <3>2. Len(s) - 1 \in Nat /\ Len(s) - 1 + 1 = Len(s)
      BY <3>1
    <3> QED BY <3>2
  <2>2. /\ Tail(s) \in Seq(Strings) /\ Len(Tail(s)) = n
        /\ \A i \in 1..n : Tail(s)[i] = s[i + 1]
        /\ Head(s) = s[1]
    BY <1>3, <2>1, TailIs
  <2>3. ASSUME Unbegun(s) PROVE \A i \in 1..n : Tail(s)[i].part = 1
    <3>1. \A i \in 1..n : i + 1 \in 2..Len(s)
      BY <2>1
    <3> QED BY <2>2, <2>3, <3>1 DEF Unbegun
  <2>4. Tail(s) = <<>> \/ (1 \in 1..n /\ Head(Tail(s)) = Tail(s)[1])
    <3>1. CASE Tail(s) # <<>>
      <4>1. /\ Len(Tail(s)) \in Nat \ {0}
            /\ Head(Tail(s)) = Tail(s)[1]
        BY <2>2, <3>1, TailIs
      <4> QED BY <2>2, <4>1
    <3> QED BY <3>1
  <2>5. Unbegun(s) => Unbegun(Tail(s))
    BY <2>2, <2>3 DEF Unbegun
  <2>6. 1 \in 1..Len(s) /\ \A i \in 2..Len(s) : i \in 1..Len(s)
    BY <2>1
  <2> QED BY <2>2, <2>3, <2>4, <2>5, <2>6 DEF Unbegun
<1> QED BY <1>2, <1>3

\* What the terminal task holds of a task's, after it has done something else
\* than showing a part.
LEMMA HeldStays ==
    ASSUME Types, TodoInv, todo # <<>>, todo' = Tail(todo), shown' = shown,
           Head(todo).do # "show", NEW t \in Senders
    PROVE  Held(t)' = Held(t)
<1>1. PICK n \in Nat \ {0} : n = Left
  BY TodoAdvances
<1>2. Left' = n - 1 /\ \A i \in 1..(n - 1) : todo'[i] = todo[i + 1]
  BY <1>1, TodoAdvances
<1>3. CASE n > 6
  <2>1. /\ n - 6 \in 1..(n - 1) /\ n - 6 + 1 = n - 5 /\ n - 1 - 5 = n - 6
        /\ n - 1 > 5 /\ n > 5
    BY <1>3
  <2>2. todo'[n - 6] = todo[n - 5]
    BY <1>2, <2>1
  <2> QED BY <1>1, <1>2, <2>1, <2>2 DEF Held
<1>4. CASE n = 6
  <2>1. todo[n - 5].do # "show" /\ ~(n - 1 > 5)
    BY <1>1, <1>4, HeadIs
  <2> QED BY <1>1, <1>2, <2>1 DEF Held
<1>5. CASE n < 6
  <2>1. ~(n - 1 > 5) /\ ~(n > 5)
    BY <1>5
  <2> QED BY <1>1, <1>2, <2>1 DEF Held
<1> QED BY <1>3, <1>4, <1>5

\* When a part is shown, it is the one the terminal task held.
LEMMA HeldIsShown ==
    ASSUME Types, TodoInv, todo # <<>>, todo' = Tail(todo),
           Head(todo).do = "show",
           shown' = [shown EXCEPT ![Head(todo).from] = Head(todo).part],
           NEW t \in Senders
    PROVE  Held(t)' = Held(t) /\ shown'[t] = Held(t)
<1>1. Left = 6 /\ Head(todo) = todo[1] /\ todo[1] \in Doings
      /\ todo[1].do = "show"
  <2>1. PICK n \in Nat \ {0} : n = Left
    BY TodoAdvances
  <2>2. /\ Head(todo) = todo[1] /\ todo[1] \in Doings
        /\ n > 5 /\ todo[1].do = "show" => n = 6
        /\ n = 5 => todo[1].do = "save"
        /\ n = 4 => todo[1].do = "home"
        /\ n = 3 => todo[1].do = "erase"
        /\ n = 2 => todo[1].do = "prompt"
        /\ n = 1 => todo[1].do = "line"
    BY <2>1, HeadIs
  <2>3. n > 5
    BY <2>2
  <2> QED BY <2>1, <2>2, <2>3
<1>2. Left' = 5
  BY <1>1, TodoAdvances
<1>3. Held(t) = IF todo[1].from = t THEN todo[1].part ELSE shown[t]
  BY <1>1 DEF Held
<1>4. shown'[t] = IF todo[1].from = t THEN todo[1].part ELSE shown[t]
  <2>1. shown \in [Senders -> Nat]
    BY DEF Types
  <2> QED BY <1>1, <2>1
<1>5. Held(t)' = shown'[t]
  BY <1>2 DEF Held
<1> QED BY <1>3, <1>4, <1>5

\* Init.
LEMMA PartsInit == Init => PartsInv
<1> SUFFICES ASSUME Init, NEW t \in Senders
             PROVE  /\ InOrder(t, Held(t), queue, sending[t])
                    /\ Unbegun(sending[t])
                    /\ Held(t) \in {shown[t], 1, shown[t] + 1}
  BY DEF PartsInv
<1>1. queue = <<>> /\ sending[t] = <<>> /\ Held(t) = shown[t]
  BY DEF Init, Held, Left
<1>2. \A i \in 0..1 : Has(t, <<>>, <<>>, i) => i = 0
  BY DEF Has
<1>3. InOrder(t, Held(t), <<>>, <<>>)
  BY <1>2 DEF InOrder
<1> QED BY <1>1, <1>3 DEF Unbegun

\* What leaves the elements of every task and what it has to send alone.
LEMMA PartsKept ==
    ASSUME PartsInv, UNCHANGED <<queue, sending, todo, shown>>
    PROVE  PartsInv'
BY DEF PartsInv, Held, Left

\* Logger::log.
LEMMA LogKeepsOrder ==
    ASSUME Types, PartsInv, NEW u \in Tasks, Log(u)
    PROVE  PartsInv'
<1>1. /\ sending \in [Senders -> Seq(Strings)] /\ queue \in Seq(Elements)
      /\ sending' = [sending EXCEPT ![u] = <<Message>>]
      /\ UNCHANGED <<queue, todo, shown>>
  BY DEF Log, Types
<1>2. Message.part = 1 /\ <<Message>> \in Seq(Strings)
  BY DEF Message, String, Strings
<1> SUFFICES ASSUME NEW t \in Senders
             PROVE  /\ InOrder(t, Held(t)', queue', sending'[t])
                    /\ Unbegun(sending'[t])
                    /\ Held(t)' \in {shown'[t], 1, shown'[t] + 1}
  BY DEF PartsInv
<1>3. Held(t)' = Held(t)
  BY <1>1 DEF Held, Left
<1>4. /\ InOrder(t, Held(t), queue, sending[t])
      /\ Unbegun(sending[t])
      /\ Held(t) \in {shown[t], 1, shown[t] + 1}
  BY DEF PartsInv
<1>5. CASE t = u
  <2>1. sending'[t] = <<Message>>
    BY <1>1, <1>5
  <2>2. Head(sending'[t]).part = 1 /\ Unbegun(sending'[t])
    BY <1>2, <2>1 DEF Unbegun
  <2>3. InOrder(t, Held(t), queue, sending'[t])
    BY <1>1, <1>4, <2>2, AnewIsInOrder
  <2> QED BY <1>1, <1>3, <1>4, <2>2, <2>3
<1>6. CASE t # u
  <2>1. sending'[t] = sending[t]
    BY <1>1, <1>6
  <2> QED BY <1>1, <1>3, <1>4, <2>1
<1> QED BY <1>5, <1>6

\* send_str: a part that finds room is put behind those before it, and
\* without room all that is left of its string is given up.
LEMMA SendPartKeepsOrder ==
    ASSUME Types, PartsInv, NEW u \in Senders, SendPart(u)
    PROVE  PartsInv'
<1> DEFINE e == Piece(u, Head(sending[u]))
<1>1. /\ sending \in [Senders -> Seq(Strings)] /\ queue \in Seq(Elements)
      /\ sending[u] # <<>> /\ UNCHANGED <<todo, shown>>
  BY DEF SendPart, Types
<1>2. /\ sending' \in [Senders -> Seq(Strings)]
      /\ \A t \in Senders : t # u => sending'[t] = sending[t]
      /\ Head(sending[u]) \in Strings
      /\ \/ /\ queue' = queue /\ sending'[u] = Tail(sending[u])
         \/ /\ queue' = Append(queue, e)
            /\ \/ sending'[u] = Tail(sending[u])
               \/ /\ Len(sending'[u]) = Len(sending[u])
                  /\ Head(sending'[u]).part = Head(sending[u]).part + 1
                  /\ \A i \in 2..Len(sending[u]) :
                        sending'[u][i] = sending[u][i]
  BY SendPartIs
<1> SUFFICES ASSUME NEW t \in Senders
             PROVE  /\ InOrder(t, Held(t)', queue', sending'[t])
                    /\ Unbegun(sending'[t])
                    /\ Held(t)' \in {shown'[t], 1, shown'[t] + 1}
  BY DEF PartsInv
<1>3. Held(t)' = Held(t)
  BY <1>1 DEF Held, Left
<1>4. /\ InOrder(t, Held(t), queue, sending[t])
      /\ Unbegun(sending[t])
      /\ Held(t) \in {shown[t], 1, shown[t] + 1}
  BY DEF PartsInv
<1>5. CASE t # u
  <2>1. sending'[t] = sending[t]
    BY <1>2, <1>5
  <2>2. InOrder(t, Held(t), queue', sending[t])
    <3>1. CASE queue' = queue
      BY <1>4, <3>1
    <3>2. CASE queue' = Append(queue, e)
      <4>1. e \in Elements /\ e.from # t
        BY <1>2, <1>5, PieceIs
      <4> HIDE DEF e
      <4>2. /\ <<e>> \in Seq(Elements) /\ queue' = queue \o <<e>>
            /\ \A k \in 1..Len(<<e>>) : <<e>>[k].from # t
        <5>1. <<e>> \in Seq(Elements) /\ Len(<<e>>) = 1 /\ <<e>>[1] = e
          BY <4>1
        <5>2. queue' = queue \o <<e>>
          BY <1>1, <3>2, <4>1, AppendIsConcat, Zenon
        <5>3. PICK w : w = <<e>>
          OBVIOUS
        <5>4. \A k \in 1..Len(w) : w[k].from # t
          BY <4>1, <5>1, <5>3
        <5> QED BY <5>1, <5>2, <5>3, <5>4, Zenon
      <4>3. InOrder(t, Held(t), queue \o <<e>>, sending[t])
        BY <1>1, <1>4, <4>2, OthersJoin
      <4> QED BY <4>2, <4>3
    <3> QED BY <1>2, <3>1, <3>2
  <2> QED BY <1>1, <1>3, <1>4, <2>1, <2>2
<1>6. CASE t = u
  <2> DEFINE left == sending[u]
             new == sending'[u]
  <2>1. left \in Seq(Strings) /\ new \in Seq(Strings) /\ left # <<>>
        /\ Head(left) \in Strings
    BY <1>1, <1>2
  <2>2. /\ Unbegun(Tail(left))
        /\ Tail(left) = <<>> \/ Head(Tail(left)).part = 1
    BY <1>4, <1>6, <2>1, UnbegunIs
  <2>3. CASE queue' = queue /\ new = Tail(left)
    <3>1. new = <<>> \/ Head(new).part = 1
      BY <2>2, <2>3
    <3>2. InOrder(t, Held(t), queue, left)
      BY <1>4, <1>6
    <3> HIDE DEF left, new
    <3>3. InOrder(t, Held(t), queue, new)
      BY <1>1, <3>1, <3>2, AnewIsInOrder
    <3> QED BY <1>1, <1>3, <1>4, <1>6, <2>2, <2>3, <3>3 DEF new
  <2>4. CASE /\ queue' = Append(queue, e)
             /\ \/ new = Tail(left)
                \/ /\ Len(new) = Len(left)
                   /\ Head(new).part = Head(left).part + 1
                   /\ \A i \in 2..Len(left) : new[i] = left[i]
    <3>1. new = <<>> \/ Head(new).part \in {1, Head(left).part + 1}
      BY <2>2, <2>4
    <3>2. InOrder(t, Held(t), queue, left)
      BY <1>4, <1>6
    <3>3. Unbegun(new)
      <4>1. CASE new = Tail(left)
        BY <2>2, <4>1
      <4>2. CASE /\ Len(new) = Len(left)
                 /\ \A i \in 2..Len(left) : new[i] = left[i]
        <5>1. Unbegun(left)
          BY <1>4, <1>6
        <5> HIDE DEF left, new
        <5> QED BY <4>2, <5>1 DEF Unbegun
      <4> QED BY <2>4, <4>1, <4>2
    <3>4. e = Piece(t, Head(left))
      BY <1>6
    <3> HIDE DEF left, new, e
    <3>5. InOrder(t, Held(t), Append(queue, e), new)
      BY <1>1, <2>1, <3>1, <3>2, <3>4, OwnJoins
    <3> QED BY <1>1, <1>3, <1>4, <1>6, <2>4, <3>3, <3>5 DEF new
  <2> QED BY <1>2, <2>3, <2>4
<1> QED BY <1>5, <1>6

\* xQueueReceive: the element that is taken is the first after what has been
\* shown.
LEMMA ReceiveElementKeepsOrder ==
    ASSUME PromptInv, PartsInv, ReceiveElement
    PROVE  PartsInv'
<1>1. /\ queue \in Seq(Elements) /\ queue # <<>> /\ queue' = Tail(queue)
      /\ todo = <<>> /\ todo' = Work(Head(queue))
      /\ UNCHANGED <<sending, shown>>
  BY DEF PromptInv, Types, ReceiveElement
<1>2. PICK e \in Elements : e = Head(queue)
  BY <1>1
<1> SUFFICES ASSUME NEW t \in Senders
             PROVE  /\ InOrder(t, Held(t)', queue', sending[t])
                    /\ Unbegun(sending[t])
                    /\ Held(t)' \in {shown[t], 1, shown[t] + 1}
  BY <1>1 DEF PartsInv
<1>3. /\ InOrder(t, Held(t), queue, sending[t])
      /\ Unbegun(sending[t])
  BY DEF PartsInv
<1>4. Held(t) = shown[t]
  BY <1>1 DEF Held, Left
<1>5. Held(t)' = IF e.from = t THEN e.part ELSE shown[t]
  <2>1. /\ Work(e)[1].do = "restore"
        /\ e.from = "host" =>
              /\ Len(Work(e)) = Len(e.chars) + 6
              /\ \A i \in 1..Len(e.chars) :
                    Work(e)[1 + i] = [do |-> "take", char |-> e.chars[i]]
        /\ e.from # "host" =>
              /\ Len(Work(e)) = 7
              /\ Work(e)[2] = [do |-> "show", from |-> e.from,
                               part |-> e.part, ends |-> e.ends]
    BY WorkIs, Zenon
  <2>2. todo' = Work(e) /\ Left' = Len(Work(e)) /\ shown' = shown
    BY <1>1, <1>2 DEF Left
  <2>3. CASE e.from = "host"
    <3>1. t # "host"
      BY TagFacts
    <3>2. PICK n \in Nat : n = Len(e.chars)
      <4>1. e.chars \in Seq(Characters)
        BY <2>3, TagFacts
      <4> QED BY <4>1
    <3>3. Left' = n + 6 /\ n + 6 - 5 = n + 1
      BY <2>1, <2>2, <2>3, <3>2
    <3>4. Work(e)[n + 1].do # "show"
      <4>1. CASE n = 0
        BY <2>1, <4>1
      <4>2. CASE n # 0
        <5>1. n \in 1..n /\ 1 + n = n + 1
          BY <4>2
        <5>2. Work(e)[1 + n] = [do |-> "take", char |-> e.chars[n]]
          BY <2>1, <2>3, <3>2, <5>1
        <5>3. Work(e)[n + 1] = [do |-> "take", char |-> e.chars[n]]
          BY <5>1, <5>2
        <5> QED BY <5>3
      <4> QED BY <4>1, <4>2
    <3>5. Held(t)' = shown'[t]
      BY <2>2, <3>3, <3>4 DEF Held
    <3> QED BY <2>2, <2>3, <3>1, <3>5
  <2>4. CASE e.from # "host"
    <3>1. Left' = 7 /\ 7 - 5 = 2 /\ 7 > 5
      BY <2>1, <2>2, <2>4
    <3>2. /\ todo'[2].do = "show" /\ todo'[2].from = e.from
          /\ todo'[2].part = e.part
      BY <2>1, <2>2, <2>4
    <3> QED BY <2>2, <3>1, <3>2 DEF Held
  <2> QED BY <2>3, <2>4
<1>6. /\ InOrder(t, Held(t)', Tail(queue), sending[t])
      /\ Held(t)' \in {Held(t), 1, Held(t) + 1}
  <2>1. PICK next : next = Held(t)'
    OBVIOUS
  <2>2. PICK held : held = Held(t)
    OBVIOUS
  <2>3. next = IF Head(queue).from = t THEN Head(queue).part ELSE held
    BY <1>2, <1>4, <1>5, <2>1, <2>2
  <2>4. InOrder(t, held, queue, sending[t])
    BY <1>3, <2>2
  <2>5. InOrder(t, next, Tail(queue), sending[t])
        /\ next \in {held, 1, held + 1}
    BY <1>1, <2>3, <2>4, FirstIsTaken
  <2> QED BY <2>1, <2>2, <2>5
<1> QED BY <1>1, <1>3, <1>4, <1>6

\* A character: the strings of the callback are begun from their first parts.
LEMMA TakeCharacterKeepsOrder ==
    ASSUME PromptInv, PartsInv, TakeCharacter
    PROVE  PartsInv'
<1>1. /\ todo # <<>> /\ Head(todo).do = "take" /\ todo' = Tail(todo)
      /\ sending["shell"] = <<>> /\ UNCHANGED <<queue, shown>>
      /\ sending \in [Senders -> Seq(Strings)] /\ queue \in Seq(Elements)
  BY DEF TakeCharacter, Now, PromptInv, Types
<1> SUFFICES ASSUME NEW t \in Senders
             PROVE  /\ InOrder(t, Held(t)', queue, sending'[t])
                    /\ Unbegun(sending'[t])
                    /\ Held(t)' \in {shown[t], 1, shown[t] + 1}
  BY <1>1 DEF PartsInv
<1>2. /\ InOrder(t, Held(t), queue, sending[t])
      /\ Unbegun(sending[t])
      /\ Held(t) \in {shown[t], 1, shown[t] + 1}
  BY DEF PartsInv
<1>3. Held(t)' = Held(t)
  BY <1>1, HeldStays DEF PromptInv
<1>4. CASE sending'[t] = sending[t]
  BY <1>2, <1>3, <1>4
<1>5. CASE sending'[t] # sending[t]
  <2>1. PICK strings \in Callback(line) :
           sending' = [sending EXCEPT !["shell"] = strings]
    BY <1>5 DEF TakeCharacter
  <2>2. sending'[t] = strings
    BY <1>1, <1>5, <2>1
  <2>3. strings \in Seq(Strings) /\ \A i \in 1..Len(strings) :
           strings[i].part = 1
    BY CallbackIs DEF PromptInv, Types
  <2>4. Unbegun(strings) /\ (strings = <<>> \/ Head(strings).part = 1)
    BY <2>3, UnbegunIs
  <2>5. InOrder(t, Held(t), queue, strings)
    BY <1>1, <1>2, <2>4, AnewIsInOrder
  <2> QED BY <1>2, <1>3, <2>2, <2>4, <2>5
<1> QED BY <1>4, <1>5

\* The line "restart" leaves nothing on its way.
LEMMA RestartKeepsOrder ==
    ASSUME Restart
    PROVE  PartsInv'
<1> SUFFICES ASSUME NEW t \in Senders
             PROVE  /\ InOrder(t, Held(t)', queue', sending'[t])
                    /\ Unbegun(sending'[t])
                    /\ Held(t)' \in {shown'[t], 1, shown'[t] + 1}
  BY DEF PartsInv
<1>1. queue' = <<>> /\ sending'[t] = <<>> /\ Held(t)' = shown'[t]
  BY DEF Restart, Held, Left
<1>2. \A i \in 0..1 : Has(t, <<>>, <<>>, i) => i = 0
  BY DEF Has
<1>3. InOrder(t, Held(t)', <<>>, <<>>)
  BY <1>2 DEF InOrder
<1> QED BY <1>1, <1>3 DEF Unbegun

\* raw_send: what is shown of a task's is what the terminal task held, and
\* that follows what was shown before.
LEMMA RawSendShows ==
    ASSUME PromptInv, PartsInv, RawSend
    PROVE  /\ PartsInv'
           /\ \A t \in Senders :
                 shown'[t] # shown[t] => shown'[t] \in {1, shown[t] + 1}
<1>1. /\ todo # <<>> /\ todo' = Tail(todo)
      /\ UNCHANGED <<queue, sending>>
      /\ shown' = IF Head(todo).do = "show"
                  THEN [shown EXCEPT ![Head(todo).from] = Head(todo).part]
                  ELSE shown
  BY DEF RawSend, Now, Display
<1>2. ASSUME NEW t \in Senders
      PROVE  /\ InOrder(t, Held(t)', queue', sending'[t])
             /\ Unbegun(sending'[t])
             /\ Held(t)' \in {shown'[t], 1, shown'[t] + 1}
             /\ shown'[t] # shown[t] => shown'[t] \in {1, shown[t] + 1}
  <2>1. /\ InOrder(t, Held(t), queue, sending[t])
        /\ Unbegun(sending[t])
        /\ Held(t) \in {shown[t], 1, shown[t] + 1}
    BY DEF PartsInv
  <2>2. CASE Head(todo).do = "show"
    <3>1. Held(t)' = Held(t) /\ shown'[t] = Held(t)
      BY <1>1, <2>2, HeldIsShown DEF PromptInv
    <3> QED BY <1>1, <2>1, <3>1
  <2>3. CASE Head(todo).do # "show"
    <3>1. Held(t)' = Held(t) /\ shown' = shown
      BY <1>1, <2>3, HeldStays DEF PromptInv
    <3> QED BY <1>1, <2>1, <3>1
  <2> QED BY <2>2, <2>3
<1> QED BY <1>2 DEF PartsInv

\* CDC_Receive_FS: what is typed comes between the messages and changes none.
LEMMA TypeKeepsOrder ==
    ASSUME Types, PartsInv, NEW chars \in Inputs, Type(chars)
    PROVE  PartsInv'
<1>1. chars \in Seq(Characters)
  BY DEF Characters
<1>2. \E long : Receive(chars, long)
  BY DEF Type
<1>3. PICK more \in Seq(Elements) :
         /\ queue' = queue \o more
         /\ \A k \in 1..Len(more) : more[k].from = "host"
  BY <1>1, <1>2, ReceiveIs
<1>4. queue \in Seq(Elements) /\ UNCHANGED <<sending, todo, shown>>
  BY DEF Type, Types
<1> SUFFICES ASSUME NEW t \in Senders
             PROVE  /\ InOrder(t, Held(t)', queue', sending[t])
                    /\ Unbegun(sending[t])
                    /\ Held(t)' \in {shown[t], 1, shown[t] + 1}
  BY <1>4 DEF PartsInv
<1>5. /\ InOrder(t, Held(t), queue, sending[t])
      /\ Unbegun(sending[t])
      /\ Held(t) \in {shown[t], 1, shown[t] + 1}
  BY DEF PartsInv
<1>6. Held(t)' = Held(t)
  BY <1>4 DEF Held, Left
<1>7. \A k \in 1..Len(more) : more[k].from # t
  BY <1>3, TagFacts
<1>8. InOrder(t, Held(t), queue \o more, sending[t])
  BY <1>4, <1>5, <1>7, OthersJoin
<1> QED BY <1>3, <1>5, <1>6, <1>8

\* Every step keeps the parts in order, and shows none out of it.
LEMMA PartsStep ==
    ASSUME PromptInv, PartsInv, [Next]_vars
    PROVE  /\ PartsInv'
           /\ \A t \in Senders :
                 shown'[t] # shown[t] => shown'[t] \in {1, shown[t] + 1}
<1>1. ASSUME NEW t \in Tasks, Log(t) PROVE PartsInv' /\ shown' = shown
  BY <1>1, LogKeepsOrder DEF Log, PromptInv
<1>2. ASSUME NEW t \in Senders, SendPart(t) PROVE PartsInv' /\ shown' = shown
  BY <1>2, SendPartKeepsOrder DEF SendPart, PromptInv
<1>3. ASSUME NEW chars \in Inputs, Type(chars)
      PROVE  PartsInv' /\ shown' = shown
  BY <1>3, TypeKeepsOrder DEF Type, PromptInv
<1>4. CASE Fetch \/ Plug \/ Unplug \/ UNCHANGED vars
  <2>1. UNCHANGED <<queue, sending, todo, shown>>
    BY <1>4 DEF Fetch, Plug, Unplug, vars
  <2> QED BY <2>1, PartsKept
<1>5. CASE ReceiveElement
  BY <1>5, ReceiveElementKeepsOrder DEF ReceiveElement
<1>6. CASE TakeCharacter
  BY <1>6, TakeCharacterKeepsOrder DEF TakeCharacter
<1>7. CASE Restart
  BY <1>7, RestartKeepsOrder DEF Restart
<1> QED BY <1>1, <1>2, <1>3, <1>4, <1>5, <1>6, <1>7, RawSendShows
        DEF Next, Terminal

\* send_str, Log.hpp: however many tasks log at once, with the terminal task
\* among them, and however full the queue gets, what is shown of a message
\* starts with its first part and has no holes: a message is cut at its end.
THEOREM MessagesAreShownFromTheStart == Spec => MessagesAreCutAtTheEnd
<1>1. Init => PromptInv /\ PartsInv
  BY PromptInit, PartsInit
<1>2. PromptInv /\ PartsInv /\ [Next]_vars => PromptInv' /\ PartsInv'
  BY PromptStep, PartsStep
<1>3. PromptInv /\ PartsInv /\ [Next]_vars =>
         [\A t \in Senders :
             shown'[t] # shown[t] => shown'[t] \in {1, shown[t] + 1}]_vars
  BY PartsStep
<1> QED BY <1>1, <1>2, <1>3, PTL DEF Spec, MessagesAreCutAtTheEnd

-----------------------------------------------------------------------------
(* Induction over numbers as a fact about sets, from the minimal elements  *)
(* of well-founded relations.                                              *)

\* From here on the assumption is cited where it is needed.
HIDE ShellAssumption

\* A set of numbers has a least one.
LEMMA LeastNatural ==
    ASSUME NEW T \in SUBSET Nat, T # {}
    PROVE  \E x \in T : \A y \in T : x <= y
<1>1. PICK R : R = OpToRel(<, Nat)
  OBVIOUS
<1>2. IsWellFoundedOn(R, Nat)
  BY <1>1, NatLessThanWellFounded, Zenon
<1>3. R = {ss \in Nat \X Nat : ss[1] < ss[2]}
  BY <1>1, Zenon DEF OpToRel
<1>4. PICK x \in T : \A y \in T : ~(<<y, x>> \in R)
  BY <1>2, WFMin, Zenon
<1>5. \A y \in T : ~(y < x)
  BY <1>3, <1>4
<1> QED BY <1>5

\* A set with 0 and every successor of a member has every number.
LEMMA SetInduction ==
    ASSUME NEW S, 0 \in S, \A n \in Nat : n \in S => n + 1 \in S
    PROVE  Nat \subseteq S
<1> SUFFICES ASSUME NEW m \in Nat, m \notin S PROVE FALSE
  OBVIOUS
<1> DEFINE T == {n \in Nat : n \notin S}
<1>1. PICK x \in T : \A y \in T : x <= y
  BY LeastNatural
<1>2. x # 0 /\ x \in Nat
  OBVIOUS
<1>3. x - 1 \in Nat /\ x - 1 \notin T
  BY <1>1, <1>2
<1>4. x - 1 \in S
  BY <1>3
<1>5. x - 1 + 1 = x
  BY <1>2
<1>6. x \in S
  BY <1>3, <1>4, <1>5
<1> QED BY <1>6

-----------------------------------------------------------------------------
(* The editor without limits.                                              *)

Lines == Seq(Characters)
States == [now : Lines, lines : Seq(Lines)]

After(now, c) ==
    CASE c \in Terminators -> <<>>
      [] c = "del" -> IF now = <<>> THEN now ELSE SubSeq(now, 1, Len(now) - 1)
      [] OTHER -> Append(now, c)

\* What a character does to the line and to the lines that have ended.
LEMMA EditIs ==
    ASSUME NEW s \in States, NEW c \in Characters
    PROVE  /\ Edit(s, c) \in States
           /\ Edit(s, c).now = After(s.now, c)
           /\ c \in Terminators =>
                 Edit(s, c).lines = Append(s.lines, s.now)
           /\ c \notin Terminators => Edit(s, c).lines = s.lines
<1>1. PICK w \in Lines, l \in Seq(Lines) : s = [now |-> w, lines |-> l]
  BY DEF States
<1>2. Append(l, w) \in Seq(Lines) /\ Append(w, c) \in Lines /\ <<>> \in Lines
  BY DEF Lines
<1>3. w # <<>> => SubSeq(w, 1, Len(w) - 1) \in Lines
  <2>1. w \in Seq(Characters)
    BY DEF Lines
  <2> QED BY <2>1 DEF Lines
<1> HIDE DEF Lines
<1>4. \A x \in Lines, y \in Seq(Lines) :
         /\ [now |-> x, lines |-> y] \in States
         /\ [now |-> x, lines |-> y].now = x
         /\ [now |-> x, lines |-> y].lines = y
  BY DEF States
<1>5. /\ s.now = w /\ s.lines = l
      /\ [s EXCEPT !.now = SubSeq(@, 1, Len(@) - 1)]
            = [now |-> SubSeq(w, 1, Len(w) - 1), lines |-> l]
      /\ [s EXCEPT !.now = Append(@, c)]
            = [now |-> Append(w, c), lines |-> l]
  <2>1. s.now = w /\ s.lines = l
    BY <1>1
  <2>2. \A x : [s EXCEPT !.now = x] = [now |-> x, lines |-> l]
    BY <1>1
  <2> QED BY <2>1, <2>2
<1>6. CASE c \in Terminators
  <2>1. PICK x \in Lines, y \in Seq(Lines) : x = <<>> /\ y = Append(l, w)
    BY <1>2, <1>3, <1>6, Zenon
  <2>2. Edit(s, c) = [now |-> <<>>, lines |-> Append(l, w)]
    BY <1>1, <1>5, <1>6 DEF Edit, Terminators
  <2>3. After(w, c) = <<>>
    BY <1>6 DEF After, Terminators
  <2>4. Edit(s, c) = [now |-> x, lines |-> y]
    BY <2>1, <2>2, Zenon
  <2>5. Edit(s, c) \in States /\ Edit(s, c).now = x /\ Edit(s, c).lines = y
    BY <1>4, <2>4
  <2> QED BY <1>5, <1>6, <2>1, <2>3, <2>5, Zenon
<1>7. CASE c \notin Terminators /\ c = "del" /\ w = <<>>
  <2>1. PICK x \in Lines, y \in Seq(Lines) : x = w /\ y = l
    BY <1>2, <1>3, <1>7, Zenon
  <2>2. Edit(s, c) = [now |-> w, lines |-> l]
    BY <1>1, <1>5, <1>7 DEF Edit, Terminators
  <2>3. After(w, c) = w
    BY <1>7 DEF After, Terminators
  <2>4. Edit(s, c) = [now |-> x, lines |-> y]
    BY <2>1, <2>2, Zenon
  <2>5. Edit(s, c) \in States /\ Edit(s, c).now = x /\ Edit(s, c).lines = y
    BY <1>4, <2>4
  <2> QED BY <1>5, <1>7, <2>1, <2>3, <2>5, Zenon
<1>8. CASE c \notin Terminators /\ c = "del" /\ w # <<>>
  <2>1. PICK x \in Lines, y \in Seq(Lines) :
           x = SubSeq(w, 1, Len(w) - 1) /\ y = l
    BY <1>2, <1>3, <1>8, Zenon
  <2>2. Edit(s, c) = [now |-> SubSeq(w, 1, Len(w) - 1), lines |-> l]
    BY <1>1, <1>5, <1>8 DEF Edit, Terminators
  <2>3. After(w, c) = SubSeq(w, 1, Len(w) - 1)
    BY <1>8 DEF After, Terminators
  <2>4. Edit(s, c) = [now |-> x, lines |-> y]
    BY <2>1, <2>2, Zenon
  <2>5. Edit(s, c) \in States /\ Edit(s, c).now = x /\ Edit(s, c).lines = y
    BY <1>4, <2>4
  <2> QED BY <1>5, <1>8, <2>1, <2>3, <2>5, Zenon
<1>9. CASE c \notin Terminators /\ c # "del"
  <2>1. PICK x \in Lines, y \in Seq(Lines) : x = Append(w, c) /\ y = l
    BY <1>2, <1>3, <1>9, Zenon
  <2>2. Edit(s, c) = [now |-> Append(w, c), lines |-> l]
    BY <1>1, <1>5, <1>9 DEF Edit, Terminators
  <2>3. After(w, c) = Append(w, c)
    BY <1>9 DEF After, Terminators
  <2>4. Edit(s, c) = [now |-> x, lines |-> y]
    BY <2>1, <2>2, Zenon
  <2>5. Edit(s, c) \in States /\ Edit(s, c).now = x /\ Edit(s, c).lines = y
    BY <1>4, <2>4
  <2> QED BY <1>5, <1>9, <2>1, <2>3, <2>5, Zenon
<1> QED BY <1>6, <1>7, <1>8, <1>9, Zenon

\* E is what the editor goes through from a state on, with n characters.
Goes(E, n, state, chars) ==
    /\ E \in [0..n -> States]
    /\ E[0] = state
    /\ \A k \in 1..n : E[k] = Edit(E[k - 1], chars[k])
    /\ \A j, k \in 0..n : j <= k =>
          /\ Len(E[j].lines) <= Len(E[k].lines)
          /\ \A i \in 1..Len(E[j].lines) : E[k].lines[i] = E[j].lines[i]

\* The recursive function Edits is what its equation says, and the lines that
\* have ended stay.
LEMMA EditsAre ==
    ASSUME NEW state \in States, NEW chars \in Lines,
           NEW n \in Nat, n = Len(chars), NEW E, E = Edits(state, chars)
    PROVE  Goes(E, n, state, chars)
<1>0. \A k \in 1..n : chars[k] \in Characters
  BY DEF Lines
<1> DEFINE Good(g, m) ==
             /\ g \in [0..m -> States] /\ g[0] = state
             /\ \A k \in 1..m : g[k] = Edit(g[k - 1], chars[k])
           Reached(m) == \E g : Good(g, m)
           A == {m \in Nat : m <= n => Reached(m)}
<1>1. 0 \in A
  <2>1. Good([k \in 0..0 |-> state], 0)
    OBVIOUS
  <2> QED BY <2>1
<1>2. ASSUME NEW m \in Nat, m \in A PROVE m + 1 \in A
  <2> SUFFICES ASSUME m + 1 <= n PROVE Reached(m + 1)
    <3> HIDE DEF Reached
    <3> QED OBVIOUS
  <2>0. Reached(m)
    <3> HIDE DEF Reached
    <3> QED BY <1>2
  <2>1. PICK g : Good(g, m)
    BY <2>0
  <2> DEFINE h == [k \in 0..(m + 1) |->
                      IF k <= m THEN g[k] ELSE Edit(g[m], chars[m + 1])]
  <2>2. chars[m + 1] \in Characters /\ g[m] \in States
    BY <1>0, <2>1
  <2>3. Edit(g[m], chars[m + 1]) \in States
    BY <2>2, EditIs
  <2>4. h \in [0..(m + 1) -> States] /\ h[0] = state
    BY <2>1, <2>3
  <2>5. ASSUME NEW k \in 1..(m + 1) PROVE h[k] = Edit(h[k - 1], chars[k])
    <3>1. CASE k <= m
      <4>1. h[k] = g[k] /\ h[k - 1] = g[k - 1] /\ k \in 1..m
        BY <3>1
      <4> QED BY <2>1, <4>1
    <3>2. CASE k = m + 1
      <4>1. k - 1 = m /\ ~(k <= m)
        BY <3>2
      <4>2. h[k - 1] = g[m] /\ h[k] = Edit(g[m], chars[k])
        BY <3>2, <4>1
      <4> QED BY <4>2
    <3> QED BY <3>1, <3>2
  <2> QED BY <2>4, <2>5
<1> HIDE DEF A
<1>3. Nat \subseteq A
  BY <1>1, <1>2, SetInduction
<1>4. PICK g : Good(g, n)
  <2>1. Reached(n)
    <3> HIDE DEF Reached
    <3> QED BY <1>3 DEF A
  <2> QED BY <2>1
<1> DEFINE P(f) == f = [m \in 0..Len(chars) |->
                           IF m = 0 THEN state ELSE Edit(f[m - 1], chars[m])]
<1>5. P(g)
  BY <1>4
<1>6. Edits(state, chars) = CHOOSE f : P(f)
  BY Zenon DEF Edits
<1>7. P(E)
  <2> HIDE DEF P
  <2> QED BY <1>5, <1>6, Zenon
<1>8. /\ DOMAIN E = 0..n /\ E[0] = state
      /\ \A k \in 1..n : E[k] = Edit(E[k - 1], chars[k])
      /\ E = [k \in 0..n |-> E[k]]
  BY <1>7
<1> HIDE DEF P, Good
<1>s. \A m \in Nat : m + 1 <= n => E[m + 1] = Edit(E[m], chars[m + 1])
  <2> SUFFICES ASSUME NEW m \in Nat, m + 1 <= n
               PROVE  E[m + 1] = Edit(E[m], chars[m + 1])
    OBVIOUS
  <2>1. PICK k \in 1..n : k = m + 1 /\ k - 1 = m
    OBVIOUS
  <2> QED BY <1>8, <2>1
<1>9. \A k \in 0..n : E[k] \in States
  <2> DEFINE B == {m \in Nat : m <= n => E[m] \in States}
  <2>1. 0 \in B
    BY <1>8
  <2>2. ASSUME NEW m \in Nat, m \in B PROVE m + 1 \in B
    <3> SUFFICES ASSUME m + 1 <= n PROVE E[m + 1] \in States
      OBVIOUS
    <3>1. E[m] \in States /\ m + 1 \in 1..n /\ m + 1 - 1 = m
      BY <2>2
    <3>2. E[m + 1] = Edit(E[m], chars[m + 1]) /\ chars[m + 1] \in Characters
      BY <1>0, <1>s, <3>1
    <3> QED BY <3>1, <3>2, EditIs, Zenon
  <2> HIDE DEF B
  <2>3. Nat \subseteq B
    BY <2>1, <2>2, SetInduction
  <2> QED BY <2>3 DEF B
<1>10. \A j, k \in 0..n : j <= k =>
          /\ Len(E[j].lines) <= Len(E[k].lines)
          /\ \A i \in 1..Len(E[j].lines) : E[k].lines[i] = E[j].lines[i]
  <2> DEFINE Starts(l, m) == /\ Len(l) <= Len(m)
                             /\ \A i \in 1..Len(l) : m[i] = l[i]
             D == {m \in Nat : m <= n =>
                      \A j \in 0..m : Starts(E[j].lines, E[m].lines)}
  <2>1. 0 \in D
    <3>1. E[0] \in States
      BY <1>9
    <3>2. E[0].lines \in Seq(Lines)
      BY <3>1 DEF States
    <3> QED BY <3>2
  <2>2. ASSUME NEW m \in Nat, m \in D PROVE m + 1 \in D
    <3> SUFFICES ASSUME m + 1 <= n, NEW j \in 0..(m + 1)
                 PROVE  Starts(E[j].lines, E[m + 1].lines)
      OBVIOUS
    <3>1. /\ E[m] \in States /\ m + 1 \in 1..n /\ m + 1 - 1 = m
          /\ E[m + 1] \in States /\ m \in 0..n
      BY <1>9
    <3>2. \/ E[m + 1].lines = Append(E[m].lines, E[m].now)
          \/ E[m + 1].lines = E[m].lines
      <4>1. E[m + 1] = Edit(E[m], chars[m + 1])
            /\ chars[m + 1] \in Characters
        BY <1>0, <1>s, <3>1
      <4>2. \A s \in States, c \in Characters :
               \/ Edit(s, c).lines = Append(s.lines, s.now)
               \/ Edit(s, c).lines = s.lines
        BY EditIs, Zenon
      <4>3. PICK t \in States, d \in Characters :
               t = E[m] /\ d = chars[m + 1]
        BY <3>1, <4>1, Zenon
      <4>4. E[m + 1] = Edit(t, d)
        BY <4>1, <4>3, Zenon
      <4>5. \/ Edit(t, d).lines = Append(t.lines, t.now)
            \/ Edit(t, d).lines = t.lines
        BY <4>2, Zenon
      <4> QED BY <4>3, <4>4, <4>5, Zenon
    <3>3. E[m].lines \in Seq(Lines) /\ E[m + 1].lines \in Seq(Lines)
      BY <3>1 DEF States
    <3>4. CASE j = m + 1
      BY <3>3, <3>4
    <3>5. CASE j \in 0..m
      <4>1. Starts(E[j].lines, E[m].lines)
        BY <2>2, <3>5, <3>1
      <4>2. E[j] \in States
        BY <1>9, <3>1, <3>5
      <4>3. E[j].lines \in Seq(Lines)
        BY <4>2 DEF States
      <4>4. Starts(E[m].lines, E[m + 1].lines)
        <5>1. PICK l \in Seq(Lines), x \in Lines :
                 l = E[m].lines /\ x = E[m].now
          BY <3>1, <3>3 DEF States
        <5>3. Starts(l, l) /\ Starts(l, Append(l, x))
          OBVIOUS
        <5> QED BY <3>2, <5>1, <5>3
      <4> HIDE DEF Lines
      <4>5. PICK a \in Seq(Lines), b \in Seq(Lines), d \in Seq(Lines) :
               a = E[j].lines /\ b = E[m].lines /\ d = E[m + 1].lines
        BY <3>3, <4>3
      <4>6. Starts(a, b) /\ Starts(b, d) => Starts(a, d)
        OBVIOUS
      <4> QED BY <4>1, <4>4, <4>5, <4>6
    <3> QED BY <3>4, <3>5
  <2> HIDE DEF D
  <2>3. Nat \subseteq D
    BY <2>1, <2>2, SetInduction
  <2> QED BY <2>3 DEF D
<1>11. E \in [0..n -> States]
  BY <1>8, <1>9
<1> QED BY <1>8, <1>10, <1>11 DEF Goes

-----------------------------------------------------------------------------
(* The characters on their way to the line: what the editor without limits *)
(* makes of them, one after the other.                                     *)

\* From the line first, the characters chars[1..n] lead through the lines
\* now[0..n] to last; by then ended[k] lines have ended, those of lines.
Played(n, chars, now, ended, first, last, lines) ==
    /\ chars \in [1..n -> Characters]
    /\ now \in [0..n -> Lines] /\ now[0] = first /\ now[n] = last
    /\ lines \in Seq(Lines)
    /\ ended \in [0..n -> Nat] /\ ended[0] = 0 /\ ended[n] = Len(lines)
    /\ \A j, k \in 0..n : j <= k => ended[j] <= ended[k]
    /\ \A k \in 1..n :
          /\ now[k] = After(now[k - 1], chars[k])
          /\ Len(now[k]) <= LineSize
          /\ chars[k] \in Terminators =>
                ended[k] = ended[k - 1] + 1 /\ lines[ended[k]] = now[k - 1]
          /\ chars[k] \notin Terminators => ended[k] = ended[k - 1]

\* A line that does not grow too long is edited as one without limits.
LEMMA NewCharIs ==
    ASSUME NEW w \in Lines, NEW c \in Characters,
           Len(After(w, c)) <= LineSize
    PROVE  NewChar(w, c) = After(w, c)
<1>1. w \in Seq(Characters) /\ Len(w) \in Nat
  BY DEF Lines
<1>2. CASE c \in Terminators
  BY <1>2 DEF NewChar, After, Terminators
<1>3. CASE c \notin Terminators /\ c = "del"
  BY <1>3 DEF NewChar, After, Terminators
<1>4. CASE c \notin Terminators /\ c # "del"
  <2>1. After(w, c) = Append(w, c)
    BY <1>4 DEF After, Terminators
  <2>2. Len(Append(w, c)) = Len(w) + 1
    BY <1>1
  <2>3. Len(w) # LineSize
    BY <1>1, <2>1, <2>2
  <2>4. NewChar(w, c) = IF Len(w) = LineSize THEN w ELSE Append(w, c)
    BY <1>4 DEF NewChar, Terminators
  <2> QED BY <2>1, <2>3, <2>4
<1> QED BY <1>2, <1>3, <1>4

\* The n others are what is left of chars without the first.
Rests(n, others, chars) == \A k \in 1..n : others[k] = chars[k + 1]

\* The first character is taken into the line.
LEMMA FirstIsPlayed ==
    ASSUME NEW n \in Nat, NEW chars, NEW now, NEW ended,
           NEW first, NEW last, NEW lines, NEW rest,
           Played(n + 1, chars, now, ended, first, last, lines),
           chars[1] \in Terminators => rest = Tail(lines),
           chars[1] \notin Terminators => rest = lines
    PROVE  /\ chars[1] \in Terminators => Head(lines) = first
           /\ \E others, then, since :
                 /\ Played(n, others, then, since,
                           NewChar(first, chars[1]), last, rest)
                 /\ Rests(n, others, chars)
<1>p. /\ chars \in [1..(n + 1) -> Characters]
      /\ now \in [0..(n + 1) -> Lines] /\ now[0] = first /\ now[n + 1] = last
      /\ lines \in Seq(Lines)
      /\ ended \in [0..(n + 1) -> Nat] /\ ended[0] = 0
      /\ ended[n + 1] = Len(lines)
      /\ \A j, k \in 0..(n + 1) : j <= k => ended[j] <= ended[k]
      /\ \A k \in 1..(n + 1) :
            /\ now[k] = After(now[k - 1], chars[k])
            /\ Len(now[k]) <= LineSize
            /\ chars[k] \in Terminators =>
                  ended[k] = ended[k - 1] + 1 /\ lines[ended[k]] = now[k - 1]
            /\ chars[k] \notin Terminators => ended[k] = ended[k - 1]
  BY DEF Played
<1>1. /\ now[1] = After(first, chars[1]) /\ Len(now[1]) <= LineSize
      /\ chars[1] \in Characters /\ first \in Lines
      /\ chars[1] \in Terminators => ended[1] = 1 /\ lines[1] = first
      /\ chars[1] \notin Terminators => ended[1] = 0
  <2>1. PICK k \in 1..(n + 1) : k = 1 /\ k - 1 = 0
    OBVIOUS
  <2> QED BY <1>p, <2>1
<1>2. NewChar(first, chars[1]) = now[1]
  BY <1>1, NewCharIs
<1>3. PICK m \in Nat, one \in 0..1 :
         /\ m = Len(lines) /\ one = ended[1] /\ one <= m
         /\ chars[1] \in Terminators => one = 1 /\ lines[1] = first
         /\ chars[1] \notin Terminators => one = 0
  <2>1. 1 \in 0..(n + 1) /\ n + 1 \in 0..(n + 1) /\ 1 <= n + 1
    OBVIOUS
  <2>2. ended[1] <= Len(lines) /\ Len(lines) \in Nat
    BY <1>p, <2>1
  <2> QED BY <1>1, <2>2
<1>4. /\ rest \in Seq(Lines) /\ Len(rest) = m - one
      /\ \A i \in 1..(m - one) : rest[i] = lines[i + one]
  <2>1. CASE chars[1] \in Terminators
    <3>1. lines # <<>> /\ rest = Tail(lines)
      BY <1>3, <1>p, <2>1
    <3> QED BY <1>3, <1>p, <2>1, <3>1
  <2>2. CASE chars[1] \notin Terminators
    BY <1>3, <1>p, <2>2
  <2> QED BY <2>1, <2>2
<1>5. chars[1] \in Terminators => Head(lines) = first
  BY <1>3, <1>p
<1> DEFINE others == [k \in 1..n |-> chars[k + 1]]
           then == [k \in 0..n |-> now[k + 1]]
           since == [k \in 0..n |-> ended[k + 1] - one]
<1>6. \A k \in 0..n : /\ since[k] \in Nat /\ since[k] = ended[k + 1] - one
                      /\ ended[k + 1] \in Nat
                      /\ then[k] = now[k + 1] /\ then[k] \in Lines
  <2> SUFFICES ASSUME NEW k \in 0..n
               PROVE  /\ since[k] \in Nat /\ since[k] = ended[k + 1] - one
                      /\ ended[k + 1] \in Nat
                      /\ then[k] = now[k + 1] /\ then[k] \in Lines
    OBVIOUS
  <2>1. k + 1 \in 0..(n + 1) /\ 1 \in 0..(n + 1) /\ 1 <= k + 1
    OBVIOUS
  <2>2. ended[1] <= ended[k + 1] /\ ended[k + 1] \in Nat
        /\ now[k + 1] \in Lines
    BY <1>p, <2>1
  <2> QED BY <1>3, <2>2
<1>7. others \in [1..n -> Characters]
  <2>1. \A k \in 1..n : k + 1 \in 1..(n + 1)
    OBVIOUS
  <2>2. \A k \in 1..n : chars[k + 1] \in Characters
    BY <1>p, <2>1
  <2> QED BY <2>2
<1>8. then \in [0..n -> Lines] /\ since \in [0..n -> Nat]
  BY <1>6
<1>9. /\ then[0] = now[1] /\ then[n] = last /\ since[0] = 0
      /\ since[n] = Len(rest)
  <2>1. 0 \in 0..n /\ n \in 0..n /\ 0 + 1 = 1
    OBVIOUS
  <2>2. /\ then[0] = now[1] /\ then[n] = now[n + 1]
        /\ since[0] = ended[1] - one /\ since[n] = ended[n + 1] - one
    BY <2>1
  <2> HIDE DEF others, then, since
  <2>3. now[n + 1] = last /\ ended[n + 1] = Len(lines)
    BY <1>p
  <2> QED BY <1>3, <1>4, <2>2, <2>3
<1>10. ASSUME NEW j \in 0..n, NEW k \in 0..n, j <= k
       PROVE  since[j] <= since[k]
  <2>1. j + 1 \in 0..(n + 1) /\ k + 1 \in 0..(n + 1) /\ j + 1 <= k + 1
    BY <1>10
  <2>2. ended[j + 1] <= ended[k + 1]
    BY <1>p, <2>1
  <2>3. /\ since[j] = ended[j + 1] - one /\ since[k] = ended[k + 1] - one
        /\ ended[j + 1] \in Nat /\ ended[k + 1] \in Nat
    BY <1>6
  <2> HIDE DEF since, then, others
  <2>4. PICK a \in Nat, b \in Nat : a = ended[j + 1] /\ b = ended[k + 1]
    BY <2>3
  <2> QED BY <2>2, <2>3, <2>4
<1>11. ASSUME NEW k \in 1..n
       PROVE  /\ then[k] = After(then[k - 1], others[k])
              /\ Len(then[k]) <= LineSize
              /\ others[k] \in Terminators =>
                    since[k] = since[k - 1] + 1 /\ rest[since[k]] = then[k - 1]
              /\ others[k] \notin Terminators => since[k] = since[k - 1]
  <2>1. PICK l \in 1..(n + 1) : l = k + 1 /\ l - 1 = k
    OBVIOUS
  <2>2. /\ now[l] = After(now[k], chars[l])
        /\ Len(now[l]) <= LineSize
        /\ chars[l] \in Terminators =>
              ended[l] = ended[k] + 1 /\ lines[ended[l]] = now[k]
        /\ chars[l] \notin Terminators => ended[l] = ended[k]
    BY <1>p, <2>1
  <2>3. k - 1 \in 0..n /\ k \in 0..n /\ k - 1 + 1 = k
    OBVIOUS
  <2>4. /\ then[k] = now[l] /\ then[k - 1] = now[k] /\ others[k] = chars[l]
        /\ since[k] = ended[l] - one /\ since[k - 1] = ended[k] - one
        /\ since[k] \in Nat /\ since[k - 1] \in Nat
        /\ ended[l] \in Nat /\ ended[k] \in Nat
    BY <1>6, <2>1, <2>3
  <2>5. ended[l] <= m
    <3>1. l \in 0..(n + 1) /\ n + 1 \in 0..(n + 1) /\ l <= n + 1
      BY <2>1
    <3> QED BY <1>3, <1>p, <3>1
  <2> HIDE DEF then, since, others
  <2>6. others[k] \in Terminators =>
           /\ since[k] = since[k - 1] + 1
           /\ since[k] \in 1..(m - one) /\ since[k] + one = ended[l]
    <3>1. PICK a \in Nat, b \in Nat, x \in Nat, y \in Nat :
             /\ a = since[k] /\ b = since[k - 1]
             /\ x = ended[l] /\ y = ended[k]
      BY <2>4
    <3>2. /\ a = x - one /\ b = y - one /\ x <= m
          /\ others[k] \in Terminators => x = y + 1
      BY <2>2, <2>4, <2>5, <3>1
    <3>3. x = y + 1 => a = b + 1 /\ a \in 1..(m - one) /\ a + one = x
      <4>1. m \in Nat /\ one \in 0..1
        OBVIOUS
      <4>2. a = x - one /\ b = y - one /\ x <= m
        BY <3>2
      <4> QED BY <4>1, <4>2
    <3> QED BY <3>1, <3>2, <3>3
  <2>7. others[k] \in Terminators => rest[since[k]] = then[k - 1]
    BY <1>4, <2>2, <2>4, <2>6
  <2> QED BY <2>2, <2>4, <2>6, <2>7
<1>12. \A k \in 1..n : others[k] = chars[k + 1]
  OBVIOUS
<1> HIDE DEF others, then, since
<1>13. Rests(n, others, chars)
  BY <1>12 DEF Rests
<1>14. Played(n, others, then, since, NewChar(first, chars[1]), last, rest)
  BY <1>2, <1>4, <1>7, <1>8, <1>9, <1>10, <1>11 DEF Played
<1> QED BY <1>5, <1>13, <1>14, Zenon

\* No line that m more characters make is longer than the buffer.
Short(E, m, more) ==
    m = Len(more) /\ \A k \in 1..m : Len(E[k].now) <= LineSize

\* The m characters of more follow the n of chars.
Follow(n, m, all, chars, more) ==
    /\ \A k \in 1..n : all[k] = chars[k]
    /\ \A k \in 1..m : all[n + k] = more[k]

\* What is typed is played behind what is there.
LEMMA MoreIsPlayed ==
    ASSUME NEW n \in Nat, NEW chars, NEW now, NEW ended,
           NEW first, NEW last, NEW lines,
           Played(n, chars, now, ended, first, last, lines),
           NEW more \in Lines, NEW m \in Nat, NEW E,
           Goes(E, m, [now |-> last, lines |-> lines], more),
           Short(E, m, more)
    PROVE  \E all, then, since :
              /\ Played(n + m, all, then, since,
                        first, E[m].now, E[m].lines)
              /\ Follow(n, m, all, chars, more)
<1>0. m = Len(more) /\ \A k \in 1..m : Len(E[k].now) <= LineSize
  BY DEF Short
<1> USE <1>0
<1>p. /\ chars \in [1..n -> Characters]
      /\ now \in [0..n -> Lines] /\ now[0] = first /\ now[n] = last
      /\ lines \in Seq(Lines)
      /\ ended \in [0..n -> Nat] /\ ended[0] = 0 /\ ended[n] = Len(lines)
      /\ \A j, k \in 0..n : j <= k => ended[j] <= ended[k]
      /\ \A k \in 1..n :
            /\ now[k] = After(now[k - 1], chars[k])
            /\ Len(now[k]) <= LineSize
            /\ chars[k] \in Terminators =>
                  ended[k] = ended[k - 1] + 1 /\ lines[ended[k]] = now[k - 1]
            /\ chars[k] \notin Terminators => ended[k] = ended[k - 1]
  BY DEF Played
<1>2. /\ E \in [0..m -> States]
      /\ E[0] = [now |-> last, lines |-> lines]
      /\ \A k \in 1..m : E[k] = Edit(E[k - 1], more[k])
      /\ \A j, k \in 0..m : j <= k =>
            /\ Len(E[j].lines) <= Len(E[k].lines)
            /\ \A i \in 1..Len(E[j].lines) : E[k].lines[i] = E[j].lines[i]
  BY DEF Goes
<1> DEFINE at == [k \in 0..m |-> E[k].now]
           past == [k \in 0..m |-> E[k].lines]
           count == [k \in 0..m |-> Len(past[k])]
<1>3. \A k \in 0..m : /\ at[k] = E[k].now /\ at[k] \in Lines
                      /\ past[k] = E[k].lines /\ past[k] \in Seq(Lines)
                      /\ count[k] = Len(past[k]) /\ count[k] \in Nat
  <2> SUFFICES ASSUME NEW k \in 0..m
               PROVE  E[k].now \in Lines /\ E[k].lines \in Seq(Lines)
    OBVIOUS
  <2>1. E[k] \in States
    BY <1>2
  <2> QED BY <2>1 DEF States
<1>4. at[0] = last /\ past[0] = lines /\ count[0] = Len(lines)
  BY <1>2, <1>3
<1>5. \A j, k \in 0..m : j <= k =>
         /\ count[j] <= count[k]
         /\ \A i \in 1..count[j] : past[k][i] = past[j][i]
  BY <1>2, <1>3
<1>6. \A k \in 1..m : more[k] \in Characters
  BY DEF Lines
<1>7. ASSUME NEW k \in 1..m
      PROVE  /\ at[k] = After(at[k - 1], more[k])
             /\ Len(at[k]) <= LineSize
             /\ more[k] \in Terminators =>
                   count[k] = count[k - 1] + 1 /\ past[k][count[k]] = at[k - 1]
             /\ more[k] \notin Terminators => count[k] = count[k - 1]
  <2>1. k \in 0..m /\ k - 1 \in 0..m
    OBVIOUS
  <2>2. PICK s \in States, c \in Characters :
           s = E[k - 1] /\ c = more[k] /\ E[k] = Edit(s, c)
    <3>1. E[k - 1] \in States /\ more[k] \in Characters
      BY <1>2, <1>6, <2>1
    <3>2. E[k] = Edit(E[k - 1], more[k])
      BY <1>2
    <3> QED BY <3>1, <3>2, Zenon
  <2>3. PICK l \in Seq(Lines), w \in Lines : l = s.lines /\ w = s.now
    BY <2>2 DEF States
  <2>4. /\ E[k].now = After(w, c)
        /\ c \in Terminators => E[k].lines = Append(l, w)
        /\ c \notin Terminators => E[k].lines = l
    <3>1. /\ Edit(s, c).now = After(s.now, c)
          /\ c \in Terminators => Edit(s, c).lines = Append(s.lines, s.now)
          /\ c \notin Terminators => Edit(s, c).lines = s.lines
      BY EditIs, Zenon
    <3> QED BY <2>2, <2>3, <3>1, Zenon
  <2>5. Len(Append(l, w)) = Len(l) + 1 /\ Append(l, w)[Len(l) + 1] = w
    OBVIOUS
  <2>6. /\ at[k] = E[k].now /\ past[k] = E[k].lines
        /\ at[k - 1] = w /\ past[k - 1] = l
        /\ count[k] = Len(past[k]) /\ count[k - 1] = Len(l)
    BY <1>3, <2>1, <2>2, <2>3, Zenon
  <2>7. Len(at[k]) <= LineSize
    BY <2>6
  <2> HIDE DEF at, past, count
  <2> QED BY <2>2, <2>4, <2>5, <2>6, <2>7, Zenon
<1> HIDE DEF at, past, count
<1> DEFINE all == [k \in 1..(n + m) |-> IF k <= n THEN chars[k]
                                        ELSE more[k - n]]
           then == [k \in 0..(n + m) |-> IF k <= n THEN now[k] ELSE at[k - n]]
           since == [k \in 0..(n + m) |-> IF k <= n THEN ended[k]
                                          ELSE count[k - n]]
<1>8. \A k \in 0..n : then[k] = now[k] /\ since[k] = ended[k]
  OBVIOUS
<1>9. \A k \in 0..m : then[n + k] = at[k] /\ since[n + k] = count[k]
  <2> SUFFICES ASSUME NEW k \in 0..m
               PROVE  then[n + k] = at[k] /\ since[n + k] = count[k]
    OBVIOUS
  <2>1. CASE k = 0
    <3>1. n + k = n /\ n \in 0..n /\ n \in 0..(n + m)
      BY <2>1
    <3> QED BY <1>4, <1>8, <1>p, <2>1, <3>1
  <2>2. CASE k > 0
    <3>1. n + k \in 0..(n + m) /\ ~(n + k <= n) /\ n + k - n = k
      BY <2>2
    <3> QED BY <3>1
  <2> QED BY <2>1, <2>2
<1>10. /\ \A k \in 1..n : all[k] = chars[k] /\ all[k] \in Characters
       /\ \A k \in 1..m : all[n + k] = more[k] /\ all[n + k] \in Characters
  <2>1. \A k \in 1..n : all[k] = chars[k]
    OBVIOUS
  <2>2. ASSUME NEW k \in 1..m PROVE all[n + k] = more[k]
    <3>1. n + k \in 1..(n + m) /\ ~(n + k <= n) /\ n + k - n = k
      OBVIOUS
    <3> QED BY <3>1
  <2> HIDE DEF all
  <2> QED BY <1>6, <1>p, <2>1, <2>2
<1>11. /\ DOMAIN all = 1..(n + m) /\ DOMAIN then = 0..(n + m)
       /\ DOMAIN since = 0..(n + m)
       /\ all = [k \in 1..(n + m) |-> all[k]]
       /\ then = [k \in 0..(n + m) |-> then[k]]
       /\ since = [k \in 0..(n + m) |-> since[k]]
  OBVIOUS
<1> HIDE DEF all, then, since
<1>12. \A k \in 0..(n + m) :
          \/ k \in 0..n
          \/ \E j \in 1..m : k = n + j
  <2> SUFFICES ASSUME NEW k \in 0..(n + m), k \notin 0..n
               PROVE  \E j \in 1..m : k = n + j
    OBVIOUS
  <2>1. k - n \in 1..m /\ k = n + (k - n)
    OBVIOUS
  <2> QED BY <2>1
<1>13. /\ all \in [1..(n + m) -> Characters]
       /\ then \in [0..(n + m) -> Lines] /\ since \in [0..(n + m) -> Nat]
  <2>1. ASSUME NEW k \in 1..(n + m) PROVE all[k] \in Characters
    <3>1. k \in 1..n \/ \E j \in 1..m : k = n + j
      BY <1>12
    <3> QED BY <1>10, <3>1
  <2>2. ASSUME NEW k \in 0..(n + m) PROVE then[k] \in Lines /\ since[k] \in Nat
    <3>1. CASE k \in 0..n
      <4>1. now[k] \in Lines /\ ended[k] \in Nat
        BY <1>p, <3>1
      <4> QED BY <1>8, <3>1, <4>1
    <3>2. CASE k \notin 0..n
      <4>1. PICK j \in 1..m : k = n + j
        BY <1>12, <3>2
      <4>2. j \in 0..m
        OBVIOUS
      <4> QED BY <1>3, <1>9, <4>1, <4>2
    <3> QED BY <3>1, <3>2
  <2> QED BY <1>11, <2>1, <2>2
<1>14. /\ then[0] = first /\ then[n + m] = E[m].now
       /\ since[0] = 0 /\ since[n + m] = Len(E[m].lines)
       /\ E[m].lines \in Seq(Lines) /\ E[m].lines = past[m]
  <2>1. 0 \in 0..n /\ m \in 0..m
    OBVIOUS
  <2> QED BY <1>3, <1>8, <1>9, <1>p, <2>1
<1>15. ASSUME NEW j \in 0..(n + m), NEW k \in 0..(n + m), j <= k
       PROVE  since[j] <= since[k]
  <2>1. \A x \in 0..n : ended[x] <= Len(lines) /\ ended[x] \in Nat
    <3>1. \A x \in 0..n : x <= n /\ n \in 0..n
      OBVIOUS
    <3> QED BY <1>p, <3>1
  <2>2. \A y \in 1..m : Len(lines) <= count[y] /\ count[y] \in Nat
    <3>1. \A y \in 1..m : 0 <= y /\ 0 \in 0..m /\ y \in 0..m
      OBVIOUS
    <3> QED BY <1>3, <1>4, <1>5, <3>1
  <2>3. CASE k \in 0..n
    <3>1. j \in 0..n
      BY <1>15, <2>3
    <3> QED BY <1>8, <1>15, <1>p, <2>3, <3>1
  <2>4. CASE k \notin 0..n
    <3>1. PICK y \in 1..m : k = n + y
      BY <1>12, <2>4
    <3>2. CASE j \in 0..n
      <4>1. since[j] = ended[j] /\ since[k] = count[y]
        BY <1>8, <1>9, <3>1, <3>2
      <4>2. /\ ended[j] <= Len(lines) /\ Len(lines) <= count[y]
            /\ ended[j] \in Nat /\ count[y] \in Nat /\ Len(lines) \in Nat
        BY <1>p, <2>1, <2>2, <3>2
      <4> QED BY <4>1, <4>2
    <3>3. CASE j \notin 0..n
      <4>1. PICK x \in 1..m : j = n + x
        BY <1>12, <3>3
      <4>2. x <= y
        BY <1>15, <3>1, <4>1
      <4>3. x \in 0..m /\ y \in 0..m
        OBVIOUS
      <4>4. count[x] <= count[y]
        BY <1>5, <4>2, <4>3
      <4>5. since[j] = count[x] /\ since[k] = count[y]
        BY <1>9, <3>1, <4>1, <4>3
      <4> QED BY <4>4, <4>5
    <3> QED BY <3>2, <3>3
  <2> QED BY <2>3, <2>4
<1>16. ASSUME NEW k \in 1..(n + m)
       PROVE  /\ then[k] = After(then[k - 1], all[k])
              /\ Len(then[k]) <= LineSize
              /\ all[k] \in Terminators =>
                    /\ since[k] = since[k - 1] + 1
                    /\ past[m][since[k]] = then[k - 1]
              /\ all[k] \notin Terminators => since[k] = since[k - 1]
  <2>1. CASE k \in 1..n
    <3>1. k \in 0..n /\ k - 1 \in 0..n /\ n \in 0..n /\ k <= n
      BY <2>1
    <3>2. /\ then[k] = now[k] /\ then[k - 1] = now[k - 1]
          /\ since[k] = ended[k] /\ since[k - 1] = ended[k - 1]
          /\ all[k] = chars[k] /\ ended[k] <= Len(lines)
          /\ ended[k] \in Nat /\ ended[k - 1] \in Nat
      BY <1>8, <1>10, <1>p, <2>1, <3>1
    <3>3. \A i \in 1..Len(lines) : past[m][i] = lines[i]
      <4>1. 0 \in 0..m /\ m \in 0..m /\ 0 <= m
        OBVIOUS
      <4>2. \A i \in 1..count[0] : past[m][i] = past[0][i]
        BY <1>5, <4>1
      <4> QED BY <1>4, <4>2, Zenon
    <3>4. all[k] \in Terminators =>
             /\ since[k] = since[k - 1] + 1
             /\ since[k] \in 1..Len(lines) /\ lines[since[k]] = then[k - 1]
      <4>1. all[k] \in Terminators =>
               ended[k] = ended[k - 1] + 1 /\ lines[ended[k]] = now[k - 1]
        BY <1>p, <2>1, <3>2, Zenon
      <4>2. PICK a \in Nat, b \in Nat, c \in Nat :
               a = ended[k - 1] /\ b = ended[k] /\ c = Len(lines)
        BY <1>p, <3>2
      <4>3. b = a + 1 => b \in 1..Len(lines)
        BY <3>2, <4>2
      <4> QED BY <3>2, <4>1, <4>2, <4>3, Zenon
    <3> QED BY <1>p, <2>1, <3>2, <3>3, <3>4
  <2>2. CASE k \notin 1..n
    <3>1. PICK j \in 1..m : k = n + j
      BY <1>12, <2>2
    <3>2. j \in 0..m /\ j - 1 \in 0..m /\ k - 1 = n + (j - 1) /\ m \in 0..m
          /\ j <= m
      BY <3>1
    <3>3. /\ then[k] = at[j] /\ then[k - 1] = at[j - 1]
          /\ since[k] = count[j] /\ since[k - 1] = count[j - 1]
          /\ all[k] = more[j]
          /\ count[j] \in Nat /\ count[j - 1] \in Nat
      BY <1>3, <1>9, <1>10, <3>1, <3>2
    <3>4. /\ at[j] = After(at[j - 1], more[j])
          /\ Len(at[j]) <= LineSize
          /\ more[j] \in Terminators =>
                count[j] = count[j - 1] + 1 /\ past[j][count[j]] = at[j - 1]
          /\ more[j] \notin Terminators => count[j] = count[j - 1]
      BY <1>7
    <3>5. \A i \in 1..count[j] : past[m][i] = past[j][i]
      BY <1>5, <3>2
    <3>6. more[j] \in Terminators => count[j] \in 1..count[j]
      BY <3>3, <3>4
    <3> QED BY <3>3, <3>4, <3>5, <3>6
  <2> QED BY <2>1, <2>2
<1>17. Played(n + m, all, then, since, first, E[m].now, E[m].lines)
  BY <1>13, <1>14, <1>15, <1>16 DEF Played
<1>18. Follow(n, m, all, chars, more)
  BY <1>10 DEF Follow
<1> QED BY <1>17, <1>18, Zenon

-----------------------------------------------------------------------------
(* Where the characters are: those the terminal task has still to take,    *)
(* then those of the elements in the queue.                                *)

\* The chunks of a packet: where each ends, and what it holds.
LEMMA ChunksAre ==
    ASSUME NEW chars \in Lines
    PROVE  \E m \in Nat : \E end \in [0..m -> 0..Len(chars)] :
              /\ Chunks(chars) \in Seq(Lines) /\ Len(Chunks(chars)) = m
              /\ end[0] = 0 /\ end[m] = Len(chars)
              /\ \A j, k \in 0..m : j <= k => end[j] <= end[k]
              /\ \A k \in 1..m :
                    /\ Len(Chunks(chars)[k]) = end[k] - end[k - 1]
                    /\ \A j \in 1..Len(Chunks(chars)[k]) :
                          Chunks(chars)[k][j] = chars[end[k - 1] + j]
<1>1. PICK l \in Nat, size \in Nat \ {0} :
         l = Len(chars) /\ size = ChunkSize /\ chars \in Seq(Characters)
  BY ShellAssumption DEF Lines
<1>2. PICK m \in Nat : m = (l + size - 1) \div size
  BY <1>1
<1>3. /\ m * size <= l + size - 1 /\ l + size - 1 < m * size + size
      /\ m * size \in Nat
  BY <1>1, <1>2
<1>4. \A j, k \in Nat : j <= k => j * size <= k * size
  <2> SUFFICES ASSUME NEW j \in Nat, NEW k \in Nat, j <= k
               PROVE  j * size <= k * size
    OBVIOUS
  <2>1. PICK d \in Nat : d = k - j /\ k = j + d
    OBVIOUS
  <2>2. k * size = j * size + d * size /\ d * size >= 0
        /\ j * size \in Nat /\ d * size \in Nat
    BY <1>1, <2>1
  <2> QED BY <2>2
<1>5. \A k \in Nat : k * size \in Nat
  BY <1>1
<1>6. l <= m * size
  BY <1>1, <1>3
<1>7. \A k \in 1..m : (k - 1) * size < l
  <2> SUFFICES ASSUME NEW k \in 1..m PROVE (k - 1) * size < l
    OBVIOUS
  <2>1. k * size <= m * size /\ k * size = (k - 1) * size + size
        /\ k * size \in Nat /\ (k - 1) * size \in Nat
    BY <1>1, <1>4
  <2> QED BY <1>1, <1>3, <2>1
<1> DEFINE stop(k) == IF k * size < l THEN k * size ELSE l
           end == [k \in 0..m |-> stop(k)]
<1>8. \A k \in 0..m : end[k] \in 0..l /\ end[k] = stop(k)
  <2> SUFFICES ASSUME NEW k \in 0..m PROVE stop(k) \in 0..l
    OBVIOUS
  <2>1. PICK p \in Nat : p = k * size
    BY <1>5
  <2>2. stop(k) = IF p < l THEN p ELSE l
    BY <2>1, Zenon
  <2> HIDE DEF stop
  <2> QED BY <2>2
<1>9. end \in [0..m -> 0..l]
  <2> HIDE DEF stop
  <2>1. \A k \in 0..m : stop(k) \in 0..l
    BY <1>8
  <2> QED BY <2>1
<1>10. end[0] = 0 /\ end[m] = l
  <2>1. 0 * size = 0 /\ 0 \in 0..m /\ m \in 0..m
    BY <1>1
  <2>2. stop(0) = 0
    BY <2>1
  <2>3. ~(m * size < l)
    BY <1>3, <1>6
  <2>4. stop(m) = l
    BY <2>3, Zenon
  <2> HIDE DEF end, stop
  <2> QED BY <1>8, <2>1, <2>2, <2>4
<1>11. ASSUME NEW j \in 0..m, NEW k \in 0..m, j <= k PROVE end[j] <= end[k]
  <2>1. PICK p \in Nat, q \in Nat : p = j * size /\ q = k * size
    BY <1>5
  <2>2. p <= q
    <3>1. j \in Nat /\ k \in Nat
      OBVIOUS
    <3> QED BY <1>4, <1>11, <2>1, <3>1, Zenon
  <2>3. /\ end[j] = IF p < l THEN p ELSE l
        /\ end[k] = IF q < l THEN q ELSE l
    BY <1>8, <2>1, Zenon
  <2> HIDE DEF end, stop
  <2> QED BY <2>2, <2>3
<1> DEFINE piece(k) == SubSeq(chars, (k - 1) * size + 1, stop(k))
<1>12. Chunks(chars) = [k \in 1..m |-> piece(k)]
  BY <1>1, <1>2 DEF Chunks
<1>13. ASSUME NEW k \in 1..m
       PROVE  /\ piece(k) \in Lines /\ Len(piece(k)) = end[k] - end[k - 1]
              /\ \A j \in 1..Len(piece(k)) :
                    piece(k)[j] = chars[end[k - 1] + j]
  <2>1. PICK p \in Nat : p = (k - 1) * size
    BY <1>5
  <2>2. k - 1 \in 0..m /\ k \in 0..m /\ p < l
    BY <1>7, <2>1
  <2>3. end[k - 1] = p
    BY <1>8, <2>1, <2>2, Zenon
  <2>4. PICK s \in 0..l : s = stop(k) /\ s = end[k]
    BY <1>8, <2>2, Zenon
  <2>5. p <= s
    <3>1. k - 1 <= k
      OBVIOUS
    <3> QED BY <1>11, <2>2, <2>3, <2>4, <3>1, Zenon
  <2>6. piece(k) = SubSeq(chars, p + 1, s)
    BY <2>1, <2>4, Zenon
  <2>7. /\ SubSeq(chars, p + 1, s) \in Seq(Characters)
        /\ Len(SubSeq(chars, p + 1, s)) = s - p
        /\ \A j \in 1..(s - p) : SubSeq(chars, p + 1, s)[j] = chars[p + j]
    <3>1. Len(chars) = l /\ chars \in Seq(Characters)
      BY <1>1
    <3>2. \A i \in 1..l : chars[i] \in Characters
      BY <3>1
    <3>3. \A x \in Seq(Characters), a \in Nat \ {0}, b \in Nat :
             a <= b + 1 /\ b <= Len(x) =>
                /\ SubSeq(x, a, b) \in Seq(Characters)
                /\ Len(SubSeq(x, a, b)) = b - a + 1
                /\ \A j \in 1..(b - a + 1) : SubSeq(x, a, b)[j] = x[a + j - 1]
      BY SubSeqProperties
    <3>4. PICK a \in Nat \ {0}, t \in Nat :
             /\ a = p + 1 /\ t = s /\ t - a + 1 = s - p
             /\ a <= t + 1 /\ t <= Len(chars)
             /\ \A j \in 1..(s - p) : a + j - 1 = p + j
      BY <2>5, <3>1
    <3>5. /\ SubSeq(chars, a, t) \in Seq(Characters)
          /\ Len(SubSeq(chars, a, t)) = t - a + 1
          /\ \A j \in 1..(t - a + 1) :
                SubSeq(chars, a, t)[j] = chars[a + j - 1]
      <4>1. PICK x \in Seq(Characters) : x = chars
        BY <3>1, Zenon
      <4>2. a <= t + 1 /\ t <= Len(x)
        BY <3>4, <4>1, Zenon
      <4>3. /\ SubSeq(x, a, t) \in Seq(Characters)
            /\ Len(SubSeq(x, a, t)) = t - a + 1
            /\ \A j \in 1..(t - a + 1) : SubSeq(x, a, t)[j] = x[a + j - 1]
        BY <3>3, <4>2, Zenon
      <4> QED BY <4>1, <4>3, Zenon
    <3> QED BY <3>4, <3>5, Zenon
  <2> HIDE DEF piece, end, stop
  <2>8. piece(k) \in Lines
    BY <2>6, <2>7, Zenon DEF Lines
  <2> QED BY <2>3, <2>4, <2>6, <2>7, <2>8, Zenon
<1> HIDE DEF piece, end, stop
<1>14. /\ Chunks(chars) \in Seq(Lines) /\ Len(Chunks(chars)) = m
       /\ \A k \in 1..m : Chunks(chars)[k] = piece(k)
  <2>1. \A k \in 1..m : piece(k) \in Lines
    BY <1>13
  <2> HIDE DEF Lines
  <2> QED BY <1>12, <2>1
<1>15. \A k \in 1..m :
          /\ Len(Chunks(chars)[k]) = end[k] - end[k - 1]
          /\ \A j \in 1..Len(Chunks(chars)[k]) :
                Chunks(chars)[k][j] = chars[end[k - 1] + j]
  <2> SUFFICES ASSUME NEW k \in 1..m
               PROVE  /\ Len(Chunks(chars)[k]) = end[k] - end[k - 1]
                      /\ \A j \in 1..Len(Chunks(chars)[k]) :
                            Chunks(chars)[k][j] = chars[end[k - 1] + j]
    OBVIOUS
  <2>1. Chunks(chars)[k] = piece(k)
    BY <1>14
  <2>2. PICK p : p = piece(k)
    OBVIOUS
  <2>3. /\ Len(p) = end[k] - end[k - 1]
        /\ \A j \in 1..Len(p) : p[j] = chars[end[k - 1] + j]
    BY <1>13, <2>2, Zenon
  <2> QED BY <2>1, <2>2, <2>3, Zenon
<1>16. end \in [0..m -> 0..Len(chars)] /\ end[m] = Len(chars)
  BY <1>1, <1>9, <1>10, Zenon
<1> QED BY <1>10, <1>11, <1>14, <1>15, <1>16, Zenon

\* The characters chars[1..n] are those to be taken in work, the first cut[0]
\* of them, and those of the elements of the queue q, the i-th of which has
\* what comes behind cut[i - 1] up to cut[i].
Cuts(n, chars, cut, q, work) ==
    /\ cut \in [0..Len(q) -> 0..n] /\ cut[Len(q)] = n
    /\ \A i, j \in 0..Len(q) : i <= j => cut[i] <= cut[j]
    /\ \A i \in 1..Len(q) :
          /\ q[i].from = "host" =>
                /\ Len(q[i].chars) = cut[i] - cut[i - 1]
                /\ \A j \in 1..Len(q[i].chars) :
                      q[i].chars[j] = chars[cut[i - 1] + j]
          /\ q[i].from # "host" => cut[i] = cut[i - 1]
    /\ cut[0] # 0 => Len(work) >= cut[0] + 5
    /\ \A i \in 1..Len(work) :
          work[i].do = "take"
             <=> Len(work) - 5 - cut[0] < i /\ i <= Len(work) - 5
    /\ \A j \in 1..cut[0] : work[Len(work) - 5 - cut[0] + j].char = chars[j]

\* A character is to be taken.
Takes(work) == work # <<>> /\ work[1].do = "take"

\* The character that is to be taken is the first one on its way.
LEMMA CutsFirst ==
    ASSUME NEW n \in Nat, NEW chars, NEW cut, NEW q \in Seq(Elements),
           NEW work \in Seq(Doings), Cuts(n, chars, cut, q, work),
           Takes(work)
    PROVE  n >= 1 /\ work[1].char = chars[1]
<1>0. work # <<>> /\ work[1].do = "take"
  BY DEF Takes
<1> USE <1>0
<1>1. PICK l \in Nat, w \in Nat, c \in 0..n :
         l = Len(q) /\ w = Len(work) /\ c = cut[0]
  <2>1. PICK l \in Nat : l = Len(q)
    OBVIOUS
  <2>2. cut \in [0..l -> 0..n] /\ 0 \in 0..l
    BY <2>1 DEF Cuts
  <2>3. PICK w \in Nat : w = Len(work)
    OBVIOUS
  <2>4. PICK c \in 0..n : c = cut[0]
    BY <2>2
  <2> QED BY <2>1, <2>3, <2>4, Zenon
<1>2. /\ cut \in [0..l -> 0..n] /\ cut[l] = n
      /\ \A i, j \in 0..l : i <= j => cut[i] <= cut[j]
      /\ \A i \in 1..l :
            /\ q[i].from = "host" =>
                  /\ Len(q[i].chars) = cut[i] - cut[i - 1]
                  /\ \A j \in 1..Len(q[i].chars) :
                        q[i].chars[j] = chars[cut[i - 1] + j]
            /\ q[i].from # "host" => cut[i] = cut[i - 1]
      /\ c # 0 => w >= c + 5
      /\ \A i \in 1..w : work[i].do = "take" <=> w - 5 - c < i /\ i <= w - 5
      /\ \A j \in 1..c : work[w - 5 - c + j].char = chars[j]
  BY <1>1 DEF Cuts
<1>3. w >= 1 /\ c >= 1 /\ w = c + 5
  BY <1>1, <1>2
<1>4. n >= 1 /\ work[1].char = chars[1]
  <2>1. w - 5 - c + 1 = 1 /\ 1 \in 1..c
    BY <1>3
  <2>2. work[w - 5 - c + 1].char = chars[1]
    BY <1>2, <2>1, Zenon
  <2>3. work[1].char = chars[1]
    BY <2>1, <2>2, Zenon
  <2> QED BY <1>1, <1>3, <2>3
<1> QED BY <1>4

\* A character is taken.
LEMMA CutsTake ==
    ASSUME NEW n \in Nat, NEW chars, NEW cut, NEW q \in Seq(Elements),
           NEW work \in Seq(Doings), Cuts(n, chars, cut, q, work),
           Takes(work),
           NEW others, Rests(n - 1, others, chars)
    PROVE  \E fewer : Cuts(n - 1, others, fewer, q, Tail(work))
<1>4. n >= 1 /\ work[1].char = chars[1]
  BY CutsFirst, Zenon
<1>0. work # <<>> /\ work[1].do = "take"
  BY DEF Takes
<1> USE <1>0
<1>1. PICK l \in Nat, w \in Nat, c \in 0..n :
         l = Len(q) /\ w = Len(work) /\ c = cut[0]
  <2>1. PICK l \in Nat : l = Len(q)
    OBVIOUS
  <2>2. cut \in [0..l -> 0..n] /\ 0 \in 0..l
    BY <2>1 DEF Cuts
  <2>3. PICK w \in Nat : w = Len(work)
    OBVIOUS
  <2>4. PICK c \in 0..n : c = cut[0]
    BY <2>2
  <2> QED BY <2>1, <2>3, <2>4, Zenon
<1>2. /\ cut \in [0..l -> 0..n] /\ cut[l] = n
      /\ \A i, j \in 0..l : i <= j => cut[i] <= cut[j]
      /\ \A i \in 1..l :
            /\ q[i].from = "host" =>
                  /\ Len(q[i].chars) = cut[i] - cut[i - 1]
                  /\ \A j \in 1..Len(q[i].chars) :
                        q[i].chars[j] = chars[cut[i - 1] + j]
            /\ q[i].from # "host" => cut[i] = cut[i - 1]
      /\ c # 0 => w >= c + 5
      /\ \A i \in 1..w : work[i].do = "take" <=> w - 5 - c < i /\ i <= w - 5
      /\ \A j \in 1..c : work[w - 5 - c + j].char = chars[j]
  BY <1>1 DEF Cuts
<1>3. w >= 1 /\ c >= 1 /\ w = c + 5
  BY <1>1, <1>2
<1>5. /\ Tail(work) \in Seq(Doings) /\ Len(Tail(work)) = w - 1
      /\ \A i \in 1..(w - 1) : Tail(work)[i] = work[i + 1]
  BY <1>1, TailIs
<1>6. \A k \in 1..(n - 1) : others[k] = chars[k + 1]
  BY DEF Rests
<1> DEFINE fewer == [i \in 0..l |-> cut[i] - 1]
<1>7. \A i \in 0..l : /\ cut[i] \in 1..n /\ fewer[i] = cut[i] - 1
                      /\ fewer[i] \in 0..(n - 1)
  <2> SUFFICES ASSUME NEW i \in 0..l PROVE cut[i] \in 1..n
    OBVIOUS
  <2>1. cut[0] <= cut[i] /\ cut[i] \in 0..n
    BY <1>2
  <2> QED BY <1>1, <1>3, <2>1
<1>8. /\ fewer \in [0..l -> 0..(n - 1)] /\ fewer[l] = n - 1
      /\ fewer[0] = c - 1
  BY <1>1, <1>2, <1>7
<1> HIDE DEF fewer
<1>9. ASSUME NEW i \in 0..l, NEW j \in 0..l, i <= j
      PROVE  fewer[i] <= fewer[j]
  <2>1. cut[i] <= cut[j]
    BY <1>2, <1>9
  <2> QED BY <1>7, <2>1
<1>10. ASSUME NEW i \in 1..l
       PROVE  /\ q[i].from = "host" =>
                    /\ Len(q[i].chars) = fewer[i] - fewer[i - 1]
                    /\ \A j \in 1..Len(q[i].chars) :
                          q[i].chars[j] = others[fewer[i - 1] + j]
              /\ q[i].from # "host" => fewer[i] = fewer[i - 1]
  <2>1. PICK a \in 1..n, b \in 1..n :
           /\ a = cut[i - 1] /\ b = cut[i] /\ a <= b
           /\ fewer[i - 1] = a - 1 /\ fewer[i] = b - 1
    <3>1. i - 1 \in 0..l /\ i \in 0..l /\ i - 1 <= i
      OBVIOUS
    <3> QED BY <1>2, <1>7, <3>1
  <2>2. ASSUME q[i].from = "host"
        PROVE  /\ Len(q[i].chars) = fewer[i] - fewer[i - 1]
               /\ \A j \in 1..Len(q[i].chars) :
                     q[i].chars[j] = others[fewer[i - 1] + j]
    <3>1. /\ Len(q[i].chars) = b - a
          /\ \A j \in 1..(b - a) : q[i].chars[j] = chars[a + j]
      <4>1. /\ Len(q[i].chars) = cut[i] - cut[i - 1]
            /\ \A j \in 1..Len(q[i].chars) :
                  q[i].chars[j] = chars[cut[i - 1] + j]
        BY <1>2, <2>2, Zenon
      <4> QED BY <2>1, <4>1, Zenon
    <3>2. ASSUME NEW j \in 1..(b - a)
          PROVE  others[fewer[i - 1] + j] = chars[a + j]
      <4>1. PICK k \in 1..(n - 1) : k = a - 1 + j /\ k + 1 = a + j
        OBVIOUS
      <4> QED BY <1>6, <2>1, <4>1
    <3>3. Len(q[i].chars) = fewer[i] - fewer[i - 1]
      <4>1. (b - 1) - (a - 1) = b - a
        OBVIOUS
      <4> QED BY <2>1, <3>1, <4>1, Zenon
    <3> QED BY <3>1, <3>2, <3>3
  <2>3. q[i].from # "host" => fewer[i] = fewer[i - 1]
    BY <1>2, <2>1
  <2> QED BY <2>2, <2>3
<1>11. /\ fewer[0] # 0 => w - 1 >= fewer[0] + 5
       /\ \A i \in 1..(w - 1) :
             Tail(work)[i].do = "take"
                <=> w - 1 - 5 - fewer[0] < i /\ i <= w - 1 - 5
  <2>1. \A i \in 1..(w - 1) :
           Tail(work)[i].do = "take" <=> w - 5 - c < i + 1 /\ i + 1 <= w - 5
    <3>1. \A i \in 1..(w - 1) : i + 1 \in 1..w
      OBVIOUS
    <3> QED BY <1>2, <1>5, <3>1
  <2>2. fewer[0] = c - 1 /\ w = c + 5 /\ c \in Nat
    BY <1>3, <1>8
  <2>3. ASSUME NEW i \in 1..(w - 1)
        PROVE  Tail(work)[i].do = "take"
                  <=> w - 1 - 5 - fewer[0] < i /\ i <= w - 1 - 5
    <3>1. /\ w - 5 - c < i + 1 <=> w - 1 - 5 - fewer[0] < i
          /\ i + 1 <= w - 5 <=> i <= w - 1 - 5
      BY <2>2
    <3> QED BY <2>1, <3>1
  <2>4. fewer[0] # 0 => w - 1 >= fewer[0] + 5
    BY <2>2
  <2> QED BY <2>3, <2>4, Zenon
<1>12. \A j \in 1..fewer[0] :
          Tail(work)[w - 1 - 5 - fewer[0] + j].char = others[j]
  <2> SUFFICES ASSUME NEW j \in 1..(c - 1)
               PROVE  Tail(work)[j].char = others[j]
    <3>1. \A j \in 1..fewer[0] : w - 1 - 5 - fewer[0] + j = j
          /\ j \in 1..(c - 1)
      BY <1>3, <1>8
    <3> QED BY <3>1
  <2>1. Tail(work)[j] = work[j + 1] /\ others[j] = chars[j + 1]
    BY <1>3, <1>5, <1>6
  <2>2. w - 5 - c + (j + 1) = j + 1 /\ j + 1 \in 1..c
    BY <1>3
  <2> QED BY <1>2, <2>1, <2>2
<1>13. Cuts(n - 1, others, fewer, q, Tail(work))
  BY <1>1, <1>5, <1>8, <1>9, <1>10, <1>11, <1>12 DEF Cuts
<1> QED BY <1>13

\* Something is shown.
LEMMA CutsShow ==
    ASSUME NEW n \in Nat, NEW chars, NEW cut, NEW q \in Seq(Elements),
           NEW work \in Seq(Doings), Cuts(n, chars, cut, q, work),
           work # <<>>, work[1].do # "take"
    PROVE  Cuts(n, chars, cut, q, Tail(work))
<1>1. PICK w \in Nat, c \in 0..n : w = Len(work) /\ c = cut[0]
  <2>1. cut \in [0..Len(q) -> 0..n]
    BY DEF Cuts
  <2>2. Len(q) \in Nat /\ Len(work) \in Nat
    OBVIOUS
  <2> QED BY <2>1, <2>2
<1>2. /\ c # 0 => w >= c + 5
      /\ \A i \in 1..w : work[i].do = "take" <=> w - 5 - c < i /\ i <= w - 5
      /\ \A j \in 1..c : work[w - 5 - c + j].char = chars[j]
  BY <1>1 DEF Cuts
<1>3. w >= 1 /\ (c # 0 => w >= c + 6)
  <2>1. w >= 1
    BY <1>1
  <2>2. ~(w - 5 - c < 1 /\ 1 <= w - 5)
    BY <1>2, <2>1
  <2> QED BY <1>2, <2>1, <2>2
<1>4. /\ Tail(work) \in Seq(Doings) /\ Len(Tail(work)) = w - 1
      /\ \A i \in 1..(w - 1) : Tail(work)[i] = work[i + 1]
  BY <1>1, TailIs
<1>5. \A i \in 1..(w - 1) :
         Tail(work)[i].do = "take" <=> w - 1 - 5 - c < i /\ i <= w - 1 - 5
  <2>1. \A i \in 1..(w - 1) :
           Tail(work)[i].do = "take" <=> w - 5 - c < i + 1 /\ i + 1 <= w - 5
    <3>1. \A i \in 1..(w - 1) : i + 1 \in 1..w
      OBVIOUS
    <3> QED BY <1>2, <1>4, <3>1
  <2>2. ASSUME NEW i \in 1..(w - 1)
        PROVE  /\ w - 5 - c < i + 1 <=> w - 1 - 5 - c < i
               /\ i + 1 <= w - 5 <=> i <= w - 1 - 5
    OBVIOUS
  <2> QED BY <2>1, <2>2
<1>6. ASSUME NEW j \in 1..c
      PROVE  Tail(work)[w - 1 - 5 - c + j].char = chars[j]
  <2>1. PICK i \in 1..(w - 1) :
           i = w - 1 - 5 - c + j /\ i + 1 = w - 5 - c + j
    BY <1>3
  <2> QED BY <1>2, <1>4, <2>1
<1>7. c # 0 => w - 1 >= c + 5
  BY <1>3
<1> QED BY <1>1, <1>4, <1>5, <1>6, <1>7 DEF Cuts

\* The terminal task receives an element.
LEMMA CutsReceive ==
    ASSUME NEW n \in Nat, NEW chars, NEW cut, NEW q \in Seq(Elements),
           Cuts(n, chars, cut, q, <<>>), q # <<>>
    PROVE  \E fewer : Cuts(n, chars, fewer, Tail(q), Work(Head(q)))
<1>1. PICK l \in Nat : l + 1 = Len(q)
  <2>1. Len(q) - 1 \in Nat /\ Len(q) - 1 + 1 = Len(q)
    OBVIOUS
  <2> QED BY <2>1
<1>2. /\ cut \in [0..(l + 1) -> 0..n] /\ cut[l + 1] = n /\ cut[0] = 0
      /\ \A i, j \in 0..(l + 1) : i <= j => cut[i] <= cut[j]
      /\ \A i \in 1..(l + 1) :
            /\ q[i].from = "host" =>
                  /\ Len(q[i].chars) = cut[i] - cut[i - 1]
                  /\ \A j \in 1..Len(q[i].chars) :
                        q[i].chars[j] = chars[cut[i - 1] + j]
            /\ q[i].from # "host" => cut[i] = cut[i - 1]
  <2>1. Len(<<>>) = 0
    OBVIOUS
  <2>2. cut[0] # 0 => 0 >= cut[0] + 5
    BY <2>1 DEF Cuts
  <2>3. cut \in [0..Len(q) -> 0..n]
    BY DEF Cuts
  <2>4. cut[0] \in Nat
    BY <1>1, <2>3
  <2>5. cut[0] = 0
    BY <2>2, <2>4
  <2> QED BY <1>1, <2>3, <2>5 DEF Cuts
<1>3. /\ Tail(q) \in Seq(Elements) /\ Len(Tail(q)) = l
      /\ \A i \in 1..l : Tail(q)[i] = q[i + 1]
      /\ Head(q) = q[1] /\ q[1] \in Elements
  <2>1. Len(q) - 1 = l
    BY <1>1
  <2> QED BY <2>1, TailIs
<1>4. PICK e \in Elements : e = Head(q) /\ e = q[1]
  BY <1>3
<1>5. PICK c \in 0..n : c = cut[1]
  BY <1>2
<1>6. /\ e.from = "host" => /\ Len(e.chars) = c
                            /\ \A j \in 1..c : e.chars[j] = chars[j]
      /\ e.from # "host" => c = 0
  <2>1. PICK i \in 1..(l + 1) : i = 1 /\ i - 1 = 0
    OBVIOUS
  <2>2. /\ e.from = "host" =>
              /\ Len(e.chars) = c - 0
              /\ \A j \in 1..Len(e.chars) : e.chars[j] = chars[0 + j]
        /\ e.from # "host" => c = 0
    BY <1>2, <1>4, <1>5, <2>1
  <2>3. c - 0 = c /\ \A j \in 1..c : 0 + j = j
    OBVIOUS
  <2> QED BY <2>2, <2>3
<1>w. /\ Work(e) \in Seq(Doings)
      /\ Work(e)[1].do = "restore"
      /\ \A i \in 1..5 :
            Work(e)[Len(Work(e)) - 5 + i] = DisplayPrompt[i]
      /\ e.from = "host" =>
            /\ Len(Work(e)) = Len(e.chars) + 6
            /\ \A i \in 1..Len(e.chars) :
                  Work(e)[1 + i] = [do |-> "take", char |-> e.chars[i]]
      /\ e.from # "host" =>
            /\ Len(Work(e)) = 7
            /\ Work(e)[2] = [do |-> "show", from |-> e.from,
                             part |-> e.part, ends |-> e.ends]
  BY WorkIs, Zenon
<1>7. PICK w \in Nat : /\ w = Len(Work(e))
                       /\ e.from = "host" => w = c + 6
                       /\ e.from # "host" => w = 7
  <2>1. e.from = "host" => Len(Work(e)) = c + 6
    BY <1>6, <1>w, Zenon
  <2>2. c + 6 \in Nat /\ 7 \in Nat
    OBVIOUS
  <2> QED BY <1>w, <2>1, <2>2, Zenon
<1>8. \A i \in (w - 4)..w : Work(e)[i].do # "take"
  <2> SUFFICES ASSUME NEW i \in (w - 4)..w PROVE Work(e)[i].do # "take"
    OBVIOUS
  <2>1. PICK k \in 1..5 : w - 5 + k = i
    <3>1. i - w + 5 \in 1..5 /\ w - 5 + (i - w + 5) = i
      OBVIOUS
    <3> QED BY <3>1
  <2>2. Work(e)[i] = DisplayPrompt[k]
    BY <1>7, <1>w, <2>1, Zenon
  <2>3. DisplayPrompt[k].do # "take"
    BY DisplayPromptIs
  <2> QED BY <2>2, <2>3, Zenon
<1>9. \A i \in 1..w :
         Work(e)[i].do = "take" <=> w - 5 - c < i /\ i <= w - 5
  <2>1. CASE e.from = "host"
    <3>1. \A i \in 1..c : Work(e)[1 + i].do = "take"
      <4> SUFFICES ASSUME NEW i \in 1..c PROVE Work(e)[1 + i].do = "take"
        OBVIOUS
      <4>1. Work(e)[1 + i] = [do |-> "take", char |-> e.chars[i]]
        BY <1>6, <1>w, <2>1, Zenon
      <4> DEFINE d == Work(e)[1 + i]
      <4> HIDE DEF d
      <4>2. d = [do |-> "take", char |-> e.chars[i]]
        BY <4>1 DEF d
      <4>3. d.do = "take"
        BY <4>2
      <4> QED BY <4>3 DEF d
    <3>2. w = c + 6
      BY <1>7, <2>1
    <3> SUFFICES ASSUME NEW i \in 1..w
                 PROVE  Work(e)[i].do = "take"
                           <=> w - 5 - c < i /\ i <= w - 5
      OBVIOUS
    <3>3. CASE i = 1
      BY <1>w, <3>2, <3>3
    <3>4. CASE i \in 2..(c + 1)
      <4>1. i - 1 \in 1..c /\ 1 + (i - 1) = i
        BY <3>4
      <4>2. Work(e)[i].do = "take"
        BY <3>1, <4>1
      <4> QED BY <3>2, <3>4, <4>2
    <3>5. CASE i \in (w - 4)..w
      <4>1. Work(e)[i].do # "take"
        BY <1>8, <3>5
      <4> QED BY <3>2, <3>5, <4>1
    <3> QED BY <3>2, <3>3, <3>4, <3>5
  <2>2. CASE e.from # "host"
    <3>1. w = 7 /\ c = 0
      BY <1>6, <1>7, <2>2
    <3>2. Work(e)[2].do # "take"
      <4> DEFINE d == Work(e)[2]
      <4> HIDE DEF d
      <4>1. d = [do |-> "show", from |-> e.from, part |-> e.part,
                 ends |-> e.ends]
        BY <1>w, <2>2, Zenon DEF d
      <4>2. d.do # "take"
        BY <4>1
      <4> QED BY <4>2 DEF d
    <3> SUFFICES ASSUME NEW i \in 1..w
                 PROVE  Work(e)[i].do # "take"
      BY <3>1
    <3>3. i = 1 \/ i = 2 \/ i \in (w - 4)..w
      BY <3>1
    <3> QED BY <1>8, <1>w, <3>2, <3>3
  <2> QED BY <2>1, <2>2
<1>10. c # 0 => w >= c + 5
  BY <1>6, <1>7
<1>11. \A j \in 1..c : Work(e)[w - 5 - c + j].char = chars[j]
  <2> SUFFICES ASSUME NEW j \in 1..c
               PROVE  Work(e)[w - 5 - c + j].char = chars[j]
    OBVIOUS
  <2>1. e.from = "host" /\ w = c + 6
    BY <1>6, <1>7
  <2>2. w - 5 - c + j = 1 + j
    BY <2>1
  <2>3. Work(e)[1 + j] = [do |-> "take", char |-> e.chars[j]]
    BY <1>6, <1>w, <2>1, Zenon
  <2> DEFINE d == Work(e)[1 + j]
  <2> HIDE DEF d
  <2>4. d = [do |-> "take", char |-> e.chars[j]]
    BY <2>3 DEF d
  <2>5. d.char = e.chars[j]
    BY <2>4
  <2> QED BY <1>6, <2>1, <2>2, <2>5 DEF d
<1> DEFINE fewer == [i \in 0..l |-> cut[i + 1]]
<1>12. /\ fewer \in [0..l -> 0..n] /\ fewer[l] = n /\ fewer[0] = c
       /\ \A i \in 0..l : fewer[i] = cut[i + 1]
  <2>1. \A i \in 0..l : i + 1 \in 0..(l + 1)
    OBVIOUS
  <2>2. \A i \in 0..l : cut[i + 1] \in 0..n
    BY <1>2, <2>1
  <2>3. 0 \in 0..l /\ l \in 0..l /\ 0 + 1 = 1
    OBVIOUS
  <2> QED BY <1>2, <1>5, <2>2, <2>3
<1> HIDE DEF fewer
<1>13. ASSUME NEW i \in 0..l, NEW j \in 0..l, i <= j
       PROVE  fewer[i] <= fewer[j]
  <2>1. i + 1 \in 0..(l + 1) /\ j + 1 \in 0..(l + 1) /\ i + 1 <= j + 1
    BY <1>13
  <2>2. cut[i + 1] <= cut[j + 1]
    BY <1>2, <2>1
  <2> QED BY <1>12, <2>2
<1>14. ASSUME NEW i \in 1..l
       PROVE  /\ Tail(q)[i].from = "host" =>
                    /\ Len(Tail(q)[i].chars) = fewer[i] - fewer[i - 1]
                    /\ \A j \in 1..Len(Tail(q)[i].chars) :
                          Tail(q)[i].chars[j] = chars[fewer[i - 1] + j]
              /\ Tail(q)[i].from # "host" => fewer[i] = fewer[i - 1]
  <2>1. PICK k \in 1..(l + 1) : k = i + 1 /\ k - 1 = i
    OBVIOUS
  <2>2. i \in 0..l /\ i - 1 \in 0..l /\ i - 1 + 1 = i
    OBVIOUS
  <2>3. fewer[i] = cut[k] /\ fewer[i - 1] = cut[k - 1] /\ Tail(q)[i] = q[k]
    BY <1>3, <1>12, <2>1, <2>2
  <2>4. /\ q[k].from = "host" =>
              /\ Len(q[k].chars) = cut[k] - cut[k - 1]
              /\ \A j \in 1..Len(q[k].chars) :
                    q[k].chars[j] = chars[cut[k - 1] + j]
        /\ q[k].from # "host" => cut[k] = cut[k - 1]
    BY <1>2, Zenon
  <2> QED BY <2>3, <2>4, Zenon
<1>15. /\ fewer[0] # 0 => Len(Work(e)) >= fewer[0] + 5
       /\ \A i \in 1..Len(Work(e)) :
             Work(e)[i].do = "take" <=> /\ Len(Work(e)) - 5 - fewer[0] < i
                                        /\ i <= Len(Work(e)) - 5
       /\ \A j \in 1..fewer[0] :
             Work(e)[Len(Work(e)) - 5 - fewer[0] + j].char = chars[j]
  BY <1>7, <1>9, <1>10, <1>11, <1>12, Zenon
<1>16. Cuts(n, chars, fewer, Tail(q), Work(e))
  BY <1>3, <1>12, <1>13, <1>14, <1>15, Zenon DEF Cuts
<1> QED BY <1>4, <1>16, Zenon

\* The l elements of more have the m characters that follow the first n of
\* all: end are the positions at which they end.
Joins(l, more, end, m, all, n) ==
    /\ l = Len(more) /\ end \in [0..l -> 0..m] /\ end[0] = 0 /\ end[l] = m
    /\ \A i, j \in 0..l : i <= j => end[i] <= end[j]
    /\ \A i \in 1..l :
          /\ more[i].from = "host" =>
                /\ Len(more[i].chars) = end[i] - end[i - 1]
                /\ \A j \in 1..Len(more[i].chars) :
                      more[i].chars[j] = all[n + (end[i - 1] + j)]
          /\ more[i].from # "host" => end[i] = end[i - 1]

\* Elements join the queue, with the characters that follow or none.
LEMMA CutsJoin ==
    ASSUME NEW n \in Nat, NEW chars, NEW cut, NEW q \in Seq(Elements),
           NEW work, Cuts(n, chars, cut, q, work),
           NEW m \in Nat, NEW all, \A k \in 1..n : all[k] = chars[k],
           NEW more \in Seq(Elements), NEW l \in Nat, NEW end,
           Joins(l, more, end, m, all, n)
    PROVE  \E longer : Cuts(n + m, all, longer, q \o more, work)
<1>0. /\ l = Len(more) /\ end \in [0..l -> 0..m] /\ end[0] = 0 /\ end[l] = m
      /\ \A i, j \in 0..l : i <= j => end[i] <= end[j]
      /\ \A i \in 1..l :
            /\ more[i].from = "host" =>
                  /\ Len(more[i].chars) = end[i] - end[i - 1]
                  /\ \A j \in 1..Len(more[i].chars) :
                        more[i].chars[j] = all[n + (end[i - 1] + j)]
            /\ more[i].from # "host" => end[i] = end[i - 1]
  BY DEF Joins
<1> USE <1>0
<1>1. PICK x \in Nat : x = Len(q)
  OBVIOUS
<1>2. /\ cut \in [0..x -> 0..n] /\ cut[x] = n
      /\ \A i, j \in 0..x : i <= j => cut[i] <= cut[j]
      /\ \A i \in 1..x :
            /\ q[i].from = "host" =>
                  /\ Len(q[i].chars) = cut[i] - cut[i - 1]
                  /\ \A j \in 1..Len(q[i].chars) :
                        q[i].chars[j] = chars[cut[i - 1] + j]
            /\ q[i].from # "host" => cut[i] = cut[i - 1]
  BY <1>1 DEF Cuts
<1> DEFINE longer == [i \in 0..(x + l) |->
                         IF i <= x THEN cut[i] ELSE n + end[i - x]]
           both == q \o more
<1>3. /\ both \in Seq(Elements) /\ Len(both) = x + l
      /\ \A i \in 1..x : both[i] = q[i]
      /\ \A i \in 1..l : both[x + i] = more[i]
  BY <1>1, JoinFacts
<1>4. \A i \in 0..x : longer[i] = cut[i]
  OBVIOUS
<1>5. \A i \in 0..l : longer[x + i] = n + end[i]
  <2> SUFFICES ASSUME NEW i \in 0..l PROVE longer[x + i] = n + end[i]
    OBVIOUS
  <2>1. CASE i = 0
    <3>1. x + i = x /\ x \in 0..x /\ n + 0 = n
      BY <2>1
    <3> QED BY <1>2, <1>4, <2>1, <3>1
  <2>2. CASE i > 0
    <3>1. x + i \in 0..(x + l) /\ ~(x + i <= x) /\ x + i - x = i
      BY <2>2
    <3> QED BY <3>1
  <2> QED BY <2>1, <2>2
<1>6. DOMAIN longer = 0..(x + l) /\ longer = [i \in 0..(x + l) |-> longer[i]]
  OBVIOUS
<1> HIDE DEF longer, both
<1>7. \A i \in 0..(x + l) : i \in 0..x \/ \E k \in 1..l : i = x + k
  <2> SUFFICES ASSUME NEW i \in 0..(x + l), i \notin 0..x
               PROVE  \E k \in 1..l : i = x + k
    OBVIOUS
  <2>1. i - x \in 1..l /\ i = x + (i - x)
    OBVIOUS
  <2> QED BY <2>1
<1>8. \A i \in 0..l : end[i] \in 0..m /\ n + end[i] \in 0..(n + m)
  <2> SUFFICES ASSUME NEW i \in 0..l
               PROVE  end[i] \in 0..m /\ n + end[i] \in 0..(n + m)
    OBVIOUS
  <2>1. PICK b \in 0..m : b = end[i]
    OBVIOUS
  <2>2. n + b \in 0..(n + m)
    OBVIOUS
  <2> QED BY <2>1, <2>2
<1>9. \A i \in 0..x : cut[i] \in 0..n
  BY <1>2
<1>10. longer \in [0..(x + l) -> 0..(n + m)]
  <2>1. ASSUME NEW i \in 0..(x + l) PROVE longer[i] \in 0..(n + m)
    <3>1. CASE i \in 0..x
      BY <1>4, <1>9, <3>1
    <3>2. CASE i \notin 0..x
      <4>1. PICK k \in 1..l : i = x + k
        BY <1>7, <3>2
      <4>2. k \in 0..l
        OBVIOUS
      <4> QED BY <1>5, <1>8, <4>1, <4>2, Zenon
    <3> QED BY <3>1, <3>2
  <2> QED BY <1>6, <2>1
<1>11. longer[x + l] = n + m /\ longer[0] = cut[0]
  <2>1. l \in 0..l /\ 0 \in 0..x
    OBVIOUS
  <2> QED BY <1>4, <1>5, <2>1
<1>12. ASSUME NEW i \in 0..(x + l), NEW j \in 0..(x + l), i <= j
       PROVE  longer[i] <= longer[j]
  <2>1. CASE j \in 0..x
    <3>1. i \in 0..x
      BY <1>12, <2>1
    <3> QED BY <1>2, <1>4, <1>12, <2>1, <3>1
  <2>2. CASE j \notin 0..x
    <3>1. PICK b \in 1..l : j = x + b
      BY <1>7, <2>2
    <3>2. longer[j] = n + end[b] /\ b \in 0..l /\ end[b] \in 0..m
      <4>1. b \in 0..l
        OBVIOUS
      <4> QED BY <1>5, <1>8, <3>1, <4>1, Zenon
    <3>3. CASE i \in 0..x
      <4>1. longer[i] \in 0..n
        BY <1>4, <1>9, <3>3
      <4> QED BY <3>2, <4>1
    <3>4. CASE i \notin 0..x
      <4>1. PICK a \in 1..l : i = x + a
        BY <1>7, <3>4
      <4>2. longer[i] = n + end[a] /\ a \in 0..l /\ end[a] \in 0..m
        <5>1. a \in 0..l
          OBVIOUS
        <5> QED BY <1>5, <1>8, <4>1, <5>1, Zenon
      <4>3. a <= b
        BY <1>12, <3>1, <4>1
      <4>4. end[a] <= end[b]
        BY <3>2, <4>2, <4>3
      <4> QED BY <3>2, <4>2, <4>4
    <3> QED BY <3>3, <3>4
  <2> QED BY <2>1, <2>2
<1>13. ASSUME NEW i \in 1..(x + l)
       PROVE  /\ both[i].from = "host" =>
                    /\ Len(both[i].chars) = longer[i] - longer[i - 1]
                    /\ \A j \in 1..Len(both[i].chars) :
                          both[i].chars[j] = all[longer[i - 1] + j]
              /\ both[i].from # "host" => longer[i] = longer[i - 1]
  <2>1. CASE i \in 1..x
    <3>1. i \in 0..x /\ i - 1 \in 0..x /\ i - 1 <= i
      BY <2>1
    <3>2. PICK a \in 0..n, b \in 0..n :
             /\ a = cut[i - 1] /\ b = cut[i] /\ a <= b
             /\ longer[i - 1] = a /\ longer[i] = b /\ both[i] = q[i]
      BY <1>2, <1>3, <1>4, <2>1, <3>1
    <3>3. /\ q[i].from = "host" =>
                /\ Len(q[i].chars) = b - a
                /\ \A j \in 1..(b - a) : q[i].chars[j] = chars[a + j]
          /\ q[i].from # "host" => b = a
      <4>1. /\ q[i].from = "host" =>
                  /\ Len(q[i].chars) = cut[i] - cut[i - 1]
                  /\ \A j \in 1..Len(q[i].chars) :
                        q[i].chars[j] = chars[cut[i - 1] + j]
            /\ q[i].from # "host" => cut[i] = cut[i - 1]
        BY <1>2, <2>1, Zenon
      <4> QED BY <3>2, <4>1, Zenon
    <3>4. \A j \in 1..(b - a) : all[a + j] = chars[a + j]
      <4>1. \A j \in 1..(b - a) : a + j \in 1..n
        OBVIOUS
      <4> QED BY <4>1
    <3>5. /\ q[i].from = "host" =>
                /\ Len(q[i].chars) = b - a
                /\ \A j \in 1..Len(q[i].chars) : q[i].chars[j] = all[a + j]
          /\ q[i].from # "host" => b = a
      BY <3>3, <3>4, Zenon
    <3> QED BY <3>2, <3>5, Zenon
  <2>2. CASE i \notin 1..x
    <3>1. PICK k \in 1..l : i = x + k
      BY <1>7, <2>2
    <3>2. /\ k \in 0..l /\ k - 1 \in 0..l /\ k - 1 <= k
          /\ i - 1 = x + (k - 1)
      BY <3>1
    <3>3. PICK a \in 0..m, b \in 0..m :
             /\ a = end[k - 1] /\ b = end[k]
             /\ longer[i - 1] = n + a /\ longer[i] = n + b
             /\ both[i] = more[k]
      <4>1. end[k - 1] \in 0..m /\ end[k] \in 0..m
        BY <1>8, <3>2, Zenon
      <4>2. longer[i - 1] = n + end[k - 1] /\ longer[i] = n + end[k]
        BY <1>5, <3>1, <3>2, Zenon
      <4>3. both[i] = more[k]
        BY <1>3, <3>1, Zenon
      <4> QED BY <4>1, <4>2, <4>3, Zenon
    <3>4. /\ more[k].from = "host" =>
                /\ Len(more[k].chars) = b - a
                /\ \A j \in 1..Len(more[k].chars) :
                      more[k].chars[j] = all[n + (a + j)]
          /\ more[k].from # "host" => b = a
      BY <3>3, Zenon
    <3>5. /\ (n + b) - (n + a) = b - a
          /\ b = a => n + b = n + a
      OBVIOUS
    <3>6. more[k].from = "host" =>
             \A j \in 1..Len(more[k].chars) : n + (a + j) = n + a + j
      BY <3>4
    <3>7. ASSUME more[k].from = "host"
          PROVE  /\ Len(more[k].chars) = (n + b) - (n + a)
                 /\ \A j \in 1..Len(more[k].chars) :
                       more[k].chars[j] = all[(n + a) + j]
      <4>1. Len(more[k].chars) = (n + b) - (n + a)
        BY <3>4, <3>5, <3>7, Zenon
      <4>2. \A j \in 1..Len(more[k].chars) :
               more[k].chars[j] = all[(n + a) + j]
        BY <3>4, <3>6, <3>7, Zenon
      <4> QED BY <4>1, <4>2
    <3>8. more[k].from # "host" => n + b = n + a
      BY <3>4, <3>5, Zenon
    <3> QED BY <3>3, <3>7, <3>8, Zenon
  <2> QED BY <2>1, <2>2
<1>14. \A j \in 1..cut[0] : all[j] = chars[j]
  <2>1. \A j \in 1..cut[0] : j \in 1..n
    BY <1>9
  <2> QED BY <2>1
<1>15. /\ cut[0] # 0 => Len(work) >= cut[0] + 5
       /\ \A i \in 1..Len(work) :
             work[i].do = "take"
                <=> Len(work) - 5 - cut[0] < i /\ i <= Len(work) - 5
       /\ \A j \in 1..cut[0] :
             work[Len(work) - 5 - cut[0] + j].char = all[j]
  BY <1>14, Zenon DEF Cuts
<1>16. Cuts(n + m, all, longer, both, work)
  BY <1>3, <1>10, <1>11, <1>12, <1>13, <1>15, Zenon DEF Cuts
<1> QED BY <1>16 DEF both

-----------------------------------------------------------------------------
(* The line that is executed.                                              *)

\* As long as nothing was dropped and no line grew too long, the characters
\* on their way lead from the line buffer to what the host has typed.
LineInv ==
    ~lossy => \E n \in Nat : \E chars, now, ended, cut :
                 /\ Played(n, chars, now, ended, line, typing, typed)
                 /\ Cuts(n, chars, cut, queue, todo)

\* Nothing is on its way when there is nothing.
LEMMA NothingPlayed ==
    \E chars, now, ended, cut :
       /\ Played(0, chars, now, ended, <<>>, <<>>, <<>>)
       /\ Cuts(0, chars, cut, <<>>, <<>>)
<1> DEFINE chars == [k \in 1..0 |-> "a"]
           now == [k \in 0..0 |-> <<>>]
           ended == [k \in 0..0 |-> 0]
<1>1. chars \in [1..0 -> Characters] /\ ended \in [0..0 -> Nat]
  OBVIOUS
<1>2. now \in [0..0 -> Lines] /\ <<>> \in Seq(Lines)
  BY DEF Lines
<1>3. Played(0, chars, now, ended, <<>>, <<>>, <<>>)
  <2>1. now[0] = <<>> /\ ended[0] = 0 /\ Len(<<>>) = 0
    OBVIOUS
  <2>2. \A k \in 1..0 : FALSE
    OBVIOUS
  <2>3. \A j, k \in 0..0 : j <= k => ended[j] <= ended[k]
    OBVIOUS
  <2> HIDE DEF chars, now, ended
  <2> QED BY <1>1, <1>2, <2>1, <2>2, <2>3 DEF Played
<1>4. Cuts(0, chars, ended, <<>>, <<>>)
  <2>1. /\ Len(<<>>) = 0 /\ ended \in [0..0 -> 0..0] /\ ended[0] = 0
        /\ \A i \in 1..0 : FALSE
    OBVIOUS
  <2>2. \A j, k \in 0..0 : j <= k => ended[j] <= ended[k]
    OBVIOUS
  <2> HIDE DEF chars, now, ended
  <2> QED BY <2>1, <2>2 DEF Cuts
<1> HIDE DEF chars, now, ended
<1> QED BY <1>3, <1>4

\* Init.
LEMMA LineInit == Init => LineInv
<1> SUFFICES ASSUME Init PROVE LineInv
  OBVIOUS
<1>1. line = <<>> /\ typing = <<>> /\ typed = <<>> /\ queue = <<>>
      /\ todo = <<>>
  BY DEF Init
<1>2. 0 \in Nat
  OBVIOUS
<1> QED BY <1>1, <1>2, NothingPlayed, Zenon DEF LineInv

\* A step that changes neither what is typed nor the line keeps LineInv.
LEMMA LineKept ==
    ASSUME LineInv, UNCHANGED <<queue, todo, line, typing, typed, lossy>>
    PROVE  LineInv'
<1>1. /\ queue' = queue /\ todo' = todo /\ line' = line
      /\ typing' = typing /\ typed' = typed /\ lossy' = lossy
  OBVIOUS
<1> SUFFICES ASSUME ~lossy'
             PROVE  \E n \in Nat : \E chars, now, ended, cut :
                       /\ Played(n, chars, now, ended, line', typing', typed')
                       /\ Cuts(n, chars, cut, queue', todo')
  BY Zenon DEF LineInv
<1>2. PICK n \in Nat : \E chars, now, ended, cut :
         /\ Played(n, chars, now, ended, line, typing, typed)
         /\ Cuts(n, chars, cut, queue, todo)
  <2>1. ~lossy
    BY <1>1
  <2> QED BY <2>1, Zenon DEF LineInv
<1>3. PICK chars, now, ended, cut :
         /\ Played(n, chars, now, ended, line, typing, typed)
         /\ Cuts(n, chars, cut, queue, todo)
  BY <1>2, Zenon
<1>4. /\ Played(n, chars, now, ended, line', typing', typed')
      /\ Cuts(n, chars, cut, queue', todo')
  BY <1>1, <1>3
<1> QED BY <1>4, Zenon

\* send_str: an element with a part of a string has no characters.
LEMMA SendPartLine ==
    ASSUME Types, LineInv, NEW t \in Senders, SendPart(t)
    PROVE  LineInv'
<1>1. /\ todo' = todo /\ line' = line
      /\ typing' = typing /\ typed' = typed /\ lossy' = lossy
  BY DEF SendPart
<1>2. CASE queue' = queue
  BY <1>1, <1>2, LineKept
<1>3. CASE queue' = Append(queue, Piece(t, Head(sending[t])))
  <2> SUFFICES ASSUME ~lossy
               PROVE  \E n \in Nat : \E chars, now, ended, cut :
                         /\ Played(n, chars, now, ended, line, typing, typed)
                         /\ Cuts(n, chars, cut, queue', todo)
    BY <1>1, Zenon DEF LineInv
  <2>1. PICK n \in Nat : \E chars, now, ended, cut :
           /\ Played(n, chars, now, ended, line, typing, typed)
           /\ Cuts(n, chars, cut, queue, todo)
    BY Zenon DEF LineInv
  <2>2. PICK chars, now, ended, cut :
           /\ Played(n, chars, now, ended, line, typing, typed)
           /\ Cuts(n, chars, cut, queue, todo)
    BY <2>1, Zenon
  <2>3. PICK e : e = Piece(t, Head(sending[t]))
    OBVIOUS
  <2>4. e \in Elements /\ e.from # "host"
    <3>1. Head(sending[t]) \in Strings
      BY SendPartIs
    <3>2. e \in Elements /\ e.from = t
      BY <2>3, <3>1, PieceIs
    <3> QED BY <3>2, TagFacts, Zenon
  <2>5. queue \in Seq(Elements)
    BY DEF Types
  <2>6. queue' = queue \o <<e>>
    BY <1>3, <2>3, <2>5
  <2>7. <<e>> \in Seq(Elements) /\ Len(<<e>>) = 1 /\ <<e>>[1] = e
    BY <2>4
  <2>8. PICK more \in Seq(Elements) :
           more = <<e>> /\ Len(more) = 1 /\ more[1] = e
    BY <2>7, Zenon
  <2> DEFINE end == [i \in 0..1 |-> 0]
  <2>9. end \in [0..1 -> 0..0] /\ end[0] = 0 /\ end[1] = 0
    OBVIOUS
  <2>10. \A i, j \in 0..1 : i <= j => end[i] <= end[j]
    OBVIOUS
  <2>11. \A i \in 1..1 :
            /\ more[i].from # "host"
            /\ end[i] = end[i - 1]
    <3>1. \A i \in 1..1 : i = 1 /\ i - 1 = 0
      OBVIOUS
    <3> QED BY <2>4, <2>8, <2>9, <3>1
  <2> HIDE DEF end
  <2>12. \E longer : Cuts(n + 0, chars, longer, queue \o more, todo)
    <3>1. 0 \in Nat /\ 1 \in Nat
      OBVIOUS
    <3>2. Joins(1, more, end, 0, chars, n)
      BY <2>8, <2>9, <2>10, <2>11 DEF Joins
    <3> QED BY <2>2, <2>5, <2>8, <3>1, <3>2, CutsJoin, Zenon
  <2>13. n + 0 = n
    OBVIOUS
  <2> QED BY <2>2, <2>6, <2>8, <2>12, <2>13, Zenon
<1> QED BY <1>2, <1>3, SendPartIs

\* xQueueReceive: the characters of the element are to be taken.
LEMMA ReceiveElementLine ==
    ASSUME Types, LineInv, ReceiveElement
    PROVE  LineInv'
<1>1. /\ todo = <<>> /\ queue # <<>> /\ line' = line
      /\ typing' = typing /\ typed' = typed /\ lossy' = lossy
      /\ queue' = Tail(queue) /\ todo' = Work(Head(queue))
  BY DEF ReceiveElement
<1>2. queue \in Seq(Elements)
  BY DEF Types
<1> SUFFICES ASSUME ~lossy
             PROVE  \E n \in Nat : \E chars, now, ended, cut :
                       /\ Played(n, chars, now, ended, line, typing, typed)
                       /\ Cuts(n, chars, cut, queue', todo')
  BY <1>1, Zenon DEF LineInv
<1>3. PICK n \in Nat : \E chars, now, ended, cut :
         /\ Played(n, chars, now, ended, line, typing, typed)
         /\ Cuts(n, chars, cut, queue, todo)
  BY Zenon DEF LineInv
<1>4. PICK chars, now, ended, cut :
         /\ Played(n, chars, now, ended, line, typing, typed)
         /\ Cuts(n, chars, cut, queue, todo)
  BY <1>3, Zenon
<1>5. Cuts(n, chars, cut, queue, <<>>)
  BY <1>1, <1>4, Zenon
<1>6. \E fewer : Cuts(n, chars, fewer, Tail(queue), Work(Head(queue)))
  BY <1>1, <1>2, <1>5, CutsReceive
<1> QED BY <1>1, <1>4, <1>6, Zenon

\* raw_send takes no character.
LEMMA RawSendLine ==
    ASSUME Types, LineInv, RawSend
    PROVE  LineInv'
<1>1. /\ todo # <<>> /\ line' = line /\ queue' = queue
      /\ typing' = typing /\ typed' = typed /\ lossy' = lossy
      /\ todo' = Tail(todo) /\ Head(todo).do # "take"
  BY DEF RawSend, Now, Shows
<1>2. queue \in Seq(Elements) /\ todo \in Seq(Doings)
  BY DEF Types
<1>3. todo[1].do # "take"
  BY <1>1, <1>2, TailIs
<1> SUFFICES ASSUME ~lossy
             PROVE  \E n \in Nat : \E chars, now, ended, cut :
                       /\ Played(n, chars, now, ended, line, typing, typed)
                       /\ Cuts(n, chars, cut, queue, Tail(todo))
  BY <1>1, Zenon DEF LineInv
<1>4. PICK n \in Nat : \E chars, now, ended, cut :
         /\ Played(n, chars, now, ended, line, typing, typed)
         /\ Cuts(n, chars, cut, queue, todo)
  BY Zenon DEF LineInv
<1>5. PICK chars, now, ended, cut :
         /\ Played(n, chars, now, ended, line, typing, typed)
         /\ Cuts(n, chars, cut, queue, todo)
  BY <1>4, Zenon
<1>6. Cuts(n, chars, cut, queue, Tail(todo))
  BY <1>1, <1>2, <1>3, <1>5, CutsShow
<1> QED BY <1>5, <1>6, Zenon

\* A character that ends a line ends the one that was typed first.
LEMMA FirstLineEnds ==
    ASSUME Types, LineInv, ~lossy, Now("take")
    PROVE  \E n \in Nat : \E chars, now, ended, cut :
              /\ Played(n + 1, chars, now, ended, line, typing, typed)
              /\ Cuts(n + 1, chars, cut, queue, todo)
              /\ Head(todo).char = chars[1]
<1>1. todo # <<>> /\ Head(todo).do = "take"
  BY DEF Now
<1>2. queue \in Seq(Elements) /\ todo \in Seq(Doings)
  BY DEF Types
<1>3. Head(todo) = todo[1]
  BY <1>1, <1>2, TailIs
<1>4. PICK m \in Nat : \E chars, now, ended, cut :
         /\ Played(m, chars, now, ended, line, typing, typed)
         /\ Cuts(m, chars, cut, queue, todo)
  BY Zenon DEF LineInv
<1>5. PICK chars, now, ended, cut :
         /\ Played(m, chars, now, ended, line, typing, typed)
         /\ Cuts(m, chars, cut, queue, todo)
  BY <1>4, Zenon
<1>6. m >= 1 /\ todo[1].char = chars[1]
  <2>1. Takes(todo)
    BY <1>1, <1>3 DEF Takes
  <2> QED BY <1>2, <1>5, <2>1, CutsFirst, Zenon
<1>7. PICK n \in Nat : m = n + 1
  <2>1. m - 1 \in Nat /\ m = m - 1 + 1
    BY <1>6
  <2> QED BY <2>1
<1> QED BY <1>3, <1>5, <1>6, <1>7, Zenon

\* new_char takes the first character on its way.
LEMMA TakeCharacterLine ==
    ASSUME Types, LineInv, TakeCharacter
    PROVE  LineInv'
<1>1. /\ todo # <<>> /\ Head(todo).do = "take" /\ Now("take")
      /\ line' = NewChar(line, Head(todo).char)
      /\ typed' = IF Head(todo).char \in Terminators THEN Tail(typed) ELSE typed
      /\ queue' = queue /\ typing' = typing /\ lossy' = lossy
      /\ todo' = Tail(todo)
  BY DEF TakeCharacter, Ends, Now
<1>2. queue \in Seq(Elements) /\ todo \in Seq(Doings)
  BY DEF Types
<1>3. Head(todo) = todo[1]
  BY <1>1, <1>2, TailIs
<1> SUFFICES ASSUME ~lossy
             PROVE  \E n \in Nat : \E chars, now, ended, cut :
                       /\ Played(n, chars, now, ended, line', typing, typed')
                       /\ Cuts(n, chars, cut, queue, Tail(todo))
  BY <1>1, Zenon DEF LineInv
<1>4. PICK n \in Nat : \E chars, now, ended, cut :
         /\ Played(n + 1, chars, now, ended, line, typing, typed)
         /\ Cuts(n + 1, chars, cut, queue, todo)
         /\ Head(todo).char = chars[1]
  BY <1>1, FirstLineEnds
<1>5. PICK chars, now, ended, cut :
         /\ Played(n + 1, chars, now, ended, line, typing, typed)
         /\ Cuts(n + 1, chars, cut, queue, todo)
         /\ Head(todo).char = chars[1]
  BY <1>4, Zenon
<1>6. /\ chars[1] \in Terminators => typed' = Tail(typed)
      /\ chars[1] \notin Terminators => typed' = typed
  BY <1>1, <1>5
<1>7. PICK others, then, since :
         /\ Played(n, others, then, since,
                   NewChar(line, chars[1]), typing, typed')
         /\ Rests(n, others, chars)
  <2>1. PICK rest : rest = typed'
    OBVIOUS
  <2>2. /\ chars[1] \in Terminators => rest = Tail(typed)
        /\ chars[1] \notin Terminators => rest = typed
    BY <1>6, <2>1
  <2>3. \E others, then, since :
           /\ Played(n, others, then, since,
                     NewChar(line, chars[1]), typing, rest)
           /\ Rests(n, others, chars)
    BY <1>5, <2>2, FirstIsPlayed, Zenon
  <2> QED BY <2>1, <2>3, Zenon
<1>8. \E fewer : Cuts(n, others, fewer, queue, Tail(todo))
  <2>1. PICK p \in Nat : p = n + 1 /\ n = p - 1
    <3>1. n + 1 \in Nat /\ n = n + 1 - 1
      OBVIOUS
    <3> QED BY <3>1
  <2>2. Takes(todo)
    BY <1>1, <1>3 DEF Takes
  <2>3. Cuts(p, chars, cut, queue, todo)
    BY <1>5, <2>1, Zenon
  <2>4. Rests(p - 1, others, chars)
    BY <1>7, <2>1, Zenon
  <2>5. \E fewer : Cuts(p - 1, others, fewer, queue, Tail(todo))
    BY <1>2, <2>2, <2>3, <2>4, CutsTake, Zenon
  <2> QED BY <2>1, <2>5
<1> QED BY <1>1, <1>5, <1>6, <1>7, <1>8, Zenon

\* A restart forgets what was on its way.
LEMMA RestartLine ==
    ASSUME Restart
    PROVE  LineInv'
<1>1. line' = <<>> /\ typing' = <<>> /\ typed' = <<>> /\ queue' = <<>>
      /\ todo' = <<>>
  BY DEF Restart
<1>2. 0 \in Nat
  OBVIOUS
<1> QED BY <1>1, <1>2, NothingPlayed, Zenon DEF LineInv

\* What the interrupt of a packet does when nothing is dropped.
LEMMA TypeIs ==
    ASSUME Types, NEW chars \in Inputs, Type(chars), ~lossy', NEW E,
           E = Edits([now |-> typing, lines |-> typed], chars)
    PROVE  /\ ~lossy /\ todo' = todo /\ line' = line
           /\ typing' = E[Len(chars)].now /\ typed' = E[Len(chars)].lines
           /\ \A k \in 1..Len(chars) : ~(Len(E[k].now) > LineSize)
           /\ queue' = queue \o
                 [k \in 1..Len(Chunks(chars)) |->
                     [from |-> "host", chars |-> Chunks(chars)[k]]]
<1> DEFINE long == \E k \in 1..Len(chars) : Len(E[k].now) > LineSize
           room == QueueSize - Len(queue)
           taken == IF Len(Chunks(chars)) <= room THEN Len(Chunks(chars))
                    ELSE room
<1>1. /\ todo' = todo /\ line' = line
      /\ typing' = E[Len(chars)].now /\ typed' = E[Len(chars)].lines
      /\ Receive(chars, long)
  BY DEF Type
<1> HIDE DEF long
<1>2. /\ lossy' = (lossy \/ long \/ taken < Len(Chunks(chars)))
      /\ queue' = queue \o
            [k \in 1..taken |-> [from |-> "host", chars |-> Chunks(chars)[k]]]
  BY <1>1 DEF Receive
<1>3. ~lossy /\ ~long /\ ~(taken < Len(Chunks(chars)))
  BY <1>2, Zenon
<1>4. taken = Len(Chunks(chars))
  <2>1. chars \in Lines
    BY ShellAssumption DEF Lines, Characters
  <2>2. PICK m \in Nat : m = Len(Chunks(chars))
    BY <2>1, ChunksAre
  <2>3. PICK l \in Nat : l = Len(queue)
    BY DEF Types
  <2>4. PICK r \in Int : r = room
    BY <2>3, ShellAssumption
  <2>5. taken = IF m <= r THEN m ELSE r
    BY <2>2, <2>4
  <2> HIDE DEF taken, room
  <2> QED BY <1>3, <2>2, <2>4, <2>5
<1> HIDE DEF taken, room
<1> QED BY <1>1, <1>2, <1>3, <1>4, Zenon DEF long

\* CDC_Receive_FS: what is typed is on its way behind what is.
LEMMA TypeLine ==
    ASSUME Types, LineInv, NEW chars \in Inputs, Type(chars)
    PROVE  LineInv'
<1> SUFFICES ASSUME ~lossy'
             PROVE  \E n \in Nat : \E all, now, ended, cut :
                       /\ Played(n, all, now, ended, line', typing', typed')
                       /\ Cuts(n, all, cut, queue', todo')
  BY Zenon DEF LineInv
<1>1. PICK E : E = Edits([now |-> typing, lines |-> typed], chars)
  OBVIOUS
<1>2. /\ ~lossy /\ todo' = todo /\ line' = line
      /\ typing' = E[Len(chars)].now /\ typed' = E[Len(chars)].lines
      /\ \A k \in 1..Len(chars) : ~(Len(E[k].now) > LineSize)
      /\ queue' = queue \o
            [k \in 1..Len(Chunks(chars)) |->
                [from |-> "host", chars |-> Chunks(chars)[k]]]
  BY <1>1, TypeIs
<1>3. chars \in Lines
  BY ShellAssumption DEF Lines, Characters
<1>4. PICK m \in Nat : m = Len(chars)
  BY <1>3 DEF Lines
<1>5. PICK n \in Nat : \E on, now, ended, cut :
         /\ Played(n, on, now, ended, line, typing, typed)
         /\ Cuts(n, on, cut, queue, todo)
  BY <1>2, Zenon DEF LineInv
<1>6. PICK on, now, ended, cut :
         /\ Played(n, on, now, ended, line, typing, typed)
         /\ Cuts(n, on, cut, queue, todo)
  BY <1>5, Zenon
<1>7. Goes(E, m, [now |-> typing, lines |-> typed], chars)
  <2>1. typing \in Lines /\ typed \in Seq(Lines)
    <3>1. now \in [0..n -> Lines] /\ now[n] = typing /\ typed \in Seq(Lines)
      BY <1>6 DEF Played
    <3> QED BY <3>1
  <2>2. PICK s \in States : s = [now |-> typing, lines |-> typed]
    BY <2>1 DEF States
  <2>3. E = Edits(s, chars)
    BY <1>1, <2>2, Zenon
  <2>4. Goes(E, m, s, chars)
    BY <1>3, <1>4, <2>3, EditsAre, Zenon
  <2> QED BY <2>2, <2>4, Zenon
<1>8. \A k \in 1..m : Len(E[k].now) <= LineSize
  <2> SUFFICES ASSUME NEW k \in 1..m PROVE Len(E[k].now) <= LineSize
    OBVIOUS
  <2>1. ~(Len(E[k].now) > LineSize)
    BY <1>2, <1>4
  <2>2. E \in [0..m -> States]
    BY <1>7 DEF Goes
  <2>3. E[k] \in States
    BY <2>2
  <2>4. E[k].now \in Lines
    BY <2>3 DEF States
  <2>5. PICK l \in Nat : l = Len(E[k].now)
    BY <2>4 DEF Lines
  <2> QED BY <2>1, <2>5, ShellAssumption
<1>9. PICK all, then, since :
         /\ Played(n + m, all, then, since, line, E[m].now, E[m].lines)
         /\ Follow(n, m, all, on, chars)
  <2>1. Played(n, on, now, ended, line, typing, typed)
    BY <1>6
  <2>2. Short(E, m, chars)
    BY <1>4, <1>8 DEF Short
  <2> QED BY <1>3, <1>7, <2>1, <2>2, MoreIsPlayed, Zenon
<1>f. /\ \A k \in 1..n : all[k] = on[k]
      /\ \A k \in 1..m : all[n + k] = chars[k]
  BY <1>9 DEF Follow
<1>10. PICK l \in Nat : \E end \in [0..l -> 0..Len(chars)] :
          /\ Chunks(chars) \in Seq(Lines) /\ Len(Chunks(chars)) = l
          /\ end[0] = 0 /\ end[l] = Len(chars)
          /\ \A j, k \in 0..l : j <= k => end[j] <= end[k]
          /\ \A k \in 1..l :
                /\ Len(Chunks(chars)[k]) = end[k] - end[k - 1]
                /\ \A j \in 1..Len(Chunks(chars)[k]) :
                      Chunks(chars)[k][j] = chars[end[k - 1] + j]
  BY <1>3, ChunksAre, Zenon
<1>11. PICK end \in [0..l -> 0..m] :
          /\ Chunks(chars) \in Seq(Lines) /\ Len(Chunks(chars)) = l
          /\ end[0] = 0 /\ end[l] = m
          /\ \A j, k \in 0..l : j <= k => end[j] <= end[k]
          /\ \A k \in 1..l :
                /\ Len(Chunks(chars)[k]) = end[k] - end[k - 1]
                /\ \A j \in 1..Len(Chunks(chars)[k]) :
                      Chunks(chars)[k][j] = chars[end[k - 1] + j]
  BY <1>4, <1>10, Zenon
<1>12. PICK chunks : chunks = Chunks(chars)
  OBVIOUS
<1> DEFINE made == [k \in 1..l |-> [from |-> "host", chars |-> chunks[k]]]
<1>13. /\ made \in Seq(Elements) /\ Len(made) = l
       /\ \A k \in 1..l : made[k].from = "host" /\ made[k].chars = chunks[k]
  <2>1. \A k \in 1..l : chunks[k] \in Seq(Characters)
    BY <1>11, <1>12 DEF Lines
  <2>2. \A k \in 1..l : [from |-> "host", chars |-> chunks[k]] \in Elements
    BY <2>1 DEF Elements
  <2> QED BY <2>2
<1>14. queue' = queue \o made
  BY <1>2, <1>11, <1>12, Zenon
<1> HIDE DEF made
<1>15. PICK more \in Seq(Elements) : more = made
  BY <1>13, Zenon
<1>16. ASSUME NEW i \in 1..l
       PROVE  /\ more[i].from = "host"
              /\ Len(more[i].chars) = end[i] - end[i - 1]
              /\ \A j \in 1..Len(more[i].chars) :
                    more[i].chars[j] = all[n + (end[i - 1] + j)]
  <2>1. more[i].from = "host" /\ more[i].chars = chunks[i]
    BY <1>13, <1>15, Zenon
  <2>2. i \in 0..l /\ i - 1 \in 0..l /\ i - 1 <= i
    OBVIOUS
  <2>3. PICK a \in 0..m, b \in 0..m : a = end[i - 1] /\ b = end[i] /\ a <= b
    BY <1>11, <2>2
  <2>4. /\ Len(chunks[i]) = b - a
        /\ \A j \in 1..Len(chunks[i]) : chunks[i][j] = chars[a + j]
    BY <1>11, <1>12, <2>3, Zenon
  <2>5. ASSUME NEW j \in 1..(b - a) PROVE a + j \in 1..m
    <3>1. j \in Int /\ 1 <= j /\ j <= b - a
      BY <2>3
    <3>2. a \in Nat /\ b \in Nat /\ b <= m
      BY <2>3
    <3> QED BY <3>1, <3>2
  <2>6. \A j \in 1..Len(chunks[i]) : chunks[i][j] = all[n + (a + j)]
    BY <1>f, <2>4, <2>5, Zenon
  <2> QED BY <2>1, <2>3, <2>4, <2>6, Zenon
<1>17. queue \in Seq(Elements) /\ l = Len(more)
  BY <1>13, <1>15, Zenon DEF Types
<1>18. \E longer : Cuts(n + m, all, longer, queue \o more, todo)
  <2>1. Cuts(n, on, cut, queue, todo)
    BY <1>6
  <2>2. \A i \in 1..l :
           /\ more[i].from = "host" =>
                 /\ Len(more[i].chars) = end[i] - end[i - 1]
                 /\ \A j \in 1..Len(more[i].chars) :
                       more[i].chars[j] = all[n + (end[i - 1] + j)]
           /\ more[i].from # "host" => end[i] = end[i - 1]
    BY <1>16, Zenon
  <2>3. /\ end \in [0..l -> 0..m] /\ end[0] = 0 /\ end[l] = m
        /\ \A i, j \in 0..l : i <= j => end[i] <= end[j]
    BY <1>11
  <2>4. Joins(l, more, end, m, all, n)
    BY <1>17, <2>2, <2>3, Zenon DEF Joins
  <2> QED BY <1>f, <1>17, <2>1, <2>4, CutsJoin, Zenon
<1>19. n + m \in Nat
  OBVIOUS
<1>20. Played(n + m, all, then, since, line', typing', typed')
  BY <1>2, <1>4, <1>9, Zenon
<1> QED BY <1>2, <1>14, <1>15, <1>18, <1>19, <1>20, Zenon

\* Every step leaves the line's invariant true.
LEMMA LineStep ==
    ASSUME Types, LineInv, [Next]_vars
    PROVE  LineInv'
<1>1. ASSUME NEW t \in Tasks, Log(t) PROVE LineInv'
  <2>1. UNCHANGED <<queue, todo, line, typing, typed, lossy>>
    BY <1>1 DEF Log
  <2> QED BY <2>1, LineKept
<1>2. CASE Fetch \/ Plug \/ Unplug \/ UNCHANGED vars
  <2>1. UNCHANGED <<queue, todo, line, typing, typed, lossy>>
    BY <1>2 DEF Fetch, Plug, Unplug, vars
  <2> QED BY <2>1, LineKept
<1> QED BY <1>1, <1>2, SendPartLine, ReceiveElementLine, TakeCharacterLine,
           RestartLine, RawSendLine, TypeLine DEF Next, Terminal

\* new_char, isr_new_chars: as long as nothing was dropped and no line grew
\* longer than the buffer, the line that is executed is the one that was
\* typed, with its deletions, however its characters were cut into elements.
THEOREM TypedLinesAreExecuted == Spec => []LinesAreTyped
<1>1. Init => PromptInv /\ LineInv
  BY PromptInit, LineInit
<1>2. PromptInv /\ LineInv /\ [Next]_vars => PromptInv' /\ LineInv'
  BY PromptStep, LineStep DEF PromptInv
<1>3. PromptInv /\ LineInv => LinesAreTyped
  <2> SUFFICES ASSUME Types, LineInv, ~lossy, Ends
               PROVE  line = Head(typed)
    BY DEF LinesAreTyped, PromptInv
  <2>1. Now("take") /\ Head(todo).char \in Terminators
    BY DEF Ends
  <2>2. PICK n \in Nat : \E chars, now, ended, cut :
           /\ Played(n + 1, chars, now, ended, line, typing, typed)
           /\ Cuts(n + 1, chars, cut, queue, todo)
           /\ Head(todo).char = chars[1]
    BY <2>1, FirstLineEnds
  <2>3. PICK chars, now, ended, cut :
           /\ Played(n + 1, chars, now, ended, line, typing, typed)
           /\ Cuts(n + 1, chars, cut, queue, todo)
           /\ Head(todo).char = chars[1]
    BY <2>2, Zenon
  <2>4. PICK rest : /\ chars[1] \in Terminators => rest = Tail(typed)
                    /\ chars[1] \notin Terminators => rest = typed
    OBVIOUS
  <2>5. chars[1] \in Terminators => Head(typed) = line
    <3>1. n \in Nat /\ Played(n + 1, chars, now, ended, line, typing, typed)
      BY <2>3
    <3>2. /\ chars[1] \in Terminators => Head(typed) = line
          /\ \E others, then, since :
                /\ Played(n, others, then, since,
                          NewChar(line, chars[1]), typing, rest)
                /\ Rests(n, others, chars)
      BY <2>4, <3>1, FirstIsPlayed, Zenon
    <3> QED BY <3>2, Zenon
  <2> QED BY <2>1, <2>3, <2>5, Zenon
<1> QED BY <1>1, <1>2, <1>3, PTL DEF Spec
=============================================================================
