-------------------------- MODULE DescriptorProofs ---------------------------
(***************************************************************************)
(* The two passes over a HID report descriptor, for every descriptor and   *)
(* every limit of the parser: the fallback reading agrees with the strict  *)
(* one, and a collection is supported exactly when its reports can be told *)
(* from those of all others.                                               *)
(***************************************************************************)
EXTENDS ReportDescriptor, Integers, TLAPS

\* Zenon proves the leaves, except for those that cite SMT.
USE Zenon

\* The items of a descriptor, the state that Push saves, the usages of collections, and
\* the bits of a collection's reports.
Items == [tag : STRING, value : Nat]

Globals == [page : {p \in Nat : p < Word}, size : Nat, count : Nat, id : Nat]

UsageRecords == [page : Nat, id : Nat]

ReportMaps == UNION {[ids -> 0..maxBits] : ids \in SUBSET Nat}

\* What the parser has read; an item is inside a collection that has been found.
ParserTyped ==
  /\ failed \in BOOLEAN /\ unnamed \in BOOLEAN /\ hasMinimum \in BOOLEAN
  /\ invalidLayout \in BOOLEAN
  /\ global \in Globals /\ stack \in Seq(Globals) /\ Len(stack) <= maxDepth
  /\ usages \in Seq(Nat) /\ minimum \in Nat
  /\ applications \in Seq(UsageRecords)
  /\ collections \in Seq(Nat)
  /\ \A i \in 1..Len(collections) : collections[i] <= Len(applications)
  /\ inputs \in Seq(ReportMaps) /\ Len(inputs) = Len(applications)
  /\ outputs \in Seq(ReportMaps) /\ Len(outputs) = Len(applications)

\* What the fallback scan has read.
ScanTyped ==
  /\ broken \in BOOLEAN /\ named \in BOOLEAN /\ hasMin \in BOOLEAN
  /\ page \in Nat /\ pages \in Seq(Nat) /\ first \in Nat /\ least \in Nat
  /\ depth \in Nat /\ found \in Seq(UsageRecords)

ReadersTyped ==
  /\ phase \in {"size", "items", "finish", "done"} /\ items \in Seq(Items)
  /\ ParserTyped /\ ScanTyped

\* The scan is where the parser is, as long as that goes on.
InStep ==
  /\ broken = FALSE
  /\ depth = Len(collections)
  /\ page = global.page
  /\ Len(pages) = Len(stack) /\ \A i \in 1..Len(stack) : pages[i] = stack[i].page
  /\ named = TRUE <=> usages # << >>
  /\ usages # << >> => first = usages[1]
  /\ hasMin = hasMinimum /\ least = minimum
  /\ Len(found) = Len(applications)

\* t begins with s.
Begins(s, t) == Len(s) <= Len(t) /\ \A i \in 1..Len(s) : s[i] = t[i]

\* The two passes: in step until the parser gives up, and what it had found stays the
\* beginning of what the scan finds.
ReadingsInv ==
  /\ ReadersTyped
  /\ phase = "size" => failed = FALSE
  /\ failed = FALSE => InStep
  /\ unnamed = FALSE => Begins(applications, found)

\* The report IDs of the collections before n.
Owned(maps, n) == UNION {DOMAIN maps[j] : j \in 1..(n - 1)}

\* finish's map of owners, when it has come to collection n.
OwnersAre(owners, maps, n) ==
  /\ DOMAIN owners = Owned(maps, n)
  /\ \A id \in DOMAIN owners : owners[id] \in 1..(n - 1) /\ id \in DOMAIN maps[owners[id]]

\* The collections before n that share a report ID with another one of them.
Clashes(maps, n) ==
  {i \in 1..(n - 1) : \E j \in 1..(n - 1) : j # i /\ DOMAIN maps[i] \cap DOMAIN maps[j] # {}}

\* finish, between two collections.
FinishInv ==
  phase = "finish" =>
    /\ failed = FALSE
    /\ index \in 1..(Len(applications) + 1)
    /\ OwnersAre(inOwners, inputs, index) /\ OwnersAre(outOwners, outputs, index)
    /\ unsupported = Clashes(inputs, index) \cup Clashes(outputs, index)
    /\ supported = {i \in 1..(index - 1) :
                      ~invalidLayout /\ OneReport(inputs, i) /\ OneReport(outputs, i)}

\* Before finish begins.
Unfinished ==
  phase \in {"size", "items"} =>
    /\ index = 1 /\ inOwners = NoReports /\ outOwners = NoReports
    /\ unsupported = {} /\ supported = {}

DescriptorInv == ReadingsInv /\ Unfinished /\ FinishInv /\ SupportedAreUnambiguous

-----------------------------------------------------------------------------
\* Sequences with the same elements are equal.
LEMMA SameSeq ==
  ASSUME NEW S, NEW s \in Seq(S), NEW t \in Seq(S),
         Len(s) = Len(t), \A i \in 1..Len(s) : s[i] = t[i]
  PROVE  s = t
BY SMT

\* The empty sequence, and every other one.
LEMMA EmptyIsSeq ==
  ASSUME NEW S
  PROVE /\ << >> \in Seq(S) /\ Len(<< >>) = 0
        /\ \A s \in Seq(S) : s # << >> => Len(s) \in Nat \ {0}
BY SMT

\* The elements behind the first one.
LEMMA HeadAndTail ==
  ASSUME NEW S, NEW s \in Seq(S), s # << >>
  PROVE  /\ Head(s) \in S /\ Tail(s) \in Seq(S)
         /\ Len(Tail(s)) = Len(s) - 1
         /\ \A i \in 1..Len(Tail(s)) : Tail(s)[i] = s[i + 1]
BY SMT

\* The first n elements of a sequence.
LEMMA Prefix ==
  ASSUME NEW S, NEW s \in Seq(S), NEW n \in 0..Len(s)
  PROVE  /\ SubSeq(s, 1, n) \in Seq(S) /\ Len(SubSeq(s, 1, n)) = n
         /\ \A i \in 1..n : SubSeq(s, 1, n)[i] = s[i]
<1>1. SubSeq(s, 1, n) \in Seq(S)
  BY SMT
<1>2. Len(SubSeq(s, 1, n)) = n
  BY SMT
<1>3. \A i \in 1..n : SubSeq(s, 1, n)[i] = s[i]
  BY SMT
<1> QED
  BY <1>1, <1>2, <1>3

\* A usage is a record.
LEMMA UsageTyped ==
  ASSUME NEW p \in Nat, NEW usage \in Nat PROVE UsageOf(p, usage) \in UsageRecords
<1>1. usage % Word \in Nat /\ usage \div Word \in Nat
  BY SMT DEF Word
<1> QED
  BY <1>1 DEF UsageOf, UsageRecords

\* What is added stays within the bits of a report.
LEMMA BitsAdded ==
  ASSUME NEW target \in ReportMaps, NEW id \in Nat, NEW bits \in Nat,
         BitsOf(target, id) + bits <= maxBits
  PROVE  AddBits(target, id, bits) \in ReportMaps
<1>1. PICK ids \in SUBSET Nat : target \in [ids -> 0..maxBits]
  BY DEF ReportMaps
<1>2. maxBits \in Nat
  BY DescriptorAssumption, SMT DEF maxBits
<1>3. BitsOf(target, id) \in Nat
  BY <1>1, <1>2, SMT DEF BitsOf
<1>4. BitsOf(target, id) + bits \in 0..maxBits
  BY <1>2, <1>3, SMT
<1>5. AddBits(target, id, bits) \in [ids \cup {id} -> 0..maxBits]
  BY <1>1, <1>4 DEF AddBits
<1>6. ids \cup {id} \in SUBSET Nat
  OBVIOUS
<1> QED
  BY <1>5, <1>6 DEF ReportMaps

\* A collection begins without reports.
LEMMA EmptyReports == NoReports \in ReportMaps /\ DOMAIN NoReports = {}
<1>1. NoReports \in [{} -> 0..maxBits] /\ DOMAIN NoReports = {}
  BY DEF NoReports
<1>2. {} \in SUBSET Nat
  OBVIOUS
<1> QED
  BY <1>1, <1>2 DEF ReportMaps

\* A main item forgets the local ones and keeps the globals.
LEMMA MainDoneTyped ==
  ASSUME ParserTyped, MainDone, unnamed' \in BOOLEAN,
         applications' \in Seq(UsageRecords), collections' \in Seq(Nat),
         \A i \in 1..Len(collections') : collections'[i] <= Len(applications'),
         inputs' \in Seq(ReportMaps), Len(inputs') = Len(applications'),
         outputs' \in Seq(ReportMaps), Len(outputs') = Len(applications')
  PROVE  ParserTyped'
<1>1. failed' \in BOOLEAN /\ hasMinimum' \in BOOLEAN /\ invalidLayout' \in BOOLEAN
  BY DEF ParserTyped, MainDone
<1>2. /\ global' \in Globals /\ stack' \in Seq(Globals) /\ Len(stack') <= maxDepth
      /\ usages' \in Seq(Nat) /\ minimum' \in Nat
  BY SMT DEF ParserTyped, MainDone
<1> QED
  BY <1>1, <1>2 DEF ParserTyped

\* One more open collection.
LEMMA OpenedBelow ==
  ASSUME NEW s \in Seq(Nat), NEW m \in Nat, NEW n \in Nat, NEW e \in Nat,
         \A i \in 1..Len(s) : s[i] <= m, m <= n, e <= n
  PROVE  /\ Append(s, e) \in Seq(Nat)
         /\ \A i \in 1..Len(Append(s, e)) : Append(s, e)[i] <= n
<1>1. Append(s, e) \in Seq(Nat)
  BY SMT
<1>2. ASSUME NEW i \in 1..Len(Append(s, e)) PROVE Append(s, e)[i] <= n
  <2>1. CASE i <= Len(s)
    <3>1. i \in 1..Len(s) /\ Append(s, e)[i] = s[i] /\ s[i] \in Nat
      BY <2>1, SMT
    <3> QED
      BY <3>1, SMT
  <2>2. CASE i > Len(s)
    <3>1. Append(s, e)[i] = e
      BY <2>2, SMT
    <3> QED
      BY <3>1
  <2> QED
    BY <2>1, <2>2, SMT
<1> QED
  BY <1>1, <1>2

\* A main item keeps the parser's state well formed.
LEMMA MainTyped ==
  ASSUME ParserTyped, NEW tag, NEW value \in Nat, main(tag, value)
  PROVE  ParserTyped'
<1>1. CASE invalid
  BY <1>1 DEF invalid, ParserTyped
<1>2. CASE tag = "Collection" /\ ~invalid
  <2>1. beginCollection(value) /\ ~invalid
    BY <1>2 DEF main
  <2>2. MainDone
    BY <2>1 DEF beginCollection
  <2>3. CASE /\ applications' = Append(applications,
                  UsageOf(global.page, IF usages # << >> THEN usages[1] ELSE minimum))
             /\ inputs' = Append(inputs, NoReports)
             /\ outputs' = Append(outputs, NoReports)
             /\ collections' = Append(collections, Len(applications) + 1)
             /\ unnamed' = (unnamed \/ (usages = << >> /\ ~hasMinimum))
    <3>1. (IF usages # << >> THEN usages[1] ELSE minimum) \in Nat /\ global.page \in Nat
      BY SMT DEF ParserTyped, Globals
    <3> DEFINE u == UsageOf(global.page, IF usages # << >> THEN usages[1] ELSE minimum)
    <3>2. u \in UsageRecords
      BY <3>1, UsageTyped
    <3> HIDE DEF u
    <3>3. applications' = Append(applications, u)
      BY <2>3 DEF u
    <3>4. /\ applications' \in Seq(UsageRecords) /\ Len(applications') = Len(applications) + 1
          /\ Len(applications) \in Nat
      BY <3>2, <3>3, SMT DEF ParserTyped
    <3>5. /\ inputs' \in Seq(ReportMaps) /\ Len(inputs') = Len(inputs) + 1
          /\ outputs' \in Seq(ReportMaps) /\ Len(outputs') = Len(outputs) + 1
      BY <2>3, EmptyReports, SMT DEF ParserTyped
    <3>6. /\ collections' \in Seq(Nat)
          /\ \A i \in 1..Len(collections') : collections'[i] <= Len(applications')
      <4> DEFINE m == Len(applications)
                 e == Len(applications) + 1
      <4>1. m \in Nat /\ e \in Nat /\ m <= e /\ e <= e /\ Len(applications') = e
        BY <3>4, SMT
      <4>2. collections \in Seq(Nat) /\ \A i \in 1..Len(collections) : collections[i] <= m
        BY DEF ParserTyped
      <4>3. collections' = Append(collections, e)
        BY <2>3
      <4> HIDE DEF m, e
      <4>4. /\ Append(collections, e) \in Seq(Nat)
            /\ \A i \in 1..Len(Append(collections, e)) : Append(collections, e)[i] <= e
        BY <4>1, <4>2, OpenedBelow
      <4> QED
        BY <4>1, <4>3, <4>4
    <3>7. unnamed' \in BOOLEAN
      BY <2>3 DEF ParserTyped
    <3>8. Len(inputs') = Len(applications') /\ Len(outputs') = Len(applications')
      BY <3>4, <3>5 DEF ParserTyped
    <3> QED
      BY <2>2, <3>4, <3>5, <3>6, <3>7, <3>8, MainDoneTyped
  <2>4. CASE collections' = Append(collections, current)
             /\ UNCHANGED <<applications, inputs, outputs, unnamed>>
    <3>1. current \in Nat /\ current <= Len(applications)
      BY SMT DEF current, ParserTyped
    <3>2. /\ collections' \in Seq(Nat)
          /\ \A i \in 1..Len(collections') : collections'[i] <= Len(applications)
      <4>1. Len(applications) \in Nat
        BY SMT DEF ParserTyped
      <4> QED
        BY <2>4, <3>1, <4>1, OpenedBelow, SMTT(30) DEF ParserTyped
    <3>3. unnamed' \in BOOLEAN
      BY <2>4 DEF ParserTyped
    <3>4. UNCHANGED <<applications, inputs, outputs>>
      BY <2>4
    <3> QED
      BY <2>2, <3>2, <3>3, <3>4, MainDoneTyped DEF ParserTyped
  <2> QED
    BY <2>1, <2>3, <2>4 DEF beginCollection
<1>3. CASE tag = "EndCollection" /\ ~invalid
  <2>1. endCollection /\ ~invalid
    BY <1>3 DEF main
  <2>2. /\ MainDone /\ UNCHANGED <<applications, inputs, outputs>>
        /\ collections # << >> /\ collections' = SubSeq(collections, 1, Len(collections) - 1)
    BY <2>1 DEF endCollection
  <2>3. /\ collections' \in Seq(Nat)
        /\ \A i \in 1..Len(collections') : collections'[i] <= Len(applications)
    <3> DEFINE j == Len(collections) - 1
    <3>1. /\ collections \in Seq(Nat) /\ j \in 0..Len(collections)
          /\ \A i \in 1..Len(collections) : collections[i] <= Len(applications)
      BY <2>2, SMT DEF ParserTyped
    <3>2. collections' = SubSeq(collections, 1, j)
      BY <2>2
    <3>3. 1..j \subseteq 1..Len(collections)
      BY <3>1, SMT
    <3> HIDE DEF j
    <3>4. /\ collections' \in Seq(Nat) /\ Len(collections') = j
          /\ \A i \in 1..j : collections'[i] = collections[i]
      BY <3>1, <3>2, Prefix
    <3> QED
      BY <3>1, <3>3, <3>4
  <2>4. unnamed' \in BOOLEAN
    BY <2>1 DEF endCollection, ParserTyped
  <2> QED
    BY <2>2, <2>3, <2>4, MainDoneTyped DEF ParserTyped
<1>4. CASE tag \in {"Input", "Output", "Feature"} /\ ~invalid
  <2> DEFINE bits == global.size * global.count
             Room(maps) == BitsOf(maps[current], global.id) + bits <= maxBits
             Add(maps) == [maps EXCEPT ![current] = AddBits(maps[current], global.id, bits)]
  <2>0. current \in Nat /\ current <= Len(applications)
    BY SMT DEF current, ParserTyped
  <2>1. report(tag) /\ ~invalid
    BY <1>4 DEF main
  <2>2. /\ MainDone /\ UNCHANGED <<collections, applications>>
        /\ current # 0
        /\ inputs' = (IF tag = "Input" THEN Add(inputs) ELSE inputs)
        /\ outputs' = (IF tag = "Output" THEN Add(outputs) ELSE outputs)
    <3>1. ~(current = 0)
      BY <2>1 DEF report
    <3>2. MainDone /\ UNCHANGED <<collections, applications>>
      BY <2>1 DEF report
    <3>3. inputs' = (IF tag = "Input" THEN Add(inputs) ELSE inputs)
      BY <2>1 DEF report
    <3>4. outputs' = (IF tag = "Output" THEN Add(outputs) ELSE outputs)
      BY <2>1 DEF report
    <3> QED
      BY <3>1, <3>2, <3>3, <3>4
  <2>3. bits \in Nat /\ global.id \in Nat /\ maxBits \in Nat
    <3>1. global.size \in Nat /\ global.count \in Nat /\ global.id \in Nat
      BY DEF ParserTyped, Globals
    <3>2. maxBits \in Nat
      BY DescriptorAssumption, SMT DEF maxBits
    <3> QED
      BY <3>1, <3>2, SMT
  <2>4. /\ tag = "Input" => ~(BitsOf(inputs[current], global.id) + bits > maxBits)
        /\ tag = "Output" => ~(BitsOf(outputs[current], global.id) + bits > maxBits)
    BY <2>1 DEF report
  <2> HIDE DEF bits
  <2>5. ASSUME NEW maps \in Seq(ReportMaps), Len(maps) = Len(applications),
               ~(BitsOf(maps[current], global.id) + bits > maxBits)
        PROVE  Add(maps) \in Seq(ReportMaps) /\ Len(Add(maps)) = Len(applications)
    <3>1. current \in 1..Len(maps) /\ maps[current] \in ReportMaps
      BY <2>0, <2>2, <2>5, SMT
    <3>2. BitsOf(maps[current], global.id) \in Nat
      <4>1. PICK ids \in SUBSET Nat : maps[current] \in [ids -> 0..maxBits]
        BY <3>1 DEF ReportMaps
      <4> QED
        BY <4>1, <2>3, SMT DEF BitsOf
    <3>3. AddBits(maps[current], global.id, bits) \in ReportMaps
      BY <2>3, <2>5, <3>1, <3>2, BitsAdded, SMT
    <3> QED
      BY <2>5, <3>1, <3>3, SMT
  <2>6. /\ inputs' \in Seq(ReportMaps) /\ Len(inputs') = Len(applications)
        /\ outputs' \in Seq(ReportMaps) /\ Len(outputs') = Len(applications)
    <3>1. /\ inputs \in Seq(ReportMaps) /\ Len(inputs) = Len(applications)
          /\ outputs \in Seq(ReportMaps) /\ Len(outputs) = Len(applications)
      BY DEF ParserTyped
    <3> HIDE DEF Add
    <3>2. CASE tag = "Input"
      BY <2>2, <2>4, <2>5, <3>1, <3>2
    <3>3. CASE tag = "Output"
      BY <2>2, <2>4, <2>5, <3>1, <3>3
    <3>4. CASE tag = "Feature"
      BY <2>2, <3>1, <3>4
    <3> QED
      BY <1>4, <3>2, <3>3, <3>4
  <2>7. unnamed' \in BOOLEAN
    BY <2>1 DEF report, ParserTyped
  <2> QED
    BY <2>2, <2>6, <2>7, MainDoneTyped DEF ParserTyped
<1>5. CASE tag = "OtherMain" /\ ~invalid
  <2>1. MainDone /\ UNCHANGED <<collections, applications, inputs, outputs>>
    BY <1>5 DEF main
  <2>2. unnamed' \in BOOLEAN
    BY <1>5 DEF main, beginCollection, endCollection, report, ParserTyped
  <2> QED
    BY <2>1, <2>2, MainDoneTyped DEF ParserTyped
<1> QED
  BY <1>1, <1>2, <1>3, <1>4, <1>5 DEF main

\* A stack without its top.
LEMMA Popped ==
  ASSUME NEW S, NEW s \in Seq(S), s # << >>
  PROVE  /\ Len(s) \in Nat \ {0} /\ s[Len(s)] \in S
         /\ SubSeq(s, 1, Len(s) - 1) \in Seq(S)
         /\ Len(SubSeq(s, 1, Len(s) - 1)) = Len(s) - 1
         /\ \A i \in 1..(Len(s) - 1) : SubSeq(s, 1, Len(s) - 1)[i] = s[i]
<1>1. Len(s) \in Nat \ {0}
  BY EmptyIsSeq
<1>2. s[Len(s)] \in S /\ Len(s) - 1 \in 0..Len(s)
  BY <1>1, SMT
<1> QED
  BY <1>1, <1>2, Prefix

\* An item keeps the parser's values in their ranges, and an error stays.
LEMMA ParseTyped ==
  ASSUME ParserTyped, NEW x \in Items, Parse(x)
  PROVE  ParserTyped' /\ (failed = TRUE => failed' = TRUE)
<1>0. x.value \in Nat
  BY DEF Items
<1>1. CASE failed = TRUE
  BY <1>1 DEF Parse, parserVars, ParserTyped
<1>2. CASE failed = FALSE /\ main(x.tag, x.value)
  BY <1>0, <1>2, MainTyped
<1>3. CASE failed = FALSE /\ (invalid \/ UNCHANGED parserVars)
  BY <1>3 DEF invalid, parserVars, ParserTyped
<1>4. CASE failed = FALSE /\ ~invalid /\ globalItem(x.tag, x.value)
  <2>1. UNCHANGED <<unnamed, failed, hasMinimum>>
    BY <1>4 DEF globalItem, SetGlobal
  <2>a. \/ invalidLayout' = invalidLayout
        \/ invalidLayout' = (invalidLayout \/ x.value = 0)
    BY <1>4 DEF globalItem, SetGlobal
  <2>b. invalidLayout' \in BOOLEAN
    BY <2>a DEF ParserTyped
  <2>2. global' \in Globals /\ stack' \in Seq(Globals) /\ Len(stack') <= maxDepth
    <3>0. maxDepth \in Nat /\ Len(stack) <= maxDepth
      BY DescriptorAssumption DEF ParserTyped
    <3>1. CASE x.tag = "Pop"
      <4>1. stack # << >> /\ global' = stack[Len(stack)]
            /\ stack' = SubSeq(stack, 1, Len(stack) - 1)
        BY <1>4, <3>1 DEF globalItem
      <4>2. stack \in Seq(Globals)
        BY DEF ParserTyped
      <4> QED
        BY <3>0, <4>1, <4>2, Popped, SMT
    <3>2. CASE x.tag = "Push"
      <4>1. stack' = Append(stack, global) /\ global' = global /\ Len(stack) # maxDepth
        BY <1>4, <3>2 DEF globalItem
      <4>2. stack \in Seq(Globals) /\ global \in Globals
        BY DEF ParserTyped
      <4>3. stack' \in Seq(Globals) /\ Len(stack') = Len(stack) + 1
        BY <4>1, <4>2, SMT
      <4> QED
        BY <3>0, <4>1, <4>2, <4>3, SMT
    <3>3. CASE x.tag \notin {"Push", "Pop"}
      <4>1. stack' = stack
        BY <1>4, <3>3 DEF globalItem, SetGlobal
      <4>2. \/ ~(x.value >= Word) /\ global' = [global EXCEPT !.page = x.value]
            \/ global' = [global EXCEPT !.size = x.value]
            \/ global' = [global EXCEPT !.count = x.value]
            \/ global' = [global EXCEPT !.id = x.value]
        BY <1>0, <1>4, <3>3 DEF globalItem, SetGlobal
      <4>3. global' \in Globals
        <5>1. /\ [global EXCEPT !.size = x.value] \in Globals
              /\ [global EXCEPT !.count = x.value] \in Globals
              /\ [global EXCEPT !.id = x.value] \in Globals
          BY <1>0 DEF ParserTyped, Globals
        <5>2. ~(x.value >= Word) => [global EXCEPT !.page = x.value] \in Globals
          <6>1. ~(x.value >= Word) => x.value \in {p \in Nat : p < Word}
            BY <1>0, SMT DEF Word
          <6> QED
            BY <6>1 DEF ParserTyped, Globals
        <5> QED
          BY <4>2, <5>1, <5>2
      <4> QED
        BY <4>1, <4>3 DEF ParserTyped
    <3> QED
      BY <3>1, <3>2, <3>3
  <2>3. UNCHANGED <<collections, usages, minimum, applications, inputs, outputs>>
    BY <1>4 DEF globalItem, SetGlobal
  <2> QED
    BY <1>4, <2>1, <2>b, <2>2, <2>3 DEF ParserTyped
<1>5. CASE failed = FALSE /\ ~invalid /\ localItem(x.tag, x.value)
  <2>1. unnamed' \in BOOLEAN /\ invalidLayout' \in BOOLEAN
    BY <1>5 DEF localItem, ParserTyped
  <2>a. \/ failed' = failed \/ failed' = TRUE
        \/ failed' = (~hasMinimum \/ x.value < minimum)
    BY <1>5 DEF localItem, invalid
  <2>b. hasMinimum' = hasMinimum \/ hasMinimum' = TRUE
    BY <1>5 DEF localItem, invalid
  <2>2. failed' \in BOOLEAN /\ hasMinimum' \in BOOLEAN
    BY <2>a, <2>b DEF ParserTyped
  <2>3. usages' \in Seq(Nat) /\ minimum' \in Nat
    <3>0. Append(usages, x.value) \in Seq(Nat)
      BY <1>0, SMT DEF ParserTyped
    <3>1. \/ usages' = usages \/ usages' = Append(usages, x.value)
      BY <1>5 DEF localItem, invalid
    <3>2. minimum' = minimum \/ minimum' = x.value
      BY <1>5 DEF localItem, invalid
    <3> QED
      BY <1>0, <3>0, <3>1, <3>2 DEF ParserTyped
  <2>4. UNCHANGED <<global, stack, collections, applications, inputs, outputs>>
    BY <1>5 DEF localItem
  <2> QED
    BY <1>5, <2>1, <2>2, <2>3, <2>4 DEF ParserTyped
<1> QED
  BY <1>1, <1>2, <1>3, <1>4, <1>5 DEF Parse, ParserTyped

\* So does the scan; what it has found stays.
LEMMA ScanStep ==
  ASSUME ScanTyped, NEW x \in Items, scanUsages(x)
  PROVE  /\ ScanTyped'
         /\ found' = found \/ \E u \in UsageRecords : found' = Append(found, u)
<1>0. x.value \in Nat
  BY DEF Items
<1>1. CASE UNCHANGED scanVars
  BY <1>1 DEF scanVars, ScanTyped
<1>2. CASE x.tag = "Cut" /\ broken' = TRUE
           /\ UNCHANGED <<page, pages, named, first, least, hasMin, depth, found>>
  BY <1>2 DEF ScanTyped
<1>3. CASE scanMain(x.tag, x.value)
  <2>1. named' \in BOOLEAN /\ hasMin' \in BOOLEAN
    BY <1>3 DEF scanMain, resetLocals
  <2>2. UNCHANGED <<page, pages, first, least>>
    BY <1>3 DEF scanMain, resetLocals
  <2>a. broken' = broken \/ broken' = (Len(found) = maxCollections)
    BY <1>3 DEF scanMain
  <2>3. broken' \in BOOLEAN
    BY <2>a DEF ScanTyped
  <2>4. depth' \in Nat
    BY <1>3, SMT DEF scanMain, ScanTyped
  <2> DEFINE u == UsageOf(page % Word, IF named \/ ~hasMin THEN first ELSE least)
  <2>5. u \in UsageRecords
    <3>1. page % Word \in Nat /\ (IF named \/ ~hasMin THEN first ELSE least) \in Nat
      BY SMT DEF ScanTyped, Word
    <3> QED
      BY <3>1, UsageTyped
  <2>6. found' = found \/ found' = Append(found, u)
    BY <1>3 DEF scanMain
  <2> HIDE DEF u
  <2>7. found' \in Seq(UsageRecords)
    BY <2>5, <2>6, SMT DEF ScanTyped
  <2> QED
    BY <2>1, <2>2, <2>3, <2>4, <2>5, <2>6, <2>7 DEF ScanTyped
<1>4. CASE scanGlobal(x.tag, x.value)
  <2>1. UNCHANGED <<broken, named, first, least, hasMin, depth, found>>
    BY <1>4 DEF scanGlobal
  <2>2. page' \in Nat /\ pages' \in Seq(Nat)
    <3>1. CASE x.tag = "Pop" /\ pages # << >>
      <4>1. page' = pages[Len(pages)] /\ pages' = SubSeq(pages, 1, Len(pages) - 1)
        BY <1>4, <3>1 DEF scanGlobal
      <4>2. pages \in Seq(Nat)
        BY DEF ScanTyped
      <4> QED
        BY <3>1, <4>1, <4>2, Popped
    <3>2. CASE ~(x.tag = "Pop" /\ pages # << >>)
      <4>1. page' = page \/ page' = x.value
        BY <1>4, <3>2 DEF scanGlobal
      <4>2. pages' = pages \/ pages' = Append(pages, page)
        BY <1>4, <3>2 DEF scanGlobal
      <4>3. Append(pages, page) \in Seq(Nat)
        BY SMT DEF ScanTyped
      <4> QED
        BY <1>0, <4>1, <4>2, <4>3 DEF ScanTyped
    <3> QED
      BY <3>1, <3>2
  <2> QED
    BY <2>1, <2>2 DEF ScanTyped
<1>5. CASE scanLocal(x.tag, x.value)
  <2>1. UNCHANGED <<broken, page, pages, depth, found>>
    BY <1>5 DEF scanLocal
  <2>2. named' \in BOOLEAN /\ hasMin' \in BOOLEAN
    BY <1>5 DEF scanLocal, ScanTyped
  <2>3. first' \in Nat /\ least' \in Nat
    BY <1>0, <1>5 DEF scanLocal, ScanTyped
  <2> QED
    BY <2>1, <2>2, <2>3 DEF ScanTyped
<1> QED
  BY <1>1, <1>2, <1>3, <1>4, <1>5 DEF scanUsages

\* A sequence that goes on still begins with what it began with.
LEMMA BeginsLonger ==
  ASSUME NEW S, NEW s \in Seq(S), NEW t \in Seq(S), NEW u \in S, Begins(s, t)
  PROVE  Begins(s, Append(t, u)) /\ (Len(s) = Len(t) => Begins(Append(s, u), Append(t, u)))
BY SMT DEF Begins

\* What Parse accepts, the scan accepts, and the two stay in step; a collection that
\* both meet has the same usage for both if it has one.
LEMMA BeginTogether ==
  ASSUME ParserTyped, ScanTyped, InStep, failed = FALSE, NEW value \in Nat,
         beginCollection(value), failed' = FALSE, scanMain("Collection", value)
  PROVE  /\ InStep'
         /\ \/ applications' = applications /\ unnamed' = unnamed /\ found' = found
            \/ \E u \in UsageRecords, w \in UsageRecords :
                 /\ applications' = Append(applications, u) /\ found' = Append(found, w)
                 /\ unnamed' = FALSE => unnamed = FALSE /\ u = w
<1>1. ~invalid
  BY DEF invalid
<1>2. /\ MainDone /\ collections' = Append(collections, IF collections = << >> /\ value = 1
                                             THEN Len(applications) + 1 ELSE current)
      /\ Len(collections) # maxDepth
  BY <1>1 DEF beginCollection
<1>3. /\ usages' = << >> /\ hasMinimum' = FALSE /\ named' = FALSE /\ hasMin' = FALSE
      /\ UNCHANGED <<global, stack, minimum, page, pages, first, least>>
  BY <1>2 DEF MainDone, scanMain, resetLocals
<1>4. depth' = depth + 1 /\ depth = Len(collections)
  BY DEF scanMain, InStep
<1>5. Len(collections') = Len(collections) + 1
  BY <1>2, SMT DEF ParserTyped
<1>6. depth = 0 <=> collections = << >>
  BY <1>4, SMT DEF ParserTyped
<1>7. CASE collections = << >> /\ value = 1
  <2> DEFINE u == UsageOf(global.page, IF usages # << >> THEN usages[1] ELSE minimum)
             w == UsageOf(page % Word, IF named \/ ~hasMin THEN first ELSE least)
  <2>1. applications' = Append(applications, u)
        /\ unnamed' = (unnamed \/ (usages = << >> /\ ~hasMinimum))
        /\ Len(applications) # maxCollections
    BY <1>1, <1>7 DEF beginCollection
  <2>2. broken' = FALSE /\ found' = Append(found, w)
    BY <1>6, <1>7, <2>1 DEF scanMain, InStep
  <2>3. u \in UsageRecords /\ w \in UsageRecords
    <3>1. page % Word \in Nat /\ (IF named \/ ~hasMin THEN first ELSE least) \in Nat
      BY SMT DEF ScanTyped, Word
    <3>2. global.page \in Nat
      BY DEF ParserTyped, Globals
    <3>3. (IF usages # << >> THEN usages[1] ELSE minimum) \in Nat
      BY SMT DEF ParserTyped
    <3> QED
      BY <3>1, <3>2, <3>3, UsageTyped
  <2>4. unnamed' = FALSE => unnamed = FALSE /\ (usages # << >> \/ hasMinimum = TRUE)
    BY <2>1 DEF ParserTyped
  <2>5. ASSUME usages # << >> \/ hasMinimum = TRUE PROVE u = w
    <3>1. page % Word = global.page
      <4>1. page \in Nat /\ page < Word /\ page = global.page
        BY DEF ParserTyped, InStep, Globals
      <4> QED
        BY <4>1, SMT DEF Word
    <3>2. (IF usages # << >> THEN usages[1] ELSE minimum)
            = IF named \/ ~hasMin THEN first ELSE least
      BY <2>5 DEF InStep
    <3> QED
      BY <3>1, <3>2
  <2> HIDE DEF u, w
  <2>6. Len(found') = Len(applications')
    BY <2>1, <2>2, <2>3, SMT DEF ParserTyped, ScanTyped, InStep
  <2>7. InStep'
    BY <1>3, <1>4, <1>5, <2>2, <2>6 DEF InStep
  <2> QED
    BY <2>1, <2>2, <2>3, <2>4, <2>5, <2>7
<1>8. CASE ~(collections = << >> /\ value = 1)
  <2>1. UNCHANGED <<applications, unnamed>>
    BY <1>1, <1>8 DEF beginCollection
  <2>2. UNCHANGED <<broken, found>>
    BY <1>6, <1>8 DEF scanMain
  <2>3. InStep'
    BY <1>3, <1>4, <1>5, <2>1, <2>2 DEF InStep
  <2> QED
    BY <2>1, <2>2, <2>3
<1> QED
  BY <1>7, <1>8

\* An item that both passes accept: they stay in step, and each finds the same collection
\* or none.
LEMMA ReadTogether ==
  ASSUME ParserTyped, ScanTyped, InStep, failed = FALSE, NEW x \in Items,
         Parse(x), failed' = FALSE, scanUsages(x)
  PROVE  /\ InStep'
         /\ \/ applications' = applications /\ unnamed' = unnamed /\ found' = found
            \/ \E u \in UsageRecords, w \in UsageRecords :
                 /\ applications' = Append(applications, u) /\ found' = Append(found, w)
                 /\ unnamed' = FALSE => unnamed = FALSE /\ u = w
<1>0. x.value \in Nat
  BY DEF Items
<1>1. ~invalid /\ broken = FALSE
  BY DEF invalid, InStep
<1>2. CASE main(x.tag, x.value)
  <2>0. x.tag \in {"Collection", "EndCollection", "Input", "Output", "Feature", "OtherMain"}
    BY <1>2 DEF main
  <2>1. scanMain(x.tag, x.value)
    BY <1>1, <2>0 DEF scanUsages, scanGlobal, scanLocal, Ignored
  <2>2. CASE x.tag = "Collection"
    BY <1>0, <1>2, <2>1, <2>2, BeginTogether DEF main
  <2>3. CASE x.tag = "EndCollection"
    <3>1. /\ collections # << >> /\ collections' = SubSeq(collections, 1, Len(collections) - 1)
          /\ MainDone /\ UNCHANGED <<applications, unnamed>>
      BY <1>1, <1>2, <2>3 DEF main, endCollection
    <3>2. Len(collections) \in Nat \ {0} /\ Len(collections') = Len(collections) - 1
      BY <3>1, Popped DEF ParserTyped
    <3>3. depth' = depth - 1 /\ UNCHANGED <<broken, found>>
      BY <2>1, <2>3, <3>2, SMT DEF scanMain, InStep
    <3>4. InStep'
      BY <2>1, <3>1, <3>2, <3>3 DEF InStep, MainDone, scanMain, resetLocals
    <3> QED
      BY <3>1, <3>3, <3>4
  <2>4. CASE x.tag \in {"Input", "Output", "Feature", "OtherMain"}
    <3>1. MainDone /\ UNCHANGED <<collections, applications, unnamed>>
      BY <1>1, <1>2, <2>4 DEF main, report
    <3>2. UNCHANGED <<broken, found, depth>>
      BY <2>1, <2>4 DEF scanMain
    <3>3. InStep'
      BY <2>1, <3>1, <3>2 DEF InStep, MainDone, scanMain, resetLocals
    <3> QED
      BY <3>1, <3>2, <3>3
  <2> QED
    BY <2>0, <2>2, <2>3, <2>4
<1>3. CASE globalItem(x.tag, x.value)
  <2>0. x.tag \in {"UsagePage", "ReportSize", "ReportCount", "ReportID", "Push", "Pop"}
    BY <1>3 DEF globalItem
  <2>1. UNCHANGED <<collections, usages, minimum, hasMinimum, applications, unnamed>>
    BY <1>1, <1>3, <2>0 DEF globalItem, SetGlobal
  <2>2. UNCHANGED <<broken, named, first, least, hasMin, depth, found>>
    BY <1>1, <2>0 DEF scanUsages, scanMain, scanGlobal, scanLocal, scanVars
  <2>3. /\ page' = global'.page /\ Len(pages') = Len(stack')
        /\ \A i \in 1..Len(stack') : pages'[i] = stack'[i].page
    <3>1. CASE x.tag = "UsagePage"
      <4>1. global' = [global EXCEPT !.page = x.value] /\ stack' = stack
        BY <1>1, <1>3, <3>1 DEF globalItem, SetGlobal
      <4>2. page' = x.value /\ pages' = pages
        BY <1>1, <3>1 DEF scanUsages, scanMain, scanGlobal, scanLocal, Ignored
      <4> QED
        BY <4>1, <4>2 DEF InStep, ParserTyped, Globals
    <3>2. CASE x.tag \in {"ReportSize", "ReportCount", "ReportID"}
      <4>1. /\ \/ global' = [global EXCEPT !.size = x.value]
               \/ global' = [global EXCEPT !.count = x.value]
               \/ global' = [global EXCEPT !.id = x.value]
            /\ stack' = stack
        BY <1>1, <1>3, <3>2 DEF globalItem, SetGlobal
      <4>2. page' = page /\ pages' = pages
        BY <1>1, <3>2 DEF scanUsages, scanMain, scanGlobal, scanLocal, scanVars
      <4> QED
        BY <4>1, <4>2 DEF InStep, ParserTyped, Globals
    <3>3. CASE x.tag = "Push"
      <4>1. stack' = Append(stack, global) /\ global' = global /\ Len(stack) # maxDepth
        BY <1>1, <1>3, <3>3 DEF globalItem
      <4>2. scanGlobal(x.tag, x.value)
        BY <1>1, <3>3 DEF scanUsages, scanMain, scanLocal, Ignored
      <4>3. /\ stack \in Seq(Globals) /\ pages \in Seq(Nat) /\ Len(pages) = Len(stack)
            /\ global \in Globals /\ page \in Nat /\ page = global.page
            /\ \A i \in 1..Len(stack) : pages[i] = stack[i].page
        BY DEF ParserTyped, ScanTyped, InStep
      <4>4. Len(pages) < maxDepth
        BY <4>1, <4>3, DescriptorAssumption, SMT DEF ParserTyped
      <4>5. page' = page /\ pages' = Append(pages, page)
        BY <3>3, <4>2, <4>4 DEF scanGlobal
      <4> QED
        BY <4>1, <4>3, <4>5, SMT
    <3>4. CASE x.tag = "Pop"
      <4>1. /\ stack # << >> /\ global' = stack[Len(stack)]
            /\ stack' = SubSeq(stack, 1, Len(stack) - 1)
        BY <1>1, <1>3, <3>4 DEF globalItem
      <4>2. Len(stack) \in Nat \ {0} /\ pages # << >>
        BY <4>1, EmptyIsSeq DEF InStep, ParserTyped, ScanTyped
      <4>3. page' = pages[Len(pages)] /\ pages' = SubSeq(pages, 1, Len(pages) - 1)
        BY <1>1, <3>4, <4>2 DEF scanUsages, scanMain, scanGlobal, scanLocal, Ignored
      <4>4. /\ Len(stack') = Len(stack) - 1
            /\ \A i \in 1..(Len(stack) - 1) : stack'[i] = stack[i]
        BY <4>1, Popped DEF ParserTyped
      <4>5. /\ Len(pages') = Len(pages) - 1
            /\ \A i \in 1..(Len(pages) - 1) : pages'[i] = pages[i]
        BY <4>2, <4>3, Popped DEF ScanTyped
      <4> QED
        BY <4>1, <4>2, <4>3, <4>4, <4>5, SMT DEF InStep
    <3> QED
      BY <2>0, <3>1, <3>2, <3>3, <3>4
  <2>4. InStep'
    BY <2>1, <2>2, <2>3 DEF InStep
  <2> QED
    BY <2>1, <2>2, <2>4
<1>4. CASE localItem(x.tag, x.value)
  <2>0. x.tag \in {"Usage", "UsageMinimum", "UsageMaximum"}
    BY <1>4 DEF localItem
  <2>1. UNCHANGED <<global, stack, collections, applications, unnamed>>
    BY <1>4 DEF localItem
  <2>2. UNCHANGED <<broken, page, pages, depth, found>>
    BY <1>1, <2>0 DEF scanUsages, scanMain, scanGlobal, scanLocal, scanVars
  <2>3. /\ named' = TRUE <=> usages' # << >>
        /\ usages' # << >> => first' = usages'[1]
        /\ hasMin' = hasMinimum' /\ least' = minimum'
    <3>1. CASE x.tag = "Usage"
      <4>1. usages' = Append(usages, x.value) /\ UNCHANGED <<minimum, hasMinimum>>
        BY <1>1, <1>4, <3>1 DEF localItem
      <4>2. /\ first' = (IF named THEN first ELSE x.value) /\ named' = TRUE
            /\ UNCHANGED <<least, hasMin>>
        BY <1>1, <3>1 DEF scanUsages, scanMain, scanGlobal, scanLocal, Ignored
      <4>3. usages' # << >> /\ usages'[1] = IF usages = << >> THEN x.value ELSE usages[1]
        BY <1>0, <4>1, SMT DEF ParserTyped
      <4> QED
        BY <4>1, <4>2, <4>3 DEF InStep, ScanTyped
    <3>2. CASE x.tag = "UsageMinimum"
      <4>1. minimum' = x.value /\ hasMinimum' = TRUE /\ usages' = usages
        BY <1>4, <3>2 DEF localItem
      <4>2. least' = x.value /\ hasMin' = TRUE /\ named' = named /\ first' = first
        BY <1>1, <3>2 DEF scanUsages, scanMain, scanGlobal, scanLocal, Ignored
      <4> QED
        BY <4>1, <4>2 DEF InStep
    <3>3. CASE x.tag = "UsageMaximum"
      <4>1. UNCHANGED <<usages, minimum, hasMinimum>>
        BY <1>4, <3>3 DEF localItem
      <4>2. UNCHANGED <<named, first, least, hasMin>>
        BY <1>1, <3>3 DEF scanUsages, scanMain, scanGlobal, scanLocal, scanVars
      <4> QED
        BY <4>1, <4>2 DEF InStep
    <3> QED
      BY <2>0, <3>1, <3>2, <3>3
  <2>4. InStep'
    BY <2>1, <2>2, <2>3 DEF InStep
  <2> QED
    BY <2>1, <2>2, <2>4
<1>5. CASE x.tag \in {"OtherGlobal", "OtherLocal"} /\ UNCHANGED parserVars
  <2>1. UNCHANGED scanVars
    BY <1>1, <1>5 DEF scanUsages, scanMain, scanGlobal, scanLocal
  <2> QED
    BY <1>5, <2>1 DEF parserVars, scanVars, InStep
<1> QED
  BY <1>1, <1>2, <1>3, <1>4, <1>5 DEF Parse

\* What Parse had named stays when it gives up.
LEMMA Frozen ==
  ASSUME NEW x, Parse(x), failed \in BOOLEAN, failed' = TRUE
  PROVE  UNCHANGED <<applications, unnamed>>
<1>1. CASE failed = TRUE
  BY <1>1 DEF Parse, parserVars
<1>2. CASE failed = FALSE
  <2>1. CASE main(x.tag, x.value)
    BY <1>2, <2>1 DEF main, beginCollection, endCollection, report, MainDone, invalid
  <2>2. CASE globalItem(x.tag, x.value)
    BY <1>2, <2>2 DEF globalItem, SetGlobal, invalid
  <2>3. CASE localItem(x.tag, x.value)
    BY <2>3 DEF localItem
  <2>4. CASE UNCHANGED parserVars \/ invalid
    BY <2>4 DEF parserVars, invalid
  <2> QED
    BY <1>2, <2>1, <2>2, <2>3, <2>4 DEF Parse
<1> QED
  BY <1>1, <1>2

\* The invariant holds before the first item.
LEMMA DescriptorInitInv == DescriptorInit => ReadingsInv /\ Unfinished /\ FinishInv
<1> SUFFICES ASSUME DescriptorInit PROVE ReadingsInv /\ Unfinished /\ FinishInv
  OBVIOUS
<1>1. maxDepth \in Nat
  BY DescriptorAssumption
<1>2. failed \in BOOLEAN /\ unnamed \in BOOLEAN /\ hasMinimum \in BOOLEAN
      /\ invalidLayout \in BOOLEAN /\ broken \in BOOLEAN /\ named \in BOOLEAN /\ hasMin \in BOOLEAN
  BY DEF DescriptorInit
<1>3. /\ global \in Globals /\ stack \in Seq(Globals) /\ Len(stack) <= maxDepth
      /\ usages \in Seq(Nat) /\ minimum \in Nat
  BY <1>1, SMT DEF DescriptorInit, Globals, Word
<1>4. /\ applications \in Seq(UsageRecords) /\ collections \in Seq(Nat)
      /\ \A i \in 1..Len(collections) : collections[i] <= Len(applications)
      /\ inputs \in Seq(ReportMaps) /\ Len(inputs) = Len(applications)
      /\ outputs \in Seq(ReportMaps) /\ Len(outputs) = Len(applications)
  BY SMT DEF DescriptorInit
<1>5. ParserTyped
  BY <1>2, <1>3, <1>4 DEF ParserTyped
<1>6. /\ page \in Nat /\ pages \in Seq(Nat) /\ first \in Nat /\ least \in Nat
      /\ depth \in Nat /\ found \in Seq(UsageRecords)
  BY SMT DEF DescriptorInit
<1>7. ScanTyped
  BY <1>2, <1>6 DEF ScanTyped
<1>8. InStep /\ Begins(applications, found)
  <2>1. broken = FALSE /\ hasMin = hasMinimum /\ named = FALSE /\ usages = << >>
    BY DEF DescriptorInit
  <2>2. /\ depth = Len(collections) /\ page = global.page /\ least = minimum
        /\ Len(pages) = 0 /\ Len(stack) = 0 /\ Len(found) = 0 /\ Len(applications) = 0
    BY DEF DescriptorInit
  <2> QED
    BY <2>1, <2>2, SMT DEF InStep, Begins
<1>9. items \in Seq(Items) /\ phase \in {"size", "items", "finish", "done"}
  BY SMT DEF DescriptorInit
<1> QED
  BY <1>5, <1>7, <1>8, <1>9 DEF ReadingsInv, ReadersTyped, Unfinished, FinishInv, DescriptorInit

\* The two readers' part of the invariant, over a step.
LEMMA ReadingsStep == ReadingsInv /\ [DescriptorNext]_descriptorVars => ReadingsInv'
<1> SUFFICES ASSUME ReadingsInv, [DescriptorNext]_descriptorVars PROVE ReadingsInv'
  OBVIOUS
<1> USE DEF ReadingsInv, ReadersTyped
<1>1. CASE readItem
  <2> DEFINE x == Head(items)
  <2>1. x \in Items /\ items' \in Seq(Items)
    BY <1>1, HeadAndTail DEF readItem
  <2>2. Parse(x) /\ scanUsages(x) /\ phase' = phase
    BY <1>1 DEF readItem
  <2> HIDE DEF x
  <2>3. ParserTyped' /\ (failed = TRUE => failed' = TRUE)
    BY <2>1, <2>2, ParseTyped
  <2>4. ScanTyped' /\ (found' = found \/ \E u \in UsageRecords : found' = Append(found, u))
    BY <2>1, <2>2, ScanStep
  <2>5. CASE failed' = TRUE
    <3>1. applications' = applications /\ unnamed' = unnamed
      BY <2>2, <2>5, Frozen DEF ParserTyped
    <3>2. Begins(applications, found) => Begins(applications', found')
      BY <2>4, <3>1, BeginsLonger DEF ParserTyped, ScanTyped
    <3>3. phase' # "size"
      BY <1>1, <2>2 DEF readItem
    <3> QED
      BY <2>1, <2>2, <2>3, <2>4, <2>5, <3>1, <3>2, <3>3
  <2>6. CASE failed' = FALSE
    <3>1. failed = FALSE /\ InStep
      BY <2>3, <2>6 DEF ParserTyped
    <3>2. /\ InStep'
          /\ \/ applications' = applications /\ unnamed' = unnamed /\ found' = found
             \/ \E u \in UsageRecords, w \in UsageRecords :
                  /\ applications' = Append(applications, u) /\ found' = Append(found, w)
                  /\ unnamed' = FALSE => unnamed = FALSE /\ u = w
      BY <2>1, <2>2, <2>6, <3>1, ReadTogether
    <3>3. unnamed' = FALSE => Begins(applications', found')
      <4>1. CASE applications' = applications /\ unnamed' = unnamed /\ found' = found
        BY <4>1
      <4>2. ASSUME NEW u \in UsageRecords, NEW w \in UsageRecords,
                   applications' = Append(applications, u), found' = Append(found, w),
                   unnamed' = FALSE => unnamed = FALSE /\ u = w
            PROVE  unnamed' = FALSE => Begins(applications', found')
        <5>1. Len(applications) = Len(found)
          BY <3>1 DEF InStep
        <5> QED
          BY <4>2, <5>1, BeginsLonger DEF ParserTyped, ScanTyped
      <4> QED
        BY <3>2, <4>1, <4>2
    <3> QED
      BY <2>1, <2>2, <2>3, <2>4, <2>6, <3>2, <3>3
  <2> QED
    BY <2>3, <2>5, <2>6 DEF ParserTyped
<1>2. CASE checkSize
  <2>1. PICK fits \in BOOLEAN : /\ failed' = ~fits /\ broken' = ~fits
                                /\ phase' = IF fits THEN "items" ELSE "done"
    BY <1>2 DEF checkSize
  <2>2. UNCHANGED <<items, global, stack, collections, usages, minimum, hasMinimum,
                    invalidLayout, applications, inputs, outputs, unnamed, page, pages,
                    named, first, least, hasMin, depth, found>>
    BY <1>2 DEF checkSize, itemVars
  <2>3. failed' \in BOOLEAN /\ broken' \in BOOLEAN /\ (failed' = FALSE => broken' = FALSE)
    BY <2>1
  <2>4. ParserTyped'
    BY <2>2, <2>3 DEF ParserTyped
  <2>5. ScanTyped'
    BY <2>2, <2>3 DEF ScanTyped
  <2>6. phase' \in {"size", "items", "finish", "done"}
    BY <2>1
  <2>7. failed' = FALSE => InStep'
    BY <1>2, <2>2, <2>3 DEF InStep, checkSize
  <2> QED
    BY <2>1, <2>2, <2>4, <2>5, <2>6, <2>7
<1>3. CASE NextFragment
  <2>1. items' \in Seq(Items)
    BY <1>3, DescriptorAssumption DEF NextFragment, Items
  <2>2. UNCHANGED <<phase, parserVars, scanVars>>
    BY <1>3 DEF NextFragment
  <2>3. ParserTyped' /\ ScanTyped' /\ (InStep => InStep')
    BY <2>2 DEF parserVars, scanVars, ParserTyped, ScanTyped, InStep
  <2> QED
    BY <2>1, <2>2, <2>3 DEF parserVars, scanVars
<1>4. CASE endOfItems
  <2>1. /\ failed' = (failed \/ collections # << >> \/ stack # << >>)
        /\ phase' = IF failed' THEN "done" ELSE "finish"
        /\ UNCHANGED <<items, global, stack, collections, usages, minimum, hasMinimum,
                       invalidLayout, applications, inputs, outputs, unnamed, scanVars>>
    BY <1>4 DEF endOfItems, itemVars
  <2>2. failed' \in BOOLEAN /\ (failed' = FALSE => failed = FALSE)
    BY <2>1 DEF ParserTyped
  <2>3. ParserTyped'
    BY <2>1, <2>2 DEF ParserTyped
  <2>4. ScanTyped' /\ phase' \in {"size", "items", "finish", "done"}
    BY <2>1 DEF ScanTyped, scanVars
  <2>5. failed' = FALSE => InStep'
    BY <2>1, <2>2 DEF InStep, scanVars
  <2> QED
    BY <2>1, <2>3, <2>4, <2>5 DEF scanVars
<1>5. CASE finishCollection \/ finish \/ DescriptorRead \/ UNCHANGED descriptorVars
  <2>1. UNCHANGED <<itemVars, parserVars, scanVars>>
    BY <1>5 DEF finishCollection, finish, DescriptorRead, descriptorVars
  <2>2. phase' = phase \/ phase' = "done"
    BY <1>5 DEF finishCollection, finish, DescriptorRead, descriptorVars
  <2>3. ParserTyped' /\ ScanTyped' /\ (InStep => InStep')
    BY <2>1 DEF parserVars, scanVars, ParserTyped, ScanTyped, InStep
  <2> QED
    BY <2>1, <2>2, <2>3 DEF itemVars, parserVars, scanVars
<1> QED
  BY <1>1, <1>2, <1>3, <1>4, <1>5 DEF DescriptorNext

\* What the invariant says of the two readings.
LEMMA ReadingsFollow == ReadingsInv => ReadingsAgree
<1> SUFFICES ASSUME ReadingsInv PROVE ReadingsAgree
  OBVIOUS
<1>1. /\ failed \in BOOLEAN /\ broken \in BOOLEAN /\ unnamed \in BOOLEAN
      /\ applications \in Seq(UsageRecords) /\ found \in Seq(UsageRecords)
  BY DEF ReadingsInv, ReadersTyped, ParserTyped, ScanTyped
<1>2. failed = FALSE => broken = FALSE /\ Len(found) = Len(applications)
  BY DEF ReadingsInv, InStep
<1>3. unnamed = FALSE => Begins(applications, found)
  BY DEF ReadingsInv
<1>4. unnamed = FALSE /\ failed = FALSE => found = applications
  BY <1>1, <1>2, <1>3, SameSeq DEF Begins
<1>5. ASSUME unnamed = FALSE, broken = FALSE
      PROVE  /\ Len(Inventory) >= Len(applications)
             /\ \A i \in DOMAIN applications : Inventory[i] = applications[i]
  <2>1. Inventory = applications \/ Inventory = found
    BY <1>1, <1>5 DEF Inventory
  <2> QED
    BY <1>1, <1>3, <1>5, <2>1, SMT DEF Begins
<1> QED
  BY <1>1, <1>2, <1>4, <1>5 DEF ReadingsAgree

-----------------------------------------------------------------------------
(* finish. *)

\* The owners are the collections that have the report.
LEMMA OwnersStep ==
  ASSUME NEW owners, NEW maps, NEW n \in Nat \ {0}, OwnersAre(owners, maps, n)
  PROVE  OwnersAre(AddOwner(owners, maps, n), maps, n + 1)
<1> DEFINE next == AddOwner(owners, maps, n)
<1>1. DOMAIN next = DOMAIN owners \cup DOMAIN maps[n]
  BY DEF AddOwner
<1>2. Owned(maps, n + 1) = Owned(maps, n) \cup DOMAIN maps[n]
  <2>1. 1..((n + 1) - 1) = (1..(n - 1)) \cup {n}
    BY SMT
  <2> QED
    BY <2>1 DEF Owned
<1>3. ASSUME NEW id \in DOMAIN next
      PROVE  next[id] \in 1..((n + 1) - 1) /\ id \in DOMAIN maps[next[id]]
  <2>1. next[id] = IF id \in DOMAIN owners THEN owners[id] ELSE n
    BY <1>1, <1>3 DEF AddOwner
  <2>2. CASE id \in DOMAIN owners
    BY <2>1, <2>2, SMT DEF OwnersAre
  <2>3. CASE id \notin DOMAIN owners
    BY <1>1, <1>3, <2>1, <2>3, SMT
  <2> QED
    BY <2>2, <2>3
<1> QED
  BY <1>1, <1>2, <1>3 DEF OwnersAre

\* Marking the later collection and the first owner marks all that clash, although
\* a third collection that has the report is not looked at: it was marked when it
\* met the first owner.
LEMMA ClashStep ==
  ASSUME NEW owners, NEW maps, NEW n \in Nat \ {0}, OwnersAre(owners, maps, n)
  PROVE  Clashes(maps, n + 1) = Clashes(maps, n) \cup Marked(owners, maps, n)
<1>0. 1..((n + 1) - 1) = (1..(n - 1)) \cup {n} /\ n \notin 1..(n - 1)
  BY SMT
<1>1. ASSUME NEW i \in Clashes(maps, n + 1)
      PROVE  i \in Clashes(maps, n) \cup Marked(owners, maps, n)
  <2>1. PICK j \in (1..(n - 1)) \cup {n} : j # i /\ DOMAIN maps[i] \cap DOMAIN maps[j] # {}
    BY <1>0, <1>1 DEF Clashes
  <2>2. PICK id : id \in DOMAIN maps[i] /\ id \in DOMAIN maps[j]
    BY <2>1
  <2>3. i \in (1..(n - 1)) \cup {n}
    BY <1>0, <1>1 DEF Clashes
  <2>4. CASE i = n
    <3>1. id \in DOMAIN owners
      BY <2>1, <2>2, <2>4 DEF OwnersAre, Owned
    <3> QED
      BY <2>2, <2>4, <3>1 DEF Marked, Shared
  <2>5. CASE i # n /\ j = n
    <3>1. i \in 1..(n - 1) /\ id \in DOMAIN owners /\ id \in Shared(owners, maps, n)
      BY <2>2, <2>3, <2>5 DEF OwnersAre, Owned, Shared
    <3>2. owners[id] \in 1..(n - 1) /\ id \in DOMAIN maps[owners[id]]
      BY <3>1 DEF OwnersAre
    <3>3. CASE owners[id] = i
      BY <3>1, <3>3 DEF Marked
    <3>4. CASE owners[id] # i
      BY <2>2, <3>1, <3>2, <3>4 DEF Clashes
    <3> QED
      BY <3>3, <3>4
  <2>6. CASE i # n /\ j # n
    BY <2>1, <2>3, <2>6 DEF Clashes
  <2> QED
    BY <2>4, <2>5, <2>6
<1>2. ASSUME NEW i \in Clashes(maps, n) PROVE i \in Clashes(maps, n + 1)
  BY <1>0, <1>2 DEF Clashes
<1>3. ASSUME NEW i \in Marked(owners, maps, n) PROVE i \in Clashes(maps, n + 1)
  <2>1. PICK id \in Shared(owners, maps, n) : i = owners[id] \/ i = n
    BY <1>3 DEF Marked
  <2>2. owners[id] \in 1..(n - 1) /\ id \in DOMAIN maps[owners[id]] /\ id \in DOMAIN maps[n]
    BY <2>1 DEF OwnersAre, Shared
  <2>3. owners[id] # n /\ DOMAIN maps[n] \cap DOMAIN maps[owners[id]] # {}
        /\ DOMAIN maps[owners[id]] \cap DOMAIN maps[n] # {}
    BY <1>0, <2>2
  <2> QED
    BY <1>0, <2>1, <2>2, <2>3 DEF Clashes
<1> QED
  BY <1>1, <1>2, <1>3

\* The bytes that the bits of a report take.
LEMMA SizeUsable ==
  ASSUME NEW bits \in 0..maxBits
  PROVE  bits > 0 <=> (bits + 7) \div 8 \in 1..MaxReportSize
<1>1. MaxReportSize \in Nat /\ maxBits = MaxReportSize * 8
  BY DescriptorAssumption DEF maxBits
<1> QED
  BY <1>1, SMT

\* After the last collection, the marks say who is alone.
LEMMA AloneUnlessMarked ==
  ASSUME NEW maps \in Seq(ReportMaps), NEW owners, OwnersAre(owners, maps, Len(maps) + 1),
         NEW i \in 1..Len(maps)
  PROVE  Alone(maps, i) <=> /\ OneReport(maps, i)
                            /\ i \notin Clashes(maps, Len(maps) + 1)
                            /\ i \notin Mixed(owners, maps)
<1>0. (Len(maps) + 1) - 1 = Len(maps) /\ DOMAIN maps = 1..Len(maps)
  BY SMT
<1>1. DOMAIN owners = UNION {DOMAIN maps[j] : j \in 1..Len(maps)}
  BY <1>0 DEF OwnersAre, Owned
<1>2. \A id \in DOMAIN maps[i] : maps[i][id] \in 0..maxBits
  <2>1. maps[i] \in ReportMaps
    BY SMT
  <2>2. PICK ids \in SUBSET Nat : maps[i] \in [ids -> 0..maxBits]
    BY <2>1 DEF ReportMaps
  <2> QED
    BY <2>2
<1>3. ASSUME Alone(maps, i)
      PROVE  /\ OneReport(maps, i)
             /\ i \notin Clashes(maps, Len(maps) + 1)
             /\ i \notin Mixed(owners, maps)
  <2>1. PICK id \in DOMAIN maps[i] :
          /\ DOMAIN maps[i] = {id}
          /\ (maps[i][id] + 7) \div 8 \in 1..MaxReportSize
          /\ \A j \in DOMAIN maps \ {i} : \A other \in DOMAIN maps[j] :
               other # id /\ 0 \notin {id, other}
    BY <1>3 DEF Alone
  <2>2. OneReport(maps, i)
    BY <1>2, <2>1, SizeUsable DEF OneReport
  <2>3. i \notin Clashes(maps, Len(maps) + 1)
    BY <1>0, <2>1 DEF Clashes
  <2>4. ASSUME 0 \in DOMAIN owners, NEW k \in DOMAIN owners, k # 0 PROVE FALSE
    <3>1. PICK j \in 1..Len(maps) : 0 \in DOMAIN maps[j]
      BY <1>1, <2>4
    <3>2. PICK l \in 1..Len(maps) : k \in DOMAIN maps[l]
      BY <1>1, <2>4
    <3>3. CASE j = i
      BY <1>0, <2>1, <2>4, <3>1, <3>2, <3>3
    <3>4. CASE j # i
      BY <1>0, <2>1, <3>1, <3>4
    <3> QED
      BY <3>3, <3>4
  <2>5. i \notin Mixed(owners, maps)
    BY <2>4 DEF Mixed
  <2> QED
    BY <2>2, <2>3, <2>5
<1>4. ASSUME OneReport(maps, i), i \notin Clashes(maps, Len(maps) + 1),
             i \notin Mixed(owners, maps)
      PROVE  Alone(maps, i)
  <2>1. PICK id \in DOMAIN maps[i] : DOMAIN maps[i] = {id} /\ maps[i][id] > 0
    BY <1>4 DEF OneReport
  <2>2. (maps[i][id] + 7) \div 8 \in 1..MaxReportSize
    BY <1>2, <2>1, SizeUsable
  <2>3. ASSUME NEW j \in DOMAIN maps \ {i}, NEW other \in DOMAIN maps[j]
        PROVE  other # id /\ 0 \notin {id, other}
    <3>1. other # id
      BY <1>0, <1>4, <2>1, <2>3 DEF Clashes
    <3>2. id \in DOMAIN owners /\ other \in DOMAIN owners
      BY <1>0, <1>1, <2>3
    <3>3. 0 \in DOMAIN owners => DOMAIN owners = {0}
      BY <1>0, <1>4, <2>1 DEF Mixed
    <3> QED
      BY <3>1, <3>2, <3>3
  <2> QED
    BY <2>1, <2>2, <2>3 DEF Alone
<1> QED
  BY <1>3, <1>4

\* The second part of the invariant, over a step.
LEMMA FinishStep ==
  ASSUME ReadingsInv, Unfinished, FinishInv, SupportedAreUnambiguous,
         [DescriptorNext]_descriptorVars
  PROVE  Unfinished' /\ FinishInv' /\ SupportedAreUnambiguous'
<1>0. /\ failed \in BOOLEAN /\ Len(applications) \in Nat
      /\ DOMAIN applications = 1..Len(applications)
      /\ inputs \in Seq(ReportMaps) /\ Len(inputs) = Len(applications)
      /\ outputs \in Seq(ReportMaps) /\ Len(outputs) = Len(applications)
  BY SMT DEF ReadingsInv, ReadersTyped, ParserTyped
<1>1. CASE checkSize
  <2>1. PICK fits \in BOOLEAN : failed' = ~fits /\ phase' = IF fits THEN "items" ELSE "done"
    BY <1>1 DEF checkSize
  <2>2. phase = "size" /\ UNCHANGED finishVars
    BY <1>1 DEF checkSize
  <2>3. phase' = "items" \/ (phase' = "done" /\ failed' = TRUE)
    BY <2>1
  <2> QED
    BY <2>2, <2>3 DEF finishVars, Unfinished, FinishInv, SupportedAreUnambiguous
<1>2. CASE NextFragment \/ readItem
  <2>1. phase = "items" /\ phase' = "items" /\ UNCHANGED finishVars
    BY <1>2 DEF NextFragment, readItem
  <2> QED
    BY <2>1 DEF finishVars, Unfinished, FinishInv, SupportedAreUnambiguous
<1>3. CASE endOfItems
  <2>1. /\ phase = "items" /\ UNCHANGED <<finishVars, applications, inputs, outputs>>
        /\ phase' = IF failed' THEN "done" ELSE "finish"
        /\ failed' = (failed \/ collections # << >> \/ stack # << >>)
    BY <1>3 DEF endOfItems
  <2>2. (phase' = "done" /\ failed' = TRUE) \/ (phase' = "finish" /\ failed' = FALSE)
    <3>1. failed' \in BOOLEAN
      BY <2>1
    <3>2. phase' = IF failed' THEN "done" ELSE "finish"
      BY <2>1
    <3> QED
      BY <3>1, <3>2
  <2>3. /\ index' = 1 /\ inOwners' = NoReports /\ outOwners' = NoReports
        /\ unsupported' = {} /\ supported' = {}
    BY <2>1 DEF finishVars, Unfinished
  <2>4. /\ OwnersAre(NoReports, inputs', 1) /\ OwnersAre(NoReports, outputs', 1)
        /\ Clashes(inputs', 1) = {} /\ Clashes(outputs', 1) = {}
    <3>1. 1..(1 - 1) = {}
      BY SMT
    <3> QED
      BY <3>1, EmptyReports DEF OwnersAre, Owned, Clashes
  <2>5. index' \in 1..(Len(applications') + 1)
    BY <1>0, <2>1, <2>3, SMT
  <2>6. 1..(index' - 1) = {}
    BY <2>3, SMT
  <2> QED
    BY <2>2, <2>3, <2>4, <2>5, <2>6 DEF Unfinished, FinishInv, SupportedAreUnambiguous
<1>4. CASE finishCollection
  <2>0. UNCHANGED <<phase, parserVars>> /\ phase = "finish" /\ index <= Len(applications)
    BY <1>4 DEF finishCollection
  <2>1. /\ failed = FALSE /\ index \in Nat \ {0}
        /\ OwnersAre(inOwners, inputs, index) /\ OwnersAre(outOwners, outputs, index)
        /\ unsupported = Clashes(inputs, index) \cup Clashes(outputs, index)
        /\ supported = {i \in 1..(index - 1) :
                          ~invalidLayout /\ OneReport(inputs, i) /\ OneReport(outputs, i)}
    BY <1>0, <2>0, SMT DEF FinishInv
  <2>2. /\ inOwners' = AddOwner(inOwners, inputs, index)
        /\ outOwners' = AddOwner(outOwners, outputs, index)
        /\ index' = index + 1
        /\ unsupported' = unsupported \cup Marked(inOwners, inputs, index)
                                      \cup Marked(outOwners, outputs, index)
        /\ supported' = supported \cup
             {i \in {index} : ~invalidLayout /\ OneReport(inputs, i) /\ OneReport(outputs, i)}
    BY <1>4 DEF finishCollection
  <2>3. UNCHANGED <<failed, applications, inputs, outputs, invalidLayout>>
    BY <2>0 DEF parserVars
  <2>4. OwnersAre(inOwners', inputs, index') /\ OwnersAre(outOwners', outputs, index')
    BY <2>1, <2>2, OwnersStep
  <2>5. unsupported' = Clashes(inputs, index') \cup Clashes(outputs, index')
    <3>1. Clashes(inputs, index') = Clashes(inputs, index) \cup Marked(inOwners, inputs, index)
      BY <2>1, <2>2, ClashStep
    <3>2. Clashes(outputs, index') = Clashes(outputs, index) \cup Marked(outOwners, outputs, index)
      BY <2>1, <2>2, ClashStep
    <3> QED
      BY <2>1, <2>2, <3>1, <3>2
  <2>6. supported' = {i \in 1..(index' - 1) :
                        ~invalidLayout /\ OneReport(inputs, i) /\ OneReport(outputs, i)}
    <3>1. 1..(index' - 1) = (1..(index - 1)) \cup {index}
      BY <2>1, <2>2, SMT
    <3> QED
      BY <2>1, <2>2, <3>1
  <2>7. index' \in 1..(Len(applications) + 1)
    BY <1>0, <2>0, <2>1, <2>2, SMT
  <2>8. OwnersAre(inOwners', inputs', index') /\ OwnersAre(outOwners', outputs', index')
        /\ unsupported' = Clashes(inputs', index') \cup Clashes(outputs', index')
    BY <2>3, <2>4, <2>5
  <2>9. supported' = {i \in 1..(index' - 1) :
                        ~invalidLayout' /\ OneReport(inputs', i) /\ OneReport(outputs', i)}
    BY <2>3, <2>6
  <2>10. FinishInv'
    BY <2>0, <2>1, <2>3, <2>7, <2>8, <2>9 DEF FinishInv, OneReport
  <2> QED
    BY <2>0, <2>10 DEF Unfinished, SupportedAreUnambiguous
<1>5. CASE finish
  <2>0. /\ phase = "finish" /\ phase' = "done" /\ index > Len(applications)
        /\ UNCHANGED <<parserVars, index, inOwners, outOwners>>
        /\ unsupported' = unsupported \cup Mixed(inOwners, inputs) \cup Mixed(outOwners, outputs)
        /\ supported' = supported \ unsupported'
    BY <1>5 DEF finish
  <2>1. /\ index = Len(applications) + 1
        /\ OwnersAre(inOwners, inputs, index) /\ OwnersAre(outOwners, outputs, index)
        /\ unsupported = Clashes(inputs, index) \cup Clashes(outputs, index)
        /\ supported = {i \in 1..(index - 1) :
                          ~invalidLayout /\ OneReport(inputs, i) /\ OneReport(outputs, i)}
    BY <1>0, <2>0, SMT DEF FinishInv
  <2>2. UNCHANGED <<applications, inputs, outputs, invalidLayout>>
    BY <2>0 DEF parserVars
  <2>3. 1..(index - 1) = 1..Len(applications)
    BY <1>0, <2>1, SMT
  <2>4. ASSUME NEW i \in 1..Len(applications)
        PROVE  i \in supported' <=> ~invalidLayout /\ Alone(inputs, i) /\ Alone(outputs, i)
    <3>1. Alone(inputs, i) <=> /\ OneReport(inputs, i) /\ i \notin Clashes(inputs, index)
                               /\ i \notin Mixed(inOwners, inputs)
      BY <1>0, <2>1, AloneUnlessMarked
    <3>2. Alone(outputs, i) <=> /\ OneReport(outputs, i) /\ i \notin Clashes(outputs, index)
                                /\ i \notin Mixed(outOwners, outputs)
      BY <1>0, <2>1, AloneUnlessMarked
    <3> QED
      BY <2>0, <2>1, <2>3, <3>1, <3>2
  <2>5. supported' \subseteq 1..Len(applications)
    BY <2>0, <2>1, <2>3
  <2>6. supported' = {i \in DOMAIN applications :
                        ~invalidLayout /\ Alone(inputs, i) /\ Alone(outputs, i)}
    BY <1>0, <2>4, <2>5
  <2>7. SupportedAreUnambiguous'
    BY <2>2, <2>6, SMT DEF SupportedAreUnambiguous, Alone
  <2> QED
    BY <2>0, <2>7 DEF Unfinished, FinishInv
<1>6. CASE DescriptorRead \/ UNCHANGED descriptorVars
  <2>1. UNCHANGED <<phase, failed, applications, inputs, outputs, invalidLayout, index,
                    inOwners, outOwners, unsupported, supported>>
    BY <1>6 DEF DescriptorRead, descriptorVars, parserVars, finishVars
  <2>2. Unfinished'
    BY <1>0, <2>1 DEF Unfinished
  <2>3. FinishInv'
    BY <1>0, <2>1 DEF FinishInv, OneReport
  <2>4. SupportedAreUnambiguous'
    <3>1. Len(applications)' = Len(applications) /\ (DOMAIN applications)' = DOMAIN applications
      BY <2>1
    <3>2. \A i : Alone(inputs, i)' <=> Alone(inputs, i)
      BY <2>1 DEF Alone
    <3>3. \A i : Alone(outputs, i)' <=> Alone(outputs, i)
      BY <2>1 DEF Alone
    <3> QED
      BY <2>1, <3>1, <3>2, <3>3 DEF SupportedAreUnambiguous
  <2> QED
    BY <2>2, <2>3, <2>4
<1> QED
  BY <1>1, <1>2, <1>3, <1>4, <1>5, <1>6 DEF DescriptorNext

\* The invariant of the two passes over a descriptor.
LEMMA DescriptorIsInv == DescriptorSpec => []DescriptorInv
<1>1. DescriptorInit => DescriptorInv
  BY DescriptorInitInv DEF DescriptorInit, DescriptorInv, SupportedAreUnambiguous
<1>2. DescriptorInv /\ [DescriptorNext]_descriptorVars => DescriptorInv'
  BY ReadingsStep, FinishStep DEF DescriptorInv
<1> QED
  BY <1>1, <1>2, PTL DEF DescriptorSpec

\* Whatever a descriptor is put together from and whatever the parser's limits: what parse
\* can read, scanUsages can; where every Application collection has a usage of its own the
\* two find the same collections; and where parse gives up, the fallback inventory begins
\* with what it had found.
THEOREM ReadingsAgreeAlways == DescriptorSpec => []ReadingsAgree
<1>1. DescriptorInv => ReadingsAgree
  BY ReadingsFollow DEF DescriptorInv
<1> QED
  BY <1>1, DescriptorIsInv, PTL

\* Whatever the descriptor and the limits: finish supports a collection exactly when its
\* reports can be told from those of all others, although its maps keep only the first
\* owner of a report ID.
THEOREM SupportedAlone == DescriptorSpec => []SupportedAreUnambiguous
<1>1. DescriptorInv => SupportedAreUnambiguous
  BY DEF DescriptorInv
<1> QED
  BY <1>1, DescriptorIsInv, PTL
=============================================================================
