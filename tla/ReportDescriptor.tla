-------------------------- MODULE ReportDescriptor --------------------------
(***************************************************************************)
(* The reading of HID report descriptors (pkg/hid/internal/reportdesc).    *)
(* Inventory applies the strict Parse and, when that refuses a descriptor, *)
(* falls back to scanUsages.  Both read the same items; here they read     *)
(* them side by side, one item a step, and finish is a step per            *)
(* collection.                                                             *)
(*                                                                         *)
(* An item has a tag and an unsigned value.  "Long" is a long item, "Cut"  *)
(* an item that does not end inside the descriptor, and the Other tags are *)
(* those that neither reader looks at.                                     *)
(***************************************************************************)
EXTENDS Naturals, Sequences

CONSTANTS
  Fragments,        \* sequences of items that descriptors are put together from
  maxFragments,     \* bound on their number in a descriptor
  MaxReportSize,    \* in bytes
  maxUsages,        \* of one main item
  maxDepth,         \* of the stack of globals and of nested collections
  maxCollections

ASSUME DescriptorAssumption ==
  /\ {MaxReportSize, maxUsages, maxDepth, maxCollections, maxFragments} \subseteq Nat
  /\ \A f \in Fragments : f \in Seq([tag : STRING, value : Nat])

VARIABLES
  phase,            \* "size", "items", "finish" or "done"
  items, fragments, \* the rest of the fragment being read, and how many were begun
  failed,           \* Parse has returned an error
  global, stack,    \* the parser, collections as indices into applications
  collections, usages, minimum, hasMinimum, invalidLayout,
  applications,     \* the usages of the Application collections
  inputs, outputs,  \* per Application collection: the bits of each report ID
  index,            \* of the collection that finish is at
  inOwners, outOwners, unsupported, supported,
  broken,           \* scanUsages has returned an error
  page, pages, named, first, least, hasMin, depth, found,
  unnamed           \* Parse has met an Application collection without a usage

itemVars == <<items, fragments>>
parserVars == <<failed, global, stack, collections, usages, minimum, hasMinimum,
                invalidLayout, applications, inputs, outputs, unnamed>>
finishVars == <<index, inOwners, outOwners, unsupported, supported>>
scanVars == <<broken, page, pages, named, first, least, hasMin, depth, found>>
descriptorVars == <<phase, itemVars, parserVars, finishVars, scanVars>>

Word == 65536

NoReports == [id \in {} |-> 0]

DescriptorInit ==
  /\ phase = "size" /\ items = << >> /\ fragments = 0
  /\ failed = FALSE /\ unnamed = FALSE
  /\ global = [page |-> 0, size |-> 0, count |-> 0, id |-> 0] /\ stack = << >>
  /\ collections = << >> /\ usages = << >> /\ minimum = 0 /\ hasMinimum = FALSE
  /\ invalidLayout = FALSE /\ applications = << >> /\ inputs = << >> /\ outputs = << >>
  /\ index = 1 /\ inOwners = NoReports /\ outOwners = NoReports
  /\ unsupported = {} /\ supported = {}
  /\ broken = FALSE /\ page = 0 /\ pages = << >> /\ named = FALSE /\ first = 0
  /\ least = 0 /\ hasMin = FALSE /\ depth = 0 /\ found = << >>

\* An extended usage has its page in the upper half.
UsageOf(p, usage) ==
  [page |-> IF usage >= Word THEN usage \div Word ELSE p, id |-> usage % Word]

-----------------------------------------------------------------------------
(* Parse. *)

\* What was read is dropped.
invalid ==
  /\ failed' = TRUE
  /\ UNCHANGED <<global, stack, collections, usages, minimum, hasMinimum, invalidLayout,
                 applications, inputs, outputs, unnamed>>

SetGlobal(g) ==
  /\ global' = g
  /\ UNCHANGED <<failed, stack, collections, usages, minimum, hasMinimum, applications,
                 inputs, outputs, unnamed>>

globalItem(tag, value) ==
  \/ /\ tag = "UsagePage"
     /\ IF value >= Word THEN invalid
        ELSE SetGlobal([global EXCEPT !.page = value]) /\ UNCHANGED invalidLayout
  \/ /\ tag = "ReportSize"
     /\ SetGlobal([global EXCEPT !.size = value]) /\ UNCHANGED invalidLayout
  \/ /\ tag = "ReportCount"
     /\ SetGlobal([global EXCEPT !.count = value]) /\ UNCHANGED invalidLayout
  \/ /\ tag = "ReportID"
     /\ IF value > 255 THEN invalid
        ELSE /\ SetGlobal([global EXCEPT !.id = value])
             /\ invalidLayout' = (invalidLayout \/ value = 0)
  \/ /\ tag = "Push"
     /\ IF Len(stack) = maxDepth THEN invalid
        ELSE /\ stack' = Append(stack, global)
             /\ UNCHANGED <<failed, global, collections, usages, minimum, hasMinimum,
                            invalidLayout, applications, inputs, outputs, unnamed>>
  \/ /\ tag = "Pop"
     /\ IF stack = << >> THEN invalid
        ELSE /\ global' = stack[Len(stack)]
             /\ stack' = SubSeq(stack, 1, Len(stack) - 1)
             /\ UNCHANGED <<failed, collections, usages, minimum, hasMinimum, invalidLayout,
                            applications, inputs, outputs, unnamed>>

localItem(tag, value) ==
  /\ \/ /\ tag = "Usage"
        /\ IF Len(usages) >= maxUsages THEN invalid
           ELSE usages' = Append(usages, value) /\ UNCHANGED <<failed, minimum, hasMinimum>>
     \/ /\ tag = "UsageMinimum"
        /\ minimum' = value /\ hasMinimum' = TRUE
        /\ UNCHANGED <<failed, usages>>
     \/ /\ tag = "UsageMaximum"
        /\ failed' = (~hasMinimum \/ value < minimum)
        /\ UNCHANGED <<usages, minimum, hasMinimum>>
  /\ UNCHANGED <<global, stack, collections, invalidLayout, applications, inputs, outputs,
                 unnamed>>

\* The Application collection that encloses the item; 0 if there is none.
current == IF collections = << >> THEN 0 ELSE collections[Len(collections)]

MainDone ==
  /\ usages' = << >> /\ hasMinimum' = FALSE
  /\ UNCHANGED <<failed, global, stack, minimum, invalidLayout>>

beginCollection(value) ==
  IF \/ Len(collections) = maxDepth
     \/ collections = << >> /\ value = 1 /\ Len(applications) = maxCollections
  THEN invalid
  ELSE /\ \/ /\ collections = << >> /\ value = 1
             /\ applications' = Append(applications,
                  UsageOf(global.page, IF usages # << >> THEN usages[1] ELSE minimum))
             /\ inputs' = Append(inputs, NoReports)
             /\ outputs' = Append(outputs, NoReports)
             /\ collections' = Append(collections, Len(applications) + 1)
             /\ unnamed' = (unnamed \/ (usages = << >> /\ ~hasMinimum))
          \/ /\ collections # << >> \/ value # 1
             /\ collections' = Append(collections, current)
             /\ UNCHANGED <<applications, inputs, outputs, unnamed>>
       /\ MainDone

endCollection ==
  IF collections = << >> THEN invalid
  ELSE /\ collections' = SubSeq(collections, 1, Len(collections) - 1)
       /\ UNCHANGED <<applications, inputs, outputs, unnamed>>
       /\ MainDone

maxBits == MaxReportSize * 8

BitsOf(target, id) == IF id \in DOMAIN target THEN target[id] ELSE 0

AddBits(target, id, bits) ==
  [i \in DOMAIN target \cup {id} |-> IF i = id THEN BitsOf(target, id) + bits ELSE target[i]]

\* Input, Output and Feature.
report(tag) ==
  LET bits == global.size * global.count
      full(maps) == BitsOf(maps[current], global.id) + bits > maxBits
      add(maps) == [maps EXCEPT ![current] = AddBits(@, global.id, bits)]
  IN  IF \/ bits > maxBits \/ current = 0
         \/ tag = "Input" /\ full(inputs)
         \/ tag = "Output" /\ full(outputs)
      THEN invalid
      ELSE /\ inputs' = IF tag = "Input" THEN add(inputs) ELSE inputs
           /\ outputs' = IF tag = "Output" THEN add(outputs) ELSE outputs
           /\ UNCHANGED <<collections, applications, unnamed>>
           /\ MainDone

main(tag, value) ==
  \/ tag = "Collection" /\ beginCollection(value)
  \/ tag = "EndCollection" /\ endCollection
  \/ tag \in {"Input", "Output", "Feature"} /\ report(tag)
  \/ /\ tag = "OtherMain"
     /\ UNCHANGED <<collections, applications, inputs, outputs, unnamed>>
     /\ MainDone

\* Long items, items cut short, usage delimiters and reserved types are refused.
Parse(x) ==
  \/ failed /\ UNCHANGED parserVars
  \/ /\ ~failed
     /\ \/ main(x.tag, x.value)
        \/ globalItem(x.tag, x.value)
        \/ localItem(x.tag, x.value)
        \/ x.tag \in {"OtherGlobal", "OtherLocal"} /\ UNCHANGED parserVars
        \/ x.tag \in {"Long", "Cut", "Delimiter", "Reserved"} /\ invalid

-----------------------------------------------------------------------------
(* finish, once all items have been read. *)

\* The reports of collection i that an earlier collection has as well.
Shared(owners, maps, i) == DOMAIN maps[i] \cap DOMAIN owners

AddOwner(owners, maps, i) ==
  [id \in DOMAIN owners \cup DOMAIN maps[i] |-> IF id \in DOMAIN owners THEN owners[id] ELSE i]

OneReport(maps, i) == \E id \in DOMAIN maps[i] : DOMAIN maps[i] = {id} /\ maps[i][id] > 0

\* Only the later of two collections that share a report is marked.
MarkedLateBroken(owners, maps, i) == {j \in {i} : Shared(owners, maps, i) # {}}

Marked(owners, maps, i) ==
  {owners[id] : id \in Shared(owners, maps, i)} \cup {j \in {i} : Shared(owners, maps, i) # {}}

finishCollection ==
  /\ phase = "finish" /\ index <= Len(applications)
  /\ supported' = supported \cup
       {i \in {index} : ~invalidLayout /\ OneReport(inputs, i) /\ OneReport(outputs, i)}
  /\ unsupported' = unsupported \cup Marked(inOwners, inputs, index)
                                \cup Marked(outOwners, outputs, index)
  /\ inOwners' = AddOwner(inOwners, inputs, index)
  /\ outOwners' = AddOwner(outOwners, outputs, index)
  /\ index' = index + 1
  /\ UNCHANGED <<phase, itemVars, parserVars, scanVars>>

\* Numbered and unnumbered reports in one direction.
Mixed(owners, maps) ==
  {i \in DOMAIN maps : 0 \in DOMAIN owners /\ DOMAIN owners # {0} /\ DOMAIN maps[i] # {}}

finish ==
  /\ phase = "finish" /\ index > Len(applications)
  /\ unsupported' = unsupported \cup Mixed(inOwners, inputs) \cup Mixed(outOwners, outputs)
  /\ supported' = supported \ unsupported'
  /\ phase' = "done"
  /\ UNCHANGED <<itemVars, parserVars, index, inOwners, outOwners, scanVars>>

-----------------------------------------------------------------------------
(* scanUsages. *)

\* The usages are not forgotten.
resetLocalsBroken == hasMin' = FALSE /\ UNCHANGED <<named, first, least>>

resetLocals == named' = FALSE /\ hasMin' = FALSE /\ UNCHANGED <<first, least>>

scanMain(tag, value) ==
  /\ \/ /\ tag = "Collection" /\ depth = 0 /\ value = 1
        /\ broken' = (Len(found) = maxCollections)
        /\ found' = IF broken' THEN found
                    ELSE Append(found, UsageOf(page % Word,
                                               IF named \/ ~hasMin THEN first ELSE least))
        /\ depth' = depth + 1
     \/ /\ tag = "Collection" /\ (depth # 0 \/ value # 1)
        /\ depth' = depth + 1
        /\ UNCHANGED <<broken, found>>
     \/ /\ tag = "EndCollection"
        /\ depth' = IF depth > 0 THEN depth - 1 ELSE depth
        /\ UNCHANGED <<broken, found>>
     \/ /\ tag \in {"Input", "Output", "Feature", "OtherMain"}
        /\ UNCHANGED <<broken, found, depth>>
  /\ resetLocals
  /\ UNCHANGED <<page, pages>>

scanGlobal(tag, value) ==
  /\ \/ tag = "UsagePage" /\ page' = value /\ UNCHANGED pages
     \/ /\ tag = "Push"
        /\ pages' = IF Len(pages) < maxDepth THEN Append(pages, page) ELSE pages
        /\ UNCHANGED page
     \/ /\ tag = "Pop"
        /\ page' = IF pages = << >> THEN page ELSE pages[Len(pages)]
        /\ pages' = IF pages = << >> THEN pages ELSE SubSeq(pages, 1, Len(pages) - 1)
  /\ UNCHANGED <<broken, named, first, least, hasMin, depth, found>>

scanLocal(tag, value) ==
  /\ \/ /\ tag = "Usage"
        /\ first' = IF named THEN first ELSE value
        /\ named' = TRUE
        /\ UNCHANGED <<least, hasMin>>
     \/ /\ tag = "UsageMinimum"
        /\ least' = value /\ hasMin' = TRUE
        /\ UNCHANGED <<named, first>>
  /\ UNCHANGED <<broken, page, pages, depth, found>>

Ignored == {"ReportSize", "ReportCount", "ReportID", "OtherGlobal", "UsageMaximum",
            "Delimiter", "OtherLocal", "Reserved", "Long"}

scanUsages(x) ==
  \/ broken /\ UNCHANGED scanVars
  \/ /\ ~broken
     /\ \/ scanMain(x.tag, x.value)
        \/ scanGlobal(x.tag, x.value)
        \/ scanLocal(x.tag, x.value)
        \/ x.tag \in Ignored /\ UNCHANGED scanVars
        \/ /\ x.tag = "Cut" /\ broken' = TRUE
           /\ UNCHANGED <<page, pages, named, first, least, hasMin, depth, found>>

-----------------------------------------------------------------------------
(* The readers over a descriptor. *)

\* An empty or oversized descriptor is refused at once.
checkSize ==
  /\ phase = "size"
  /\ \E fits \in BOOLEAN : /\ failed' = ~fits /\ broken' = ~fits
                           /\ phase' = IF fits THEN "items" ELSE "done"
  /\ UNCHANGED <<itemVars, global, stack, collections, usages, minimum, hasMinimum,
                 invalidLayout, applications, inputs, outputs, unnamed, finishVars, page,
                 pages, named, first, least, hasMin, depth, found>>

NextFragment ==
  /\ phase = "items" /\ items = << >> /\ fragments < maxFragments
  /\ \E f \in Fragments : items' = f
  /\ fragments' = fragments + 1
  /\ UNCHANGED <<phase, parserVars, finishVars, scanVars>>

readItem ==
  /\ phase = "items" /\ items # << >>
  /\ Parse(Head(items)) /\ scanUsages(Head(items))
  /\ items' = Tail(items)
  /\ UNCHANGED <<phase, fragments, finishVars>>

\* A descriptor whose collections or pushes are not closed is refused.
endOfItems ==
  /\ phase = "items" /\ items = << >> /\ fragments > 0
  /\ failed' = (failed \/ collections # << >> \/ stack # << >>)
  /\ phase' = IF failed' THEN "done" ELSE "finish"
  /\ UNCHANGED <<itemVars, global, stack, collections, usages, minimum, hasMinimum,
                 invalidLayout, applications, inputs, outputs, unnamed, finishVars, scanVars>>

DescriptorRead == phase = "done" /\ UNCHANGED descriptorVars

DescriptorNext ==
  \/ checkSize \/ NextFragment \/ readItem \/ endOfItems
  \/ finishCollection \/ finish \/ DescriptorRead

DescriptorSpec == DescriptorInit /\ [][DescriptorNext]_descriptorVars

-----------------------------------------------------------------------------
(* Properties. *)

\* The collections of Inventory: what Parse found, or else what scanUsages did.
Inventory ==
  CASE ~failed -> applications
    [] failed /\ ~broken -> found
    [] OTHER -> << >>

\* The fallback reading names the collections the strict one would have named, with
\* the same indices, up to the item that made the strict one give up: an endpoint
\* does not change its address or its usage with the reason its layout is refused.
\* It holds as long as no Application collection lacks a usage of its own, for
\* which the two readers remember different earlier items.  What the strict reader
\* can read, the fallback can (Inventory, with Parse and scanUsages).
ReadingsAgree ==
  /\ ~failed => ~broken
  /\ ~unnamed /\ ~failed => found = applications
  /\ ~unnamed /\ ~broken =>
       /\ Len(Inventory) >= Len(applications)
       /\ \A i \in DOMAIN applications : Inventory[i] = applications[i]

\* Collection i has one report in this direction, of a size that can be used, and no
\* report of another collection can be taken for it.
Alone(maps, i) ==
  \E id \in DOMAIN maps[i] :
    /\ DOMAIN maps[i] = {id}
    /\ (maps[i][id] + 7) \div 8 \in 1..MaxReportSize
    /\ \A j \in DOMAIN maps \ {i} : \A other \in DOMAIN maps[j] : other # id /\ 0 \notin {id, other}

\* "Shared IDs across collections are rejected for I/O, because a native channel
\* cannot demultiplex them safely" (parser.go): a collection is supported exactly
\* when its reports can be told from those of all others, whatever the order of
\* the collections (finish, with its maps of first owners).
SupportedAreUnambiguous ==
  phase = "done" /\ ~failed =>
    supported = {i \in DOMAIN applications :
                   ~invalidLayout /\ Alone(inputs, i) /\ Alone(outputs, i)}
=============================================================================
