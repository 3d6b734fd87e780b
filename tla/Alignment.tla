------------------------------- MODULE Alignment -------------------------------
(***************************************************************************)
(* BasicBlockBuilder and AlignmentRegionBuilder: the functions of the      *)
(* guest and of the host object are cut into blocks after every            *)
(* control-flow instruction, the blocks are grouped by the function and    *)
(* the source lines they come from, and a group with one block on each     *)
(* side becomes an alignment region.  The miner and the set of verified    *)
(* windows know a region by its id only.                                   *)
(*                                                                         *)
(* A function is the number of its name in the order of names, a file the  *)
(* number of its name; an instruction has its function and its address,    *)
(* whether it is control flow, and the location the line table gives its   *)
(* address, if any.                                                        *)
(***************************************************************************)
EXTENDS Naturals, Sequences, FiniteSets, SequencesExt, FiniteSetsExt

CONSTANTS
    Objects,  \* pairs of object files: [guest, host], each function -> code
    NoSource  \* the line table has no row at the address

VARIABLES
    object,   \* the pair of objects that is aligned
    blocks,   \* the blocks of each side, in the order of the code
    keys,     \* group keys that are still to visit
    regions,  \* the regions so far
    counts      \* MiningDiagnostics: functions, regions, regions_skipped

alignmentVars == <<object, blocks, keys, regions, counts>>

-----------------------------------------------------------------------------

Sides == {"guest", "host"}

(* ExtractedInstruction. *)
Instructions ==
    [function : Nat, address : Nat, flow : BOOLEAN,
     source : [file : Nat, line : Nat] \cup {NoSource}]

(* ObjectExtractor.extract: the code of a function is that of its name.    *)
ASSUME ObjectsAreExtracted ==
    \A pair \in Objects : \A side \in Sides :
        /\ pair[side] \in Seq(Seq(Instructions))
        /\ \A f \in DOMAIN pair[side] : \A i \in DOMAIN pair[side][f] :
              pair[side][f][i].function = f

(* BasicBlockBuilder.build on one function: a block ends with control flow, *)
(* and what is left after the last instruction is a block of its own.      *)
Cut(acc, inst) ==
    LET current == Append(acc.current, inst)
    IN  IF inst.flow THEN [done |-> Append(acc.done, current), current |-> <<>>]
        ELSE [acc EXCEPT !.current = current]

CutCode(code) ==
    LET last == FoldLeft(Cut, [done |-> <<>>, current |-> <<>>], code)
    IN  IF last.current = <<>> THEN last.done ELSE Append(last.done, last.current)

BuildBlocks(function, code) ==
    LET cuts == CutCode(code)
    IN  [i \in DOMAIN cuts |-> [function |-> function, instructions |-> cuts[i]]]

AllBlocks(functions) ==
    FlattenSeq([f \in DOMAIN functions |-> BuildBlocks(f, functions[f])])

(* BasicBlock.source_key, with the function: the file and the lines, or     *)
(* NoSource.                                                               *)
Locations(block) ==
    {block.instructions[i].source : i \in DOMAIN block.instructions} \ {NoSource}

SourceKey(block) ==
    LET files == {loc.file : loc \in Locations(block)}
    IN  IF Cardinality(files) # 1 THEN NoSource
        ELSE [function |-> block.function, file |-> CHOOSE file \in files : TRUE,
              lines |-> {loc.line : loc \in Locations(block)}]

-----------------------------------------------------------------------------

(* The places of a group among the blocks of a side. *)
Group(side, key) == {i \in DOMAIN blocks[side] : SourceKey(blocks[side][i]) = key}

(* The order of two sets of lines as sorted tuples: the least line that     *)
(* only one of them has decides, and a tuple that ends there comes first.  *)
LinesBefore(a, b) ==
    LET line == Min((a \ b) \cup (b \ a))
    IN  /\ a # b
        /\ IF line \in a THEN \E l \in b : l > line ELSE \A l \in a : l < line

KeyBefore(k, l) ==
    \/ k.function < l.function
    \/ k.function = l.function /\ k.file < l.file
    \/ k.function = l.function /\ k.file = l.file /\ LinesBefore(k.lines, l.lines)

KeysOf(side) == {SourceKey(blocks[side][i]) : i \in DOMAIN blocks[side]} \ {NoSource}

Keys == KeysOf("guest") \cup KeysOf("host")

(* The key that is visited next. *)
IsFirst(key) == key \in keys /\ \A other \in keys \ {key} : KeyBefore(key, other)

(* _line_label: the first and the last line only. *)
LineLabel(lines) == <<Min(lines), Max(lines)>>

(* Mutant: the id is the label of the group alone. *)
RegionId_NoOrdinal(key, done) == <<key.function, key.file, LineLabel(key.lines), 0>>

RegionId(key, done) ==
    <<key.function, key.file, LineLabel(key.lines),
      Cardinality({i \in DOMAIN done : done[i].key.function = key.function})>>

(* Mutant: of several guest blocks the first is taken. *)
Paired_First(key) == Group("guest", key) # {} /\ Cardinality(Group("host", key)) = 1

Paired(key) == Cardinality(Group("guest", key)) = 1 /\ Cardinality(Group("host", key)) = 1

(* The code of the first block of a group. *)
GroupCode(side, key) == blocks[side][Min(Group(side, key))].instructions

-----------------------------------------------------------------------------

AlignmentInit ==
    /\ object \in Objects
    /\ blocks = [side \in Sides |-> AllBlocks(object[side])]
    /\ keys = Keys
    /\ regions = <<>>
    /\ counts = [functions |-> Len(object.guest), regions |-> 0, skipped |-> 0]

(* The group has no block or several on one side. *)
Ambiguous(key) ==
    /\ IsFirst(key)
    /\ ~Paired(key)
    /\ keys' = keys \ {key}
    /\ counts' = [counts EXCEPT !.skipped = @ + 1]
    /\ UNCHANGED <<object, blocks, regions>>

Align(key) ==
    /\ IsFirst(key)
    /\ Paired(key)
    /\ keys' = keys \ {key}
    /\ regions' = Append(regions,
            [id |-> RegionId(key, regions), key |-> key,
             guest |-> GroupCode("guest", key), host |-> GroupCode("host", key)])
    /\ counts' = [counts EXCEPT !.regions = @ + 1]
    /\ UNCHANGED <<object, blocks>>

AlignmentNext == \E key \in keys : Ambiguous(key) \/ Align(key)

AlignmentSpec == AlignmentInit /\ [][AlignmentNext]_alignmentVars

-----------------------------------------------------------------------------

(* The keys still to visit come after those of the regions, and one of     *)
(* them comes first: the loop never lacks its next key.                    *)
AlignmentTypeOK ==
    /\ object \in Objects
    /\ keys \subseteq Keys
    /\ keys # {} => \E key \in keys : IsFirst(key)
    /\ \A i \in DOMAIN regions : \A key \in keys : KeyBefore(regions[i].key, key)
    /\ counts \in [functions : {Len(object.guest)}, regions : Nat, skipped : Nat]

(* The blocks of a side, laid end to end, are the code of its functions    *)
(* with nothing lost or repeated; control flow ends a block and a block    *)
(* ends at control flow or with its function (blocks.py, build).           *)
BlocksPartitionTheCode ==
    \A side \in Sides :
        /\ FlattenSeq([i \in DOMAIN blocks[side] |-> blocks[side][i].instructions])
             = FlattenSeq(object[side])
        /\ \A i \in DOMAIN blocks[side] :
              LET insts == blocks[side][i].instructions
              IN  /\ \A j \in 1..Len(insts) - 1 : ~insts[j].flow
                  /\ \/ Last(insts).flow
                     \/ i = Len(blocks[side])
                     \/ blocks[side][i + 1].function # blocks[side][i].function

(* No two regions have one id, though groups of different lines may have   *)
(* one label: VerifiedWindowSet, which indexes by id, never prunes a       *)
(* window of one region because of another (align.py:28, windows.py:19).   *)
RegionIdsAreUnique ==
    \A i, j \in DOMAIN regions : i # j => regions[i].id # regions[j].id

(* A region pairs whole blocks of one function whose lines are the same,   *)
(* and no other block of either object could have been meant: the pairing  *)
(* is unambiguous.                                                         *)
RegionsAreUnambiguous ==
    \A i \in DOMAIN regions :
        \A side \in Sides :
            \A n \in DOMAIN blocks[side] :
                (SourceKey(blocks[side][n]) = regions[i].key)
                    <=> blocks[side][n].instructions = regions[i][side]

(* Nothing with a source key is lost: when the builder is done a block is  *)
(* part of exactly one region or its group was counted as skipped.         *)
LinedBlocksAreAccounted ==
    keys = {} =>
        LET paired == {regions[i].key : i \in DOMAIN regions}
        IN  /\ paired \subseteq Keys
            /\ counts.skipped = Cardinality(Keys \ paired)
            /\ counts.regions = Cardinality(paired)

(* The blocks of a side are its code, cut at control flow; a region pairs  *)
(* the one block of either side that has its source lines; and when the    *)
(* builder is done every block with a source key is part of one region or  *)
(* its group is among those counted as skipped.                            *)
BlocksAreAligned ==
    AlignmentTypeOK /\ BlocksPartitionTheCode /\ RegionsAreUnambiguous /\ LinedBlocksAreAccounted

=============================================================================
