------------------------------- MODULE OxqCodec ------------------------------
(***************************************************************************)
(* A whole .oxq file from a game and back: write_oxq (core/writer.cpp) and *)
(* read_oxq (core/reader.cpp), composed of the sections of a file.         *)
(***************************************************************************)
EXTENDS OxqContainer, OxqMetadata, OxqPosition, OxqTree

(* write_oxq, of a game whose texts are normalized, with its metadata       *)
(* fields, its pool of strings and its tree planned.                        *)
Assembled(normal, fields, placed, plan) ==
  IF MetadataFits(fields) /\ PoolFits(placed)
  THEN BuildContainer(normal.uuid,
         <<BuildMetadata(fields, placed), BuildPosition(normal.position),
           BuildMoveTree(normal.tree, plan), BuildAnnotations(normal.tree, plan, placed),
           BuildStringPool(placed)>>)
  ELSE Refused

Planned(normal, fields) ==
  Assembled(normal, fields, Placement(StringsOf(fields, normal.tree)), PlanTree(normal.tree))

WriteNormal(normal) == Planned(normal, PlanMetadata(normal.metadata))

WriteOxq(model) == IF ValidGame(model) THEN WriteNormal(Normalized(model)) ELSE Refused

(* ReaderDiagnostics::canonical_ordering *)
CanonicalOrdering(diagnostics) ==
  /\ diagnostics.section_order /\ diagnostics.string_pool_order /\ diagnostics.string_nfc
  /\ diagnostics.metadata_order /\ diagnostics.extended_metadata
  /\ diagnostics.piece_order /\ diagnostics.node_order

(* read_oxq: the sections in turn; the first that fails ends the reading.   *)
GameRead(container, strings, metadata, decoded, position, tree) ==
  [ok |-> TRUE,
   game |-> [uuid |-> container.uuid, metadata |-> decoded.value,
             position |-> position.value, tree |-> tree.value],
   diagnostics |->
     [section_order |-> container.canonical_order,
      string_pool_order |-> strings.canonical_order,
      string_nfc |-> strings.canonical_nfc,
      metadata_order |-> metadata.canonical_order,
      extended_metadata |-> decoded.canonical_extensions,
      piece_order |-> position.canonical_order,
      node_order |-> tree.canonical_order,
      unknown_sections |-> container.unknown]]

ReadTree(container, strings, metadata, decoded, position, annotations) ==
  LET tree == ReadMoveTree(container.section[3], annotations.records)
  IN  IF decoded.ok /\ position.ok /\ annotations.ok /\ tree.ok
      THEN GameRead(container, strings, metadata, decoded, position, tree)
      ELSE Refused

ReadRest(container, strings, metadata) ==
  IF metadata.ok
  THEN ReadTree(container, strings, metadata, DecodeMetadata(metadata, strings),
                ReadPosition(container.section[2]), ReadAnnotations(container.section[4], strings))
  ELSE Refused

ReadMetadataNext(container, strings) ==
  IF strings.ok
  THEN ReadRest(container, strings, ReadMetadata(container.section[1], strings))
  ELSE Refused

ReadSections(container) ==
  IF container.ok THEN ReadMetadataNext(container, ReadStringPool(container.section[5]))
  ELSE Refused

ReadOxq(input) == ReadSections(InspectContainer(input))
=============================================================================
