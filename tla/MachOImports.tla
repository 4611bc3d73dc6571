---------------------------- MODULE MachOImports ----------------------------
(***************************************************************************)
(* plthook's Mach-O import parser: load commands, the indirect symbol      *)
(* table, the legacy bind opcodes, the chained fixups, and how the three   *)
(* are merged into one list of slots.  Pure: an image and the bytes of its *)
(* file determine the result.                                              *)
(*                                                                         *)
(* An image is [magic, cpu, sub, slide, sizeofcmds, cmds].  A load command *)
(* is [cmd, cmdsize, ...] and carries the table it points at.  A name is a *)
(* sequence of tokens, "_" and "$" tokens of their own.  A file is a       *)
(* function from the offsets of a slice to the 64-bit words there.         *)
(***************************************************************************)
EXTENDS RawImports

CONSTANTS Word,             \* 2^64: file offsets wrap at it in a bind stream
          MaxChainSteps     \* MAX_CHAIN_STEPS

PTR_SIZE == 8

-----------------------------------------------------------------------------
(* The types of what the parser reads.  dyld maps a segment only if its    *)
(* file-backed part fits it, and the parser relies on it.                  *)

Name == {Malformed} \cup Seq(STRING)

Section == [flags : STRING, indirect_index : Nat, fileoff : Nat, size : Nat]

Symbol == [name : Name, import : BOOLEAN, ordinal : Int]

Opcode == [op : STRING, imm : Nat, uleb : Nat, name : Seq(STRING)]

PageStarts == [page_size : Nat, pointer_format : STRING, segment_offset : Nat,
               page_start : Seq(Int)]

Fixups == [datasize : Nat, version : Nat, format : STRING,
           imports : Seq([lib : Nat, name : Name]), segments : Seq({None} \cup PageStarts)]

ChainWord == [b63 : BOOLEAN, b62 : BOOLEAN, next : Nat, ordinal : Nat]

TypedCommand(c) ==
  /\ c.cmdsize \in Nat
  /\ c.cmd = "LC_SEGMENT_64" =>
       /\ {c.vmaddr, c.vmsize, c.fileoff} \subseteq Nat /\ c.filesize \in 0..c.vmsize
       /\ c.sections \in Seq(Section)
  /\ c.cmd = "LC_SYMTAB" => c.symbols \in Seq(Symbol)
  /\ c.cmd = "LC_DYSYMTAB" => c.indirect \in Seq(Nat \cup {-1})
  /\ c.cmd = "LC_DYLD_INFO" => c.streams \in Seq(Seq(Opcode))
  /\ c.cmd = "LC_DYLD_CHAINED_FIXUPS" => c.fixups \in Fixups
  /\ c.cmd = "LC_LOAD_DYLIB" => c.name \in STRING

TypedImage(image) ==
  /\ {"magic", "cpu", "sub", "slide", "sizeofcmds", "cmds"} \subseteq DOMAIN image
  /\ image.slide \in Int /\ image.sizeofcmds \in Nat
  /\ IsSequence(image.cmds) /\ \A i \in DOMAIN image.cmds : TypedCommand(image.cmds[i])

TypedSlice(words) ==
  DOMAIN words \subseteq Nat /\ \A off \in DOMAIN words : words[off] \in ChainWord

TypedContainer(container) ==
  container # None =>
    /\ IsSequence(container.slices) /\ container.slices # <<>>
    /\ \A i \in DOMAIN container.slices : TypedSlice(container.slices[i].words)

-----------------------------------------------------------------------------

macho_cpu_supported(cpu) == cpu \in {"x86_64", "arm64"}
is_arm64e(image) == image.cpu = "arm64" /\ image.sub = "arm64e"

(* A NUL-terminated name that cannot be read is Malformed. *)
Before(name, at) == IF at = 0 THEN name ELSE SubSeq(name, 1, at - 1)
Unsuffixed(name) == Before(name, SelectInSeq(name, LAMBDA t : t = "$"))

normalize_symbol_name(raw) ==
  Unsuffixed(IF raw # <<>> /\ Head(raw) = "_" THEN Tail(raw) ELSE raw)

TLV_BOOTSTRAP == <<"_", "tlv_bootstrap">>

-----------------------------------------------------------------------------
(* Load commands. *)

(* The least cmdsize the arm of a command accepts. *)
LeastSize(c) ==
  CASE c.cmd = "LC_SEGMENT_64" -> 72 + 80 * Len(c.sections)
    [] c.cmd = "LC_SYMTAB" -> 24
    [] c.cmd = "LC_DYSYMTAB" -> 80
    [] c.cmd = "LC_DYLD_INFO" -> 48
    [] c.cmd = "LC_DYLD_CHAINED_FIXUPS" -> 16
    [] OTHER -> 8

PointerSections(c) ==
  Filter(c.sections, LAMBDA s : s.flags \in {"S_NON_LAZY_SYMBOL_POINTERS", "S_LAZY_SYMBOL_POINTERS"})

read_segment(info, c) ==
  [info EXCEPT !.segments = Append(@, [vmaddr |-> c.vmaddr, vmsize |-> c.vmsize,
                                       fileoff |-> c.fileoff, filesize |-> c.filesize]),
               !.pointer_sections = @ \o PointerSections(c)]

parse_one_command(info, c) ==
  CASE c.cmd = "LC_SEGMENT_64" -> read_segment(info, c)
    [] c.cmd = "LC_SYMTAB" -> [info EXCEPT !.symtab = c.symbols]
    [] c.cmd = "LC_DYSYMTAB" -> [info EXCEPT !.indirect = c.indirect]
    [] c.cmd = "LC_DYLD_INFO" ->
         [info EXCEPT !.binds = @ \o Filter(c.streams, LAMBDA s : s # <<>>)]
    [] c.cmd = "LC_DYLD_CHAINED_FIXUPS" -> [info EXCEPT !.chained = c.fixups]
    [] c.cmd = "LC_LOAD_DYLIB" -> [info EXCEPT !.dylibs = Append(@, c.name)]
    [] OTHER -> info

LoadInfo == [cursor |-> 32, segments |-> <<>>, pointer_sections |-> <<>>, symtab |-> None,
             indirect |-> None, binds |-> <<>>, chained |-> None, dylibs |-> <<>>]

(* One turn of the loop over the load commands. *)
LoadCommand(image, info, c) ==
  IF \/ info = Malformed
     \/ c.cmdsize < 8 \/ c.cmdsize % 8 # 0
     \/ info.cursor + c.cmdsize > 32 + image.sizeofcmds
     \/ c.cmdsize < LeastSize(c)
  THEN Malformed
  ELSE [parse_one_command(info, c) EXCEPT !.cursor = @ + c.cmdsize]

read_load_commands(image) ==
  IF image.magic
  THEN FoldLeft(LAMBDA info, c : LoadCommand(image, info, c), LoadInfo, image.cmds)
  ELSE Malformed

library_of(ordinal, dylibs) == IF ordinal \in DOMAIN dylibs THEN dylibs[ordinal] ELSE ""

-----------------------------------------------------------------------------
(* The live view: file offsets to addresses, through the first segment     *)
(* whose file-backed range holds the offset.                               *)

LocateIn(segment, slide, off, len) ==
  IF off + len > segment.fileoff + segment.filesize THEN Malformed
  ELSE segment.vmaddr + (off - segment.fileoff) + slide

locate(segments, slide, off, len) ==
  LET at == SelectInSeq(segments, LAMBDA s : off >= s.fileoff /\ off < s.fileoff + s.filesize)
  IN IF at = 0 THEN Malformed ELSE LocateIn(segments[at], slide, off, len)

(* Mutation: the alignment of the cell is not checked. *)
slot_address_unaligned(image, info, off) == locate(info.segments, image.slide, off, PTR_SIZE)

slot_address(image, info, off) ==
  Try(locate(info.segments, image.slide, off, PTR_SIZE), LAMBDA addr :
    IF addr % PTR_SIZE # 0 THEN Malformed ELSE addr)

Push(image, info, name, ordinal, off, authenticated) ==
  PushAt(slot_address(image, info, off),
         LAMBDA slot : RawImport(library_of(ordinal, info.dylibs), name, None, slot,
                                 "Standard", authenticated))

-----------------------------------------------------------------------------
(* Source 1: the indirect symbol table.  A symbol is [name, import,        *)
(* ordinal]; import says it is undefined and external.  The index -1 is    *)
(* INDIRECT_SYMBOL_LOCAL or _ABS.                                          *)

SymbolSlot(image, info, symbol, off) ==
  IF ~symbol.import THEN <<>>
  ELSE Try(symbol.name, LAMBDA raw :
         IF normalize_symbol_name(raw) \in {<<>>, TLV_BOOTSTRAP} THEN <<>>
         ELSE Push(image, info, normalize_symbol_name(raw), symbol.ordinal, off,
                   is_arm64e(image)))

IndirectSlot(image, info, section, i) ==
  LET index == section.indirect_index + i
      sym   == info.indirect[index + 1]
  IN IF index >= Len(info.indirect) THEN Malformed
     ELSE IF sym = -1 THEN <<>>
     ELSE IF sym >= Len(info.symtab) THEN Malformed
     ELSE SymbolSlot(image, info, info.symtab[sym + 1], section.fileoff + i * PTR_SIZE)

parse_indirect(image, info) ==
  IF info.symtab = None \/ info.indirect = None THEN <<>>
  ELSE Collect(Len(info.pointer_sections), LAMBDA k :
         LET section == info.pointer_sections[k]
         IN Collect(section.size \div PTR_SIZE, LAMBDA i :
              IndirectSlot(image, info, section, i - 1)))

-----------------------------------------------------------------------------
(* Source 2: the legacy bind opcodes.  An opcode is [op, imm, uleb, name]; *)
(* one whose operand runs past the stream is any op not listed.            *)

emit_bind(image, info, state, off) ==
  IF state.symbol \in {None, <<>>} THEN Malformed
  ELSE IF state.symbol = TLV_BOOTSTRAP THEN <<>>
  ELSE IF state.seg_index + 1 \notin DOMAIN info.segments THEN Malformed
  ELSE LET slot_off == info.segments[state.seg_index + 1].fileoff + off
       IN IF slot_off >= Word THEN Malformed
          ELSE Push(image, info, state.symbol, state.library_ordinal, slot_off, FALSE)

(* count binds from the current offset on, each one pointer and skip apart. *)
DoBind(image, info, state, count, skip) ==
  Try(Collect(count, LAMBDA i :
        emit_bind(image, info, state,
                  (state.seg_offset + (i - 1) * (skip + PTR_SIZE)) % Word)), LAMBDA out :
    [state EXCEPT !.seg_offset = (@ + count * (skip + PTR_SIZE)) % Word, !.out = @ \o out])

BindState == [seg_index |-> 0, seg_offset |-> 0, library_ordinal |-> 0, symbol |-> None,
              out |-> <<>>]

(* How often an opcode binds, and what it skips after each. *)
Binding(o) ==
  [DO_BIND |-> [count |-> 1, skip |-> 0],
   DO_BIND_ADD_ADDR_ULEB |-> [count |-> 1, skip |-> o.uleb],
   DO_BIND_ADD_ADDR_IMM_SCALED |-> [count |-> 1, skip |-> o.imm * PTR_SIZE],
   DO_BIND_ULEB_TIMES_SKIPPING_ULEB |-> [count |-> o.imm, skip |-> o.uleb]]

BindOpcode(image, info, state, o) ==
  LET Repeats == Binding(o)
  IN  CASE o.op \in {"DONE", "SET_TYPE_IMM", "SET_ADDEND_SLEB"} -> state
         [] o.op \in {"SET_DYLIB_ORDINAL_IMM", "SET_DYLIB_ORDINAL_ULEB"} ->
              [state EXCEPT !.library_ordinal = o.imm]
         [] o.op = "SET_DYLIB_SPECIAL_IMM" ->
              [state EXCEPT !.library_ordinal = IF o.imm = 0 THEN 0 ELSE o.imm - 16]
         [] o.op = "SET_SYMBOL_TRAILING_FLAGS_IMM" ->
              [state EXCEPT !.symbol = normalize_symbol_name(o.name)]
         [] o.op = "SET_SEGMENT_AND_OFFSET_ULEB" ->
              [state EXCEPT !.seg_index = o.imm, !.seg_offset = o.uleb]
         [] o.op = "ADD_ADDR_ULEB" -> [state EXCEPT !.seg_offset = (@ + o.uleb) % Word]
         [] o.op \in DOMAIN Repeats ->
              IF Repeats[o.op].count > MaxChainSteps THEN Malformed
              ELSE DoBind(image, info, state, Repeats[o.op].count, Repeats[o.op].skip)
         [] OTHER -> Malformed

parse_bind_stream(image, info, stream) ==
  Try(FoldLeft(LAMBDA state, o : Try(state, LAMBDA s : BindOpcode(image, info, s, o)),
               BindState, stream), LAMBDA end : end.out)

-----------------------------------------------------------------------------
(* Source 3: the chained fixups.  A word is [b63, b62, next, ordinal].     *)
(* Fixups are [datasize, version, format, imports, segments]; an import is *)
(* [lib, name], lib the unsigned field; a segment's starts are [page_size, *)
(* pointer_format, segment_offset, page_start], page_start -1 for none,    *)
(* and None for a segment without fixups.                                *)

Arm64eStride == [ARM64E |-> 8, ARM64E_USERLAND |-> 8, ARM64E_USERLAND24 |-> 8,
                 ARM64E_KERNEL |-> 4, ARM64E_FIRMWARE |-> 4]

decode_chain(raw, format) ==
  CASE format \in {"PTR_64", "PTR_64_OFFSET"} ->
         [is_bind |-> raw.b63, ordinal |-> raw.ordinal, authenticated |-> FALSE,
          next |-> raw.next * 4]
    [] format \in DOMAIN Arm64eStride ->
         [is_bind |-> raw.b62,
          ordinal |-> IF format = "ARM64E_USERLAND24" THEN raw.ordinal ELSE raw.ordinal % 65536,
          authenticated |-> raw.b63,
          next |-> raw.next * Arm64eStride[format]]
    [] OTHER -> Malformed

sign_extend(value, bits) ==
  LET low == value % 2^bits IN IF low >= 2^(bits - 1) THEN low - 2^bits ELSE low

(* ImportsTable::resolve: [library, name] of an import ordinal. *)
resolve(info, fixups, ordinal) ==
  LET import == fixups.imports[ordinal + 1]
      bits   == IF fixups.format = "ADDEND64" THEN 16 ELSE 8
  IN IF \/ ordinal >= Len(fixups.imports)
        \/ fixups.format \notin {"IMPORT", "ADDEND", "ADDEND64"}
        \/ import.name = Malformed
     THEN Malformed
     ELSE [library |-> sign_extend(import.lib, bits), name |-> normalize_symbol_name(import.name)]

ChainImport(image, info, entry, resolved, off) ==
  Try(resolved, LAMBDA import :
    IF import.name \in {<<>>, TLV_BOOTSTRAP} THEN <<>>
    ELSE Push(image, info, import.name, import.library, off, entry.authenticated))

(* One turn of the loop along a chain; off is None after the last entry. *)
ChainStep(image, file, info, fixups, format, state) ==
  LET Found(entry) ==
        IF ~entry.is_bind THEN <<>>
        ELSE ChainImport(image, info, entry, resolve(info, fixups, entry.ordinal), state.off)
  IN  IF state.off = None THEN state
      ELSE IF state.off \notin DOMAIN file THEN Malformed
      ELSE Try(decode_chain(file[state.off], format), LAMBDA entry :
           Try(Found(entry), LAMBDA found :
             [off |-> IF entry.next = 0 THEN None ELSE state.off + entry.next,
              out |-> state.out \o found]))

FollowChain(image, file, info, fixups, format, first) ==
  Try(FoldLeft(LAMBDA state, i : Try(state, LAMBDA s :
                 ChainStep(image, file, info, fixups, format, s)),
               [off |-> first, out |-> <<>>], [i \in 1..MaxChainSteps |-> i]),
      LAMBDA end : end.out)

walk_segment_chains(image, file, info, fixups, starts) ==
  IF starts.page_size = 0 THEN Malformed
  ELSE Collect(Len(starts.page_start), LAMBDA j :
         IF starts.page_start[j] = -1 THEN <<>>
         ELSE FollowChain(image, file, info, fixups, starts.pointer_format,
                starts.segment_offset + (j - 1) * starts.page_size + starts.page_start[j]))

parse_chained_fixups(image, file, info, fixups) ==
  CASE file = None -> <<>>
    [] file # None /\ (fixups.datasize < 28 \/ fixups.version # 0) -> Malformed
    [] OTHER ->
         Collect(Len(fixups.segments), LAMBDA i :
           IF fixups.segments[i] = None THEN <<>>
           ELSE walk_segment_chains(image, file, info, fixups, fixups.segments[i]))

-----------------------------------------------------------------------------
(* The whole enumeration. *)

Complement(image, file, info) ==
  IF info.chained # None THEN parse_chained_fixups(image, file, info, info.chained)
  ELSE Collect(Len(info.binds), LAMBDA i : parse_bind_stream(image, info, info.binds[i]))

(* A shared slot keeps the primary record and takes the complement's flag. *)
MergeOne(out, import) ==
  LET at == SelectInSeq(out, LAMBDA r : r.slot = import.slot)
  IN IF at = 0 THEN Append(out, import)
     ELSE [out EXCEPT ![at].authenticated = import.authenticated]

(* Mutation: the record of the complement replaces the primary one. *)
merge_complement_replace(out, complement) ==
  LET Replace(acc, r) == SelectSeq(acc, LAMBDA p : p.slot # r.slot) \o <<r>>
  IN FoldLeft(Replace, out, complement)

merge_complement(out, complement) == FoldLeft(MergeOne, out, complement)

KeepFirst(out, import) ==
  IF \E i \in DOMAIN out : out[i].slot = import.slot THEN out ELSE Append(out, import)

(* The primary table is the listing if the complement does not parse. *)
Merged(primary, complement) ==
  FoldLeft(KeepFirst, <<>>, IF complement = Malformed THEN primary
                            ELSE merge_complement(primary, complement))

parse_imports(image, file) ==
  IF ~macho_cpu_supported(image.cpu) THEN Malformed
  ELSE Try(read_load_commands(image), LAMBDA info :
       Try(parse_indirect(image, info), LAMBDA primary :
         Merged(primary, Complement(image, file, info))))

-----------------------------------------------------------------------------
(* The module: acquiring it, and narrowing its file to a thin slice.  A    *)
(* container is [kind, slices]; a slice is [cpu, sub, inside, magic,       *)
(* words], inside saying that it lies in the file.                         *)

(* Module::from_index; enumerate() skips an image that fails it. *)
from_index(image) ==
  LET Loaded(info) == info # Malformed /\ info.segments # <<>>
  IN  image.magic /\ macho_cpu_supported(image.cpu) /\ Loaded(read_load_commands(image))

(* Mutation: the first slice of the cpu type, whatever its subtype. *)
thin_slice_range_any(container, cpu, sub) ==
  IF container.kind # "fat" THEN container.slices[1].words
  ELSE LET at == SelectInSeq(container.slices, LAMBDA s : s.cpu = cpu)
       IN IF at = 0 THEN None ELSE container.slices[at].words

thin_slice_range(container, cpu, sub) ==
  LET at == SelectInSeq(container.slices, LAMBDA s : s.cpu = cpu /\ s.sub = sub)
  IN CASE container.kind = "thin" -> container.slices[1].words
       [] container.kind = "fat" ->
            IF \/ \E i \in DOMAIN container.slices : ~container.slices[i].inside
               \/ at = 0
            THEN None
            ELSE IF container.slices[at].magic THEN container.slices[at].words ELSE None
       [] OTHER -> None

load_thin_slice(container, cpu, sub) ==
  IF container = None THEN None ELSE thin_slice_range(container, cpu, sub)
=============================================================================
