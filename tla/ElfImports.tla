----------------------------- MODULE ElfImports -----------------------------
(***************************************************************************)
(* plthook's ELF import parser over a live object: program headers, the    *)
(* dynamic array, the version tables and the two relocation tables.        *)
(*                                                                         *)
(* An object is [base, phdrs, dynamic, relas, mem], the last three mapping *)
(* a link-time address to what lies there: an entry [tag, val] of the      *)
(* dynamic array, a relocation [offset, type, sym], and in mem an ELF      *)
(* header, a symbol [name], a version index, a Verneed [file, aux, next],  *)
(* a Vernaux [other, name, next] or the string table; each entry is at its *)
(* first byte.  The loader has added base to the address entries of the    *)
(* dynamic array, and has not to DT_VERNEED.                               *)
(***************************************************************************)
EXTENDS RawImports

CONSTANTS MaxDyn, MaxRelocs, MaxVer   \* MAX_DYN, MAX_RELOCS, MAX_VERNEED = MAX_VERNAUX

PTR_SIZE == 8
SYM_SIZE == 24
RELA_SIZE == 24
DT_PLTREL_IS_RELA == 7

(* The types of what decides where a slot is. *)
TypedObject(obj) ==
  /\ obj.base \in Nat
  /\ IsSequence(obj.phdrs)
  /\ \A i \in DOMAIN obj.phdrs : obj.phdrs[i].vaddr \in Nat /\ obj.phdrs[i].memsz \in Nat
  /\ \A a \in DOMAIN obj.dynamic : obj.dynamic[a].val \in Nat
  /\ \A a \in DOMAIN obj.relas : obj.relas[a].offset \in Nat

elf_reloc_kinds(machine) ==
  CASE machine = "EM_X86_64" -> [jump_slot |-> "R_X86_64_JUMP_SLOT", glob_dat |-> "R_X86_64_GLOB_DAT"]
    [] machine = "EM_AARCH64" -> [jump_slot |-> "R_AARCH64_JUMP_SLOT", glob_dat |-> "R_AARCH64_GLOB_DAT"]
    [] OTHER -> None

-----------------------------------------------------------------------------
(* Program headers and the module. *)

Loads(obj) == {p \in ToSet(obj.phdrs) : p.type = "PT_LOAD"}

(* The last PT_DYNAMIC, None if there is none. *)
DynamicVaddr(obj) ==
  LET at == SelectLastInSeq(obj.phdrs, LAMBDA p : p.type = "PT_DYNAMIC")
  IN IF at = 0 THEN None ELSE obj.phdrs[at].vaddr

(* The address of the PT_LOAD that maps file offset 0. *)
EhdrVaddr(obj) ==
  LET at == SelectLastInSeq(obj.phdrs, LAMBDA p : p.type = "PT_LOAD" /\ p.offset = 0)
  IN IF at = 0 THEN 0 ELSE obj.phdrs[at].vaddr

vaddr_in_load(obj, vaddr, len) ==
  \E p \in Loads(obj) : vaddr >= p.vaddr /\ vaddr + len <= p.vaddr + p.memsz

(* What a read at an absolute cursor finds among entries of len bytes. *)
ReadIn(obj, entries, cursor, len) ==
  LET vaddr == cursor - obj.base
  IN IF cursor < obj.base \/ ~vaddr_in_load(obj, vaddr, len) \/ vaddr \notin DOMAIN entries
     THEN Malformed ELSE entries[vaddr]

read_live(obj, cursor, len) == ReadIn(obj, obj.mem, cursor, len)

validate_ehdr(ehdr) ==
  /\ ehdr # Malformed
  /\ ehdr.ident = "ELF64LSB" /\ ehdr.type \in {"ET_EXEC", "ET_DYN"}
  /\ elf_reloc_kinds(ehdr.machine) # None

(* Module::from_raw; enumerate() skips an object that fails it. *)
from_raw(obj) ==
  /\ Loads(obj) # {}
  /\ DynamicVaddr(obj) # None
  /\ validate_ehdr(read_live(obj, obj.base + EhdrVaddr(obj), 64))

-----------------------------------------------------------------------------
(* The addressing modes of the live view. *)

dynptr_cursor(obj, d_ptr) ==
  IF d_ptr < obj.base \/ ~vaddr_in_load(obj, d_ptr - obj.base, 1) THEN Malformed ELSE d_ptr

(* Mutation: DT_VERNEED is taken for a relocated pointer. *)
vaddr_cursor_unbiased(obj, vaddr) == dynptr_cursor(obj, vaddr)

vaddr_cursor(obj, vaddr) ==
  IF vaddr_in_load(obj, vaddr, 1) THEN obj.base + vaddr ELSE Malformed

slot_address(obj, r_offset) ==
  IF vaddr_in_load(obj, r_offset, PTR_SIZE) /\ (obj.base + r_offset) % PTR_SIZE = 0
  THEN obj.base + r_offset ELSE Malformed

-----------------------------------------------------------------------------
(* The dynamic array: [tag -> val] up to DT_NULL. *)

UpTo(entries, end) ==
  LET LastOf(tag) == SelectLastInSubSeq(entries, 1, end - 1, LAMBDA e : e.tag = tag)
  IN IF end = 0 THEN Malformed
     ELSE IF entries[end] = Malformed THEN Malformed
     ELSE [t \in {entries[i].tag : i \in 1..(end - 1)} |-> entries[LastOf(t)].val]

UpToNull(entries) ==
  UpTo(entries, SelectInSeq(entries, LAMBDA e : IF e = Malformed THEN TRUE ELSE e.tag = "DT_NULL"))

read_dynamic(obj) ==
  UpToNull([i \in 1..MaxDyn |->
              ReadIn(obj, obj.dynamic, obj.base + DynamicVaddr(obj) + 16 * (i - 1), 16)])

Has(dynamic, tags) == tags \subseteq DOMAIN dynamic

(* The string table is one entry of mem, a function from offsets to names. *)
read_str(strtab, strsz, off) ==
  IF off >= strsz \/ strtab = Malformed THEN Malformed
  ELSE IF off \in DOMAIN strtab THEN strtab[off] ELSE Malformed

-----------------------------------------------------------------------------
(* The version tables. *)

WithVersion(map, index, version) ==
  [k \in DOMAIN map \cup {index} |-> IF k = index THEN version ELSE map[k]]

(* A walk of at most count turns along a linked list, from an address on;  *)
(* its state is [cursor, map], and cursor is None after the last entry.    *)
Walk(Turn(_), first, count, map) ==
  Try(FoldLeft(LAMBDA state, i : Try(state, LAMBDA s : IF s.cursor = None THEN s ELSE Turn(s)),
               [cursor |-> first, map |-> map], [i \in 1..count |-> i]), LAMBDA end : end.map)

After(cursor, stride) == IF stride = 0 THEN None ELSE cursor + stride

(* The Vernaux list of one Verneed. *)
ReadVernaux(obj, strtab, strsz, soname, first, count, map) ==
  LET Turn(s) ==
        Try(read_live(obj, s.cursor, 16), LAMBDA aux :
        Try(read_str(strtab, strsz, aux.name), LAMBDA name :
          [cursor |-> After(s.cursor, aux.next),
           map |-> WithVersion(s.map, aux.other % 2^15, <<name, soname>>)]))
  IN Walk(Turn, first, count, map)

ReadVerneed(obj, strtab, strsz, first, count, map) ==
  LET Turn(s) ==
        Try(read_live(obj, s.cursor, 16), LAMBDA need :
        Try(read_str(strtab, strsz, need.file), LAMBDA soname :
        Try(ReadVernaux(obj, strtab, strsz, soname, s.cursor + need.aux,
                        IF need.cnt < MaxVer THEN need.cnt ELSE MaxVer, s.map), LAMBDA versions :
          [cursor |-> After(s.cursor, need.next), map |-> versions])))
  IN Walk(Turn, first, count, map)

build_version_map(obj, dynamic, strtab, strsz) ==
  LET count == IF Has(dynamic, {"DT_VERNEEDNUM"}) /\ dynamic["DT_VERNEEDNUM"] < MaxVer
               THEN dynamic["DT_VERNEEDNUM"] ELSE MaxVer
      empty == [k \in {} |-> <<>>]
  IN IF ~Has(dynamic, {"DT_VERNEED"}) THEN empty
     ELSE Try(vaddr_cursor(obj, dynamic["DT_VERNEED"]), LAMBDA first :
            ReadVerneed(obj, strtab, strsz, first, count, empty))

(* <<version, library>> of a symbol. *)
Versioned(versions, index) ==
  IF index <= 1 \/ index \notin DOMAIN versions THEN <<None, "">> ELSE versions[index]

version_of(obj, versions, versym, sym) ==
  IF versym = None THEN <<None, "">>
  ELSE Try(read_live(obj, versym + 2 * sym, 2), LAMBDA raw : Versioned(versions, raw % 2^15))

-----------------------------------------------------------------------------
(* The relocation tables. *)

(* t is what parse_imports has of the tables: [obj, symtab, strtab, strsz, *)
(* versym, versions].                                                      *)
Relocation(t, want_type, entry) ==
  Try(ReadIn(t.obj, t.obj.relas, entry, RELA_SIZE), LAMBDA rela :
    IF rela.type # want_type THEN <<>>
    ELSE Try(read_live(t.obj, t.symtab + SYM_SIZE * rela.sym, SYM_SIZE), LAMBDA symbol :
           IF symbol.name = 0 THEN <<>>
           ELSE Try(read_str(t.strtab, t.strsz, symbol.name), LAMBDA name :
                Try(version_of(t.obj, t.versions, t.versym, rela.sym), LAMBDA ver :
                  PushAt(slot_address(t.obj, rela.offset), LAMBDA slot :
                    RawImport(ver[2], name, ver[1], slot, "Standard", FALSE))))))

walk_rela(t, want_type, table, size, entsize) ==
  IF entsize = 0 THEN Malformed
  ELSE IF size \div entsize > MaxRelocs THEN Malformed
  ELSE Collect(size \div entsize, LAMBDA i :
         Relocation(t, want_type, table + (i - 1) * entsize))

(* .rela.plt, if its entries are Rela. *)
Plt(t, dynamic, kinds) ==
  IF ~Has(dynamic, {"DT_JMPREL", "DT_PLTRELSZ", "DT_PLTREL"}) THEN <<>>
  ELSE IF dynamic["DT_PLTREL"] # DT_PLTREL_IS_RELA THEN <<>>
  ELSE Try(dynptr_cursor(t.obj, dynamic["DT_JMPREL"]), LAMBDA table :
         walk_rela(t, kinds.jump_slot, table, dynamic["DT_PLTRELSZ"], RELA_SIZE))

(* .rela.dyn. *)
Got(t, dynamic, kinds) ==
  IF ~Has(dynamic, {"DT_RELA"}) THEN <<>>
  ELSE IF ~Has(dynamic, {"DT_RELASZ"}) THEN Malformed
  ELSE Try(dynptr_cursor(t.obj, dynamic["DT_RELA"]), LAMBDA table :
         walk_rela(t, kinds.glob_dat, table, dynamic["DT_RELASZ"],
                   IF Has(dynamic, {"DT_RELAENT"}) THEN dynamic["DT_RELAENT"] ELSE RELA_SIZE))

ParseTables(obj, kinds, dynamic) ==
  LET OptPtr(tag) == IF Has(dynamic, {tag}) THEN dynptr_cursor(obj, dynamic[tag]) ELSE None
      Tables(t) == Join(Plt(t, dynamic, kinds), Got(t, dynamic, kinds))
      strsz == dynamic["DT_STRSZ"]
  IN IF \/ kinds = None
        \/ Has(dynamic, {"DT_SYMENT"}) /\ dynamic["DT_SYMENT"] # SYM_SIZE
        \/ ~Has(dynamic, {"DT_SYMTAB", "DT_STRTAB", "DT_STRSZ"})
     THEN Malformed
     ELSE Try(dynptr_cursor(obj, dynamic["DT_SYMTAB"]), LAMBDA symtab :
          Try(dynptr_cursor(obj, dynamic["DT_STRTAB"]), LAMBDA strings :
          Try(OptPtr("DT_VERSYM"), LAMBDA versym :
          Try(read_live(obj, strings, 1), LAMBDA strtab :
          Try(build_version_map(obj, dynamic, strtab, strsz), LAMBDA versions :
            Tables([obj |-> obj, symtab |-> symtab, strtab |-> strtab, strsz |-> strsz,
                    versym |-> versym, versions |-> versions]))))))

parse_imports(obj) ==
  Try(read_dynamic(obj), LAMBDA dynamic :
    ParseTables(obj, elf_reloc_kinds(obj.mem[EhdrVaddr(obj)].machine), dynamic))
=============================================================================
