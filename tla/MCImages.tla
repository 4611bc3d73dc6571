------------------------------- MODULE MCImages -------------------------------
(***************************************************************************)
(* Images for ModuleImports: a linker for each format, which lays out what *)
(* a small image imports in every encoding the parsers read, and a list of *)
(* defects.  Numbers are bytes; addresses wrap at 2^16.                    *)
(***************************************************************************)
EXTENDS ModuleImports, TLC

MCWinsock == 4 :> "connect"

Import(name, lib, ver, slot, kind, auth) == RawImport(lib, name, ver, slot, kind, auth)

-----------------------------------------------------------------------------
(* Mach-O: a data segment of three slots on two pages; the first two are a *)
(* symbol-pointer section, the third only a complement reaches.  "stat" is *)
(* bound by flat lookup and has no provider.                               *)

Binds == {"none", "open", "stat", "tlv"}
SlotOff(k) == 64 + 8 * k
Address(k) == 1024 + 128 + 8 * k
Raw == [open |-> <<"_", "open">>, stat |-> <<"_", "stat", "$", "INODE64">>,
        tlv |-> <<"_", "_", "tlv_bootstrap">>]
Index == [none |-> -1, open |-> 0, stat |-> 1, tlv |-> 2]
Special == [open |-> 1, stat |-> 254, tlv |-> 1]

MachOListing(t, slots, auth) ==
  {Import(IF t[k] = "open" THEN <<"open">> ELSE <<"stat">>, IF t[k] = "open" THEN "libc" ELSE "",
          None, Address(k), "Standard", k \in auth) : k \in {k \in slots : t[k] \in {"open", "stat"}}}

Op(op, imm, uleb) == <<[op |-> op, imm |-> imm, uleb |-> uleb, name |-> <<>>]>>
Symbol(b) == <<[op |-> "SET_SYMBOL_TRAILING_FLAGS_IMM", imm |-> 0, uleb |-> 0, name |-> Raw[b]]>>
             \o (IF b = "stat" THEN Op("SET_DYLIB_SPECIAL_IMM", 14, 0)
                 ELSE Op("SET_DYLIB_ORDINAL_IMM", 1, 0))
At(k) == Op("SET_SEGMENT_AND_OFFSET_ULEB", 1, 8 * k)
Each(t, ks) == FlattenSeq([i \in 1..Len(ks) |->
                 IF t[ks[i]] = "none" THEN <<>> ELSE Symbol(t[ks[i]]) \o At(ks[i]) \o Op("DO_BIND", 0, 0)])

(* Downwards, by offsets that wrap around. *)
Back(t) == At(2) \o FlattenSeq([i \in 1..3 |->
             IF t[3 - i] = "none" THEN Op("ADD_ADDR_ULEB", 0, Word - 8)
             ELSE Symbol(t[3 - i]) \o Op("DO_BIND", 0, 0) \o Op("ADD_ADDR_ULEB", 0, Word - 16)])

(* The first and the last slot in one opcode, or by the adding opcodes. *)
Skip(t) ==
  IF t[0] = "none" \/ t[2] = "none" THEN Each(t, <<0, 2>>)
  ELSE IF t[0] = t[2] THEN Symbol(t[0]) \o At(0) \o Op("DO_BIND_ULEB_TIMES_SKIPPING_ULEB", 2, 8)
  ELSE Symbol(t[0]) \o At(0)
       \o (IF t[1] = "none" THEN Op("DO_BIND_ADD_ADDR_ULEB", 0, 8)
           ELSE Op("DO_BIND_ADD_ADDR_IMM_SCALED", 1, 0))
       \o Symbol(t[2]) \o Op("DO_BIND", 0, 0)

Streams(t, enc) ==
  CASE enc = "each" -> <<Op("SET_TYPE_IMM", 1, 0) \o Each(t, <<0, 1, 2>>) \o Op("DONE", 0, 0), <<>>, <<>>>>
    [] enc = "back" -> <<<<>>, Back(t), <<>>>>
    [] enc = "skip" -> <<Skip(t), <<>>, Each(t, <<1>>)>>
    [] enc = "threaded" -> <<Each(t, <<2>>), Each(t, <<0, 1>>) \o Op("THREADED", 0, 0), <<>>>>
    [] enc = "undone" -> <<Op("DO_BIND", 0, 0), <<>>, <<>>>>

LegacyEncodings == {"each", "back", "skip"}
ChainEncodings == [PTR_64 |-> 4, ARM64E |-> 8, ARM64E_KERNEL |-> 4, ARM64E_USERLAND24 |-> 8]

Words(t, signed, enc) ==
  [off \in {SlotOff(k) : k \in 0..2} |->
     LET k == (off - 64) \div 8
         bound == t[k] # "none"
     IN [b63 |-> IF enc = "PTR_64" THEN bound ELSE k \in signed,
         b62 |-> enc # "PTR_64" /\ bound,
         next |-> IF k = 0 THEN 8 \div ChainEncodings[enc] ELSE 0,
         ordinal |-> IF bound THEN Index[t[k]] ELSE 0]]

Fixups(enc, defect) ==
  [datasize |-> 28, version |-> IF defect = "version" THEN 1 ELSE 0,
   format |-> IF enc = "ARM64E" THEN "ADDEND64" ELSE "IMPORT",
   imports |-> [i \in 1..(IF defect = "ordinal" THEN 0 ELSE 3) |->
                  LET b == CHOOSE b \in DOMAIN Raw : Index[b] = i - 1
                  IN [lib |-> IF enc = "ARM64E" /\ b = "stat" THEN 65534 ELSE Special[b],
                      name |-> Raw[b]]],
   segments |-> <<None, [page_size |-> 16, pointer_format |-> enc, segment_offset |-> 64,
                         page_start |-> IF defect = "past" THEN <<0, 0, 0>> ELSE <<0, 0>>]>>]

MachOImage(t, enc, defect) ==
  [magic |-> TRUE, cpu |-> IF enc \in {"none", "PTR_64"} \cup LegacyEncodings THEN "x86_64" ELSE "arm64",
   sub |-> IF enc \in {"none", "PTR_64"} \cup LegacyEncodings THEN "all" ELSE "arm64e",
   slide |-> 1024,
   sizeofcmds |-> IF defect = "short" THEN 200 ELSE 2000,
   cmds |-> <<
     [cmd |-> "LC_SEGMENT_64", cmdsize |-> 72, vmaddr |-> 0, vmsize |-> 64, fileoff |-> 0,
      filesize |-> 64, sections |-> <<>>],
     [cmd |-> "LC_SEGMENT_64", cmdsize |-> 232, vmaddr |-> 128, vmsize |-> 24, fileoff |-> 64,
      filesize |-> 24,
      sections |-> LET s == [flags |-> "S_NON_LAZY_SYMBOL_POINTERS", indirect_index |-> 1,
                             fileoff |-> IF defect = "misaligned" THEN 68 ELSE 64,
                             size |-> IF defect = "long" THEN 24 ELSE 16]
                   IN IF defect = "twice" THEN <<s, s>> ELSE <<s, [s EXCEPT !.flags = "S_REGULAR"]>>],
     [cmd |-> "LC_SYMTAB", cmdsize |-> IF defect = "cmdsize" THEN 26 ELSE 24,
      symbols |-> [i \in 1..3 |-> LET b == CHOOSE b \in DOMAIN Raw : Index[b] = i - 1
                                  IN [name |-> Raw[b], import |-> TRUE, ordinal |-> Special[b]]]],
     [cmd |-> "LC_DYSYMTAB", cmdsize |-> 80,
      indirect |-> <<-1, Index[t[0]], IF defect = "symbol" THEN 9 ELSE Index[t[1]]>>],
     [cmd |-> "LC_LOAD_DYLIB", cmdsize |-> 32, name |-> "libc"]>>
     \o (IF enc \in DOMAIN ChainEncodings
         THEN <<[cmd |-> "LC_DYLD_CHAINED_FIXUPS", cmdsize |-> 16, fixups |-> Fixups(enc, defect)]>>
         ELSE IF enc \in {"none", "bare"} THEN <<>>
         ELSE <<[cmd |-> "LC_DYLD_INFO", cmdsize |-> 48,
                 streams |-> Streams(t, IF defect = "version" THEN "undone" ELSE enc)]>>)]

Slice(cpu, sub, words) == [cpu |-> cpu, sub |-> sub, inside |-> TRUE, magic |-> TRUE, words |-> words]

MachOModule(t, signed, enc, defect, container) ==
  LET arm     == MachOImage(t, enc, defect).cpu = "arm64"
      refined == enc \in LegacyEncodings \cup DOMAIN ChainEncodings
      coarse  == MachOListing(t, 0..1, IF arm THEN 0..2 ELSE {})
  IN [format |-> "macho", image |-> MachOImage(t, enc, defect),
      sound |-> defect = "no",
      signed |-> {Address(k) : k \in IF arm THEN signed ELSE {}},
      coarse |-> coarse,
      listing |-> IF refined THEN MachOListing(t, 0..2, IF arm THEN signed ELSE {}) ELSE coarse,
      container |-> container,
      words |-> IF enc \in DOMAIN ChainEncodings THEN Words(t, signed, enc) ELSE [o \in {} |-> 0],
      rebuilt |-> IF enc \in DOMAIN ChainEncodings THEN Words(t, {}, enc) ELSE [o \in {} |-> 0]]

Texts == [0..2 -> Binds]
ArmTexts == {t \in Texts : t[0] \in {"none", "open"} /\ t[1] \in {"stat", "tlv"}}
SignedSets(t) == {{}, {k \in 0..2 : t[k] # "none"}, {k \in {0, 2} : t[k] # "none"}}
X86Encodings == LegacyEncodings \cup {"none", "PTR_64"}
ArmEncodings == {"bare", "threaded", "ARM64E", "ARM64E_KERNEL", "ARM64E_USERLAND24"}
Defects == {"short", "misaligned", "long", "twice", "cmdsize", "symbol", "version", "ordinal", "past"}

MachOModules ==
  LET containers == {"thin", "fat", "fat_outside", "none"}
  IN {MachOModule(t, {}, enc, "no", c) : t \in Texts, enc \in X86Encodings, c \in {"thin", "fat"}}
     \cup UNION {{MachOModule(t, s, enc, "no", c) :
                    s \in SignedSets(t), enc \in ArmEncodings, c \in containers} : t \in ArmTexts}
     \cup UNION {{MachOModule(t, s, enc, d, "thin") :
                    s \in SignedSets(t), enc \in X86Encodings \cup ArmEncodings, d \in Defects} :
                 t \in {t \in ArmTexts : t[0] = "open" /\ t[1] = "stat" /\ t[2] \in {"open", "stat"}}}

(* The file: thin, or one slice of a universal file after another arm64    *)
(* slice with other words; a sibling slice outside the file spoils it.     *)
MCOnDisk(m, d) ==
  LET other == Slice("arm64", "all", m.rebuilt)
      mine  == Slice(m.image.cpu, m.image.sub, m.words)
  IN CASE d = "deleted" \/ m.container = "none" -> None
       [] m.container = "thin" /\ d # "deleted" -> [kind |-> "thin", slices |-> <<mine>>]
       [] m.container = "fat" /\ d # "deleted" -> [kind |-> "fat", slices |-> <<other, mine>>]
       [] OTHER -> [kind |-> "fat", slices |-> <<mine, [other EXCEPT !.inside = FALSE]>>]

-----------------------------------------------------------------------------
(* ELF: two PLT relocations and one of .rela.dyn, which lies right before  *)
(* the PLT table; DT_RELASZ may cover both.                                *)

Data == 8192
Names == 0 :> "" @@ 1 :> "open" @@ 6 :> "stat" @@ 11 :> "libc.so.6" @@ 21 :> "GLIBC_2.2.5"
SymName == <<0, 1, 6>>        \* symbol 0 is unnamed

ElfDynamic(base, defect, overlap) ==
  LET Ptr(v) == base + v
      all == << <<"DT_STRTAB", Ptr(200)>>, <<"DT_SYMTAB", Ptr(300)>>,
                <<"DT_STRSZ", IF defect = "strsz" THEN 4 ELSE 40>>,
                <<"DT_SYMENT", IF defect = "syment" THEN 16 ELSE 24>>,
                <<"DT_JMPREL", Ptr(624)>>, <<"DT_PLTRELSZ", 48>>,
                <<"DT_PLTREL", IF defect = "rel" THEN 17 ELSE 7>>,
                <<"DT_RELA", Ptr(600)>>, <<"DT_RELASZ", IF overlap THEN 72 ELSE 24>>,
                <<"DT_RELAENT", IF defect = "entsize" THEN 0 ELSE 24>>,
                <<"DT_VERSYM", Ptr(400)>>,
                <<"DT_VERNEED", IF defect = "verneed" THEN Ptr(700) + 65536 ELSE 700>>,
                <<"DT_VERNEEDNUM", 2>>, <<"DT_NULL", 0>> >>
  IN IF defect = "symtab" THEN SelectSeq(all, LAMBDA e : e[1] # "DT_SYMTAB")
     ELSE IF defect = "relasz" THEN SelectSeq(all, LAMBDA e : e[1] # "DT_RELASZ")
     ELSE IF defect = "unterminated" THEN SubSeq(all, 1, 13)
     ELSE all

ElfImage(base, relocs, versions, defect, overlap) ==
  LET dynamic == ElfDynamic(base, defect, overlap)
      Rela(i) == [offset |-> CASE defect = "align" /\ i = 3 -> Data + 20
                               [] defect = "outside" /\ i = 3 -> Data + 24
                               [] OTHER -> Data + 8 * (i - 1),
                  type |-> relocs[i][1], sym |-> relocs[i][2]]
      mem == 0 :> [ident |-> "ELF64LSB", type |-> "ET_DYN",
                   machine |-> IF defect = "machine" THEN "EM_ARM" ELSE "EM_X86_64"]
             @@ 200 :> Names
             @@ 700 :> [file |-> 11, cnt |-> 1, aux |-> 16, next |-> 32]
             @@ 716 :> [other |-> 2, name |-> 21, next |-> 0]
             @@ 732 :> [file |-> 1, cnt |-> 2, aux |-> 16, next |-> 0]
             @@ 748 :> [other |-> 3 + 32768, name |-> 6, next |-> 16]
             @@ 764 :> [other |-> 4, name |-> 6, next |-> 0]
             @@ [a \in {300, 324, 348} |-> [name |-> SymName[(a - 300) \div 24 + 1]]]
             @@ [a \in {400, 402, 404} |-> versions[(a - 400) \div 2 + 1]]
  IN [base |-> base, mem |-> mem,
      dynamic |-> [a \in {1000 + 16 * i : i \in 0..(Len(dynamic) - 1)} |->
                     LET e == dynamic[(a - 1000) \div 16 + 1] IN [tag |-> e[1], val |-> e[2]]],
      relas |-> [a \in {600, 624, 648} |-> Rela((a - 600) \div 24 + 1)],
      phdrs |-> <<[type |-> "PT_LOAD", vaddr |-> 0, memsz |-> 2000, offset |-> 0],
                  [type |-> "PT_LOAD", vaddr |-> Data, memsz |-> 24, offset |-> 4096],
                  [type |-> IF defect = "dynamic" THEN "PT_NOTE" ELSE "PT_DYNAMIC", vaddr |-> 1000,
                   memsz |-> 240, offset |-> 1000]>>]

(* What version index v stands for. *)
Provider(v) ==
  CASE v \in {2, 2 + 32768} -> <<"GLIBC_2.2.5", "libc.so.6">>
    [] v \in {3, 4} -> <<"stat", "open">>
    [] OTHER -> <<None, "">>

ElfModule(base, relocs, versions, defect, overlap) ==
  LET wanted == {i \in 1..3 : relocs[i][1] = (IF i = 1 THEN "R_X86_64_GLOB_DAT" ELSE "R_X86_64_JUMP_SLOT")
                              /\ relocs[i][2] # 0}
      listing == {Import(Names[SymName[relocs[i][2] + 1]], Provider(versions[relocs[i][2] + 1])[2],
                         Provider(versions[relocs[i][2] + 1])[1], base + Data + 8 * (i - 1),
                         "Standard", FALSE) : i \in wanted}
  IN [format |-> "elf", image |-> ElfImage(base, relocs, versions, defect, overlap),
      sound |-> defect = "no", signed |-> {}, coarse |-> listing, listing |-> listing]

ElfModules ==
  LET gots == {<<"R_X86_64_GLOB_DAT", 1>>, <<"R_X86_64_GLOB_DAT", 0>>, <<"R_X86_64_RELATIVE", 2>>}
      plts == {<<"R_X86_64_JUMP_SLOT", 1>>, <<"R_X86_64_JUMP_SLOT", 2>>, <<"R_X86_64_IRELATIVE", 0>>}
      relocs == {<<g, p, q>> : g \in gots, p \in plts, q \in plts}
      versions == {<<0, 2, 3>>, <<0, 2 + 32768, 4>>, <<0, 1, 9>>}
      defects == {"align", "outside", "strsz", "syment", "rel", "entsize", "verneed", "symtab",
                  "relasz", "unterminated", "machine", "dynamic"}
  IN {ElfModule(b, r, v, "no", o) : b \in {0, 65536}, r \in relocs, v \in versions, o \in BOOLEAN}
     \cup {ElfModule(b, <<<<"R_X86_64_GLOB_DAT", 1>>, <<"R_X86_64_JUMP_SLOT", 1>>,
                          <<"R_X86_64_JUMP_SLOT", 2>>>>, <<0, 2, 3>>, d, FALSE) :
             b \in {0, 65536}, d \in defects}

-----------------------------------------------------------------------------
(* PE: two standard descriptors and a delay-load one.                      *)

PeNames == [name |-> <<"Name", "open">>, connect |-> <<"Name", "connect">>,
            ordinal |-> <<"Ordinal", 4>>, unknown |-> <<"Ordinal", 999>>]
Thunk(s) == CASE s = "name" -> [by_ordinal |-> FALSE, value |-> 800]
              [] s = "unknown" -> [by_ordinal |-> TRUE, value |-> 999]
              [] OTHER -> [by_ordinal |-> TRUE, value |-> 4]
ThunkTable(rva, thunks) ==
  [a \in {rva + 8 * j : j \in 0..(Len(thunks) - 1)} |-> Thunk(thunks[(a - rva) \div 8 + 1])]

PeImage(lib, named, thunks, delay, defect) ==
  LET mem == 300 :> lib @@ 320 :> "delay.dll" @@ 802 :> "open"
             @@ ThunkTable(200, thunks) @@ ThunkTable(400, thunks)
             @@ (IF defect = "align" THEN ThunkTable(404, thunks) ELSE ThunkTable(976, <<"name", "name">>))
             @@ (IF defect = "endless" THEN ThunkTable(200, <<"name", "name", "name", "name", "name">>)
                 ELSE ThunkTable(240, <<"name">>))
             @@ ThunkTable(500, <<"name">>) @@ ThunkTable(560, <<"name">>)
  IN [base |-> 65536, size |-> 1004, mem |-> mem,
      descriptors |-> 100 :> [names |-> IF named THEN 200 ELSE 0, name |-> 300,
                              slots |-> CASE defect = "align" -> 404 [] defect = "end" -> 984
                                          [] OTHER -> 400]
                      @@ 120 :> [names |-> 240, name |-> 300, slots |-> 0],
      delayed |-> 700 :>
        (CASE delay = "va" -> [attributes |-> 0, name |-> 320, slots |-> 560, names |-> 500]
           [] delay = "mapped_va" ->
                [attributes |-> 0, name |-> 320, slots |-> 65536 + 560, names |-> 65536 + 500]
           [] delay = "outside" -> [attributes |-> 1, name |-> 320, slots |-> 2000, names |-> 500]
           [] OTHER -> [attributes |-> 1, name |-> 320, slots |-> 560, names |-> 500]),
      header |-> [mz |-> TRUE, pe |-> TRUE, machine |-> IF defect = "machine" THEN "x" ELSE HostMachine,
                  size_of_optional |-> IF defect = "header" THEN 96 ELSE 240,
                  magic |-> IF defect = "pe32" THEN "PE32" ELSE "PE32+",
                  directories |-> [i \in 1..16 |-> CASE i = 2 -> 100
                                                     [] i = 14 /\ delay # "none" -> 700
                                                     [] OTHER -> 0]]]

PeModule(lib, named, thunks, delay, defect) ==
  LET Sym(s) == IF ~named THEN None
                ELSE PeNames[IF s = "ordinal" /\ lib = "ws2_32.dll" THEN "connect" ELSE s]
      standard == {Import(Sym(thunks[j]), lib, None, 65536 + 400 + 8 * (j - 1), "Standard", FALSE) :
                     j \in 1..Len(thunks)}
      delayed == IF delay \in {"rva", "mapped_va"}
                 THEN {Import(PeNames["name"], "delay.dll", None, 65536 + 560, "DelayLoad", FALSE)}
                 ELSE {}
  IN [format |-> "pe", image |-> PeImage(lib, named, thunks, delay, defect), sound |-> defect = "no",
      signed |-> {}, coarse |-> standard \cup delayed, listing |-> standard \cup delayed]

PeModules ==
  LET thunks == {<<"name">>, <<"name", "ordinal">>, <<"unknown", "name", "ordinal">>}
      delays == {"none", "rva", "va", "mapped_va", "outside"}
      defects == {"align", "end", "endless", "machine", "header", "pe32"}
  IN {PeModule(lib, n, t, d, "no") : lib \in {"kernel32.dll", "ws2_32.dll"}, n \in BOOLEAN,
                                     t \in thunks, d \in delays}
     \cup {PeModule("kernel32.dll", n, t, d, f) : n \in BOOLEAN, t \in thunks, d \in delays, f \in defects}

MCModules == MachOModules \cup ElfModules \cup PeModules
=============================================================================
