---------------------------- MODULE ModuleImports ----------------------------
(***************************************************************************)
(* plthook's Module: a loaded image, acquired from the loader and asked    *)
(* for its import slots, over the three image formats.                     *)
(*                                                                         *)
(* A Mach-O module reads the chain encodings from its file on disk, on the *)
(* first enumeration that needs them, and keeps them: the file may have    *)
(* been removed or replaced between the load and that read.                *)
(***************************************************************************)
EXTENDS RawImports

CONSTANTS Modules,       \* the loaded modules
          OnDisk(_, _),  \* OnDisk(m, d): the container at the path of m, in disk state d
          DiskStates,    \* what may have become of the file; "original" is one
          Word, MaxChainSteps,
          MaxDyn, MaxRelocs, MaxVer,
          HostMachine, MaxDescriptors, MaxThunks, Winsock,
          Unread         \* a OnceLock not yet initialised, imports() not yet called

MachO == INSTANCE MachOImports
Elf == INSTANCE ElfImports
Pe == INSTANCE PeImports

ASSUME CapsAssumption ==
  /\ Word \in Nat \ {0}
  /\ {MaxChainSteps, MaxDyn, MaxRelocs, MaxVer, MaxDescriptors, MaxThunks} \subseteq Nat
  /\ "original" \in DiskStates

(* What the loader mapped, and what is on the disk, is of the types the    *)
(* parsers read; nothing else is assumed of the values.                    *)
ASSUME ModulesAssumption ==
  \A m \in Modules :
    /\ {"format", "image"} \subseteq DOMAIN m
    /\ \/ m.format = "macho" /\ MachO!TypedImage(m.image)
                            /\ \A d \in DiskStates : MachO!TypedContainer(OnDisk(m, d))
       \/ m.format = "elf" /\ Elf!TypedObject(m.image)
       \/ m.format = "pe" /\ Pe!TypedImage(m.image)

(* A OnceLock that holds a value is not one that is still to be set. *)
ASSUME UnreadAssumption ==
  /\ Unread # None
  /\ \A m \in Modules, d \in DiskStates :
       m.format = "macho" /\ OnDisk(m, d) # None =>
         \A i \in DOMAIN OnDisk(m, d).slices : OnDisk(m, d).slices[i].words # Unread

(* A module is [format, image, signed, listing, coarse, sound]: signed are *)
(* the slots the loader fills with signed pointers; for a sound image,     *)
(* listing is what the linker recorded, and coarse what remains of it when *)
(* the chain encodings are out of reach.                                   *)
VARIABLES module,        \* the module
          disk,          \* what has become of its file
          thin_slice,    \* Module.thin_slice: Unread, None, or the words of the slice
          imports        \* the last answer of Module::imports

vars == <<module, disk, thin_slice, imports>>

Init ==
  /\ module \in Modules
  /\ disk = "original"
  /\ thin_slice = Unread
  /\ imports = Unread

(* The acquisition of a module: from_index, from_raw or from_base. *)
Acquired(m) ==
  CASE m.format = "macho" -> MachO!from_index(m.image)
    [] m.format = "elf" -> Elf!from_raw(m.image)
    [] m.format = "pe" -> Pe!from_base(m.image)

(* Mutation: every call reads the file again. *)
ThinSliceUncached(m) ==
  MachO!load_thin_slice(OnDisk(m, disk), m.image.cpu, m.image.sub)

(* Module::thin_slice. *)
ThinSlice(m) ==
  IF thin_slice # Unread THEN thin_slice
  ELSE MachO!load_thin_slice(OnDisk(m, disk), m.image.cpu, m.image.sub)

(* Only parse_chained_fixups asks for the slice. *)
NeedsSlice(m) ==
  LET Chained(info) == info.chained # None /\ MachO!parse_indirect(m.image, info) # Malformed
  IN  m.format = "macho" /\ Acquired(m) /\ Chained(MachO!read_load_commands(m.image))

ParseImports(m) ==
  CASE m.format = "macho" -> MachO!parse_imports(m.image, ThinSlice(m))
    [] m.format = "elf" -> Elf!parse_imports(m.image)
    [] m.format = "pe" -> Pe!parse_imports(m.image)

(* Module::imports; a module that is not acquired has no imports to ask for. *)
Imports ==
  /\ imports' = IF Acquired(module) THEN ParseImports(module) ELSE Malformed
  /\ thin_slice' = IF NeedsSlice(module) THEN ThinSlice(module) ELSE thin_slice
  /\ UNCHANGED <<module, disk>>

(* The file is removed or replaced while the image stays mapped. *)
ReplaceFile ==
  /\ module.format = "macho"
  /\ disk' \in DiskStates \ {disk, "original"}
  /\ UNCHANGED <<module, thin_slice, imports>>

Next == Imports \/ ReplaceFile

Spec == Init /\ [][Next]_vars

-----------------------------------------------------------------------------
(* Properties. *)

Listed == IF imports \in {Unread, Malformed} THEN <<>> ELSE imports

Mapped(m) ==
  CASE m.format = "macho" ->
         LET info == MachO!read_load_commands(m.image)
         IN {[lo |-> s.vmaddr + m.image.slide, hi |-> s.vmaddr + m.image.slide + s.vmsize] :
               s \in ToSet(info.segments)}
    [] m.format = "elf" ->
         {[lo |-> s.vaddr + m.image.base, hi |-> s.vaddr + m.image.base + s.memsz] :
            s \in Elf!Loads(m.image)}
    [] m.format = "pe" -> {[lo |-> m.image.base, hi |-> m.image.base + m.image.size]}

(* Whatever the tables of an image say, and whatever has become of its     *)
(* file, every slot handed to install() is a pointer-aligned cell wholly   *)
(* inside the mapped image ("safe to pass to crate::install",              *)
(* Module::imports), and a Mach-O image lists no slot twice.               *)
SlotsPatchable ==
  /\ \A i \in DOMAIN Listed :
       /\ Listed[i].slot % 8 = 0
       /\ \E s \in Mapped(module) : s.lo <= Listed[i].slot /\ Listed[i].slot + 8 <= s.hi
  /\ module.format = "macho" =>
       \A i, j \in DOMAIN Listed : Listed[i].slot = Listed[j].slot => i = j

(* No slot that the loader fills with a signed pointer is offered for      *)
(* rebinding: the merge of the complement into the coarse arm64e flag      *)
(* (merge_complement) never clears the flag of such a slot.                *)
SignedRefused ==
  \A i \in DOMAIN Listed : Listed[i].slot \in module.signed => Listed[i].authenticated

(* The enumeration of a sound image is what the linker recorded, each slot *)
(* with its symbol, provider, version and authentication, however the      *)
(* tables encode it: bind opcodes, chains of every pointer format, biased  *)
(* and unbiased dynamic pointers, overlapping relocation tables, ordinals. *)
(* Without the file, the indirect table alone carries a chained image.     *)
ListsTheLinks ==
  module.sound /\ imports # Unread =>
    ToSet(Listed) = IF thin_slice = None THEN module.coarse ELSE module.listing

(* The primary table of the image, with no complement to refine it. *)
Stripped(m) ==
  CASE m.format = "macho" ->
         [m.image EXCEPT !.cmds = Filter(@, LAMBDA c :
            c.cmd \notin {"LC_DYLD_INFO", "LC_DYLD_CHAINED_FIXUPS"})]
    [] m.format = "elf" -> m.image
    [] m.format = "pe" ->
         [m.image EXCEPT !.header.directories =
            [i \in DOMAIN @ |-> IF i = Pe!DIRECTORY_ENTRY_DELAY_IMPORT THEN 0 ELSE @[i]]]

Bare(listing) == [i \in DOMAIN listing |->
                    [slot |-> listing[i].slot, symbol |-> listing[i].symbol,
                     library |-> listing[i].library]]

(* A complement (bind opcodes, chained fixups, the delay directory) only   *)
(* adds: whether it parses or not, the slots of the primary table are      *)
(* still listed, first, in order and with their own symbols (M3).          *)
PrimaryKept ==
  LET Kept(primary) == primary # Malformed => IsPrefix(Bare(primary), Bare(Listed))
  IN  imports # Unread /\ Acquired(module) =>
        Kept(ParseImports([module EXCEPT !.image = Stripped(module)]))

(* One Module answers every call of imports() alike, though the file may   *)
(* be removed or replaced between two calls: the slice is read once.  What *)
(* the file held at the first call is what is listed: nothing ties it to   *)
(* the image that was loaded.                                              *)
StableListing == [][imports # Unread => imports' = imports]_vars
=============================================================================
