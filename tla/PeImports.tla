------------------------------ MODULE PeImports ------------------------------
(***************************************************************************)
(* plthook's PE import parser over a mapped image: the headers, the        *)
(* standard import directory, and the delay-load directory.                *)
(*                                                                         *)
(* An image is [base, size, header, descriptors, delayed, mem].  The last  *)
(* three map an RVA to the import descriptor [names, name, slots], to the  *)
(* delay descriptor [attributes, name, slots, names], and to the thunk     *)
(* [by_ordinal, value] or string there; bytes they do not list are zero.   *)
(* header is what the fixed-offset reads find, and its directories are the *)
(* RVAs of the data directory.                                             *)
(***************************************************************************)
EXTENDS RawImports

CONSTANTS HostMachine, MaxDescriptors, MaxThunks, Winsock
  \* Winsock: [ordinals -> names], winsock2_ordinal2name

THUNK_SIZE == 8
IMPORT_DESCRIPTOR_SIZE == 20
DELAY_DESCRIPTOR_SIZE == 32
DIRECTORY_ENTRY_IMPORT == 2         \* one-based
DIRECTORY_ENTRY_DELAY_IMPORT == 14

(* The types of what decides where a slot is; the base is page-aligned. *)
TypedImage(image) ==
  /\ {"base", "size", "header", "descriptors", "delayed", "mem"} \subseteq DOMAIN image
  /\ {"mz", "pe", "size_of_optional", "magic", "machine", "directories"} \subseteq DOMAIN image.header
  /\ image.base \in Nat /\ image.base % THUNK_SIZE = 0 /\ image.size \in Nat
  /\ \A a \in DOMAIN image.descriptors : image.descriptors[a].slots \in Nat
  /\ \A a \in DOMAIN image.delayed : image.delayed[a].slots \in Nat

ZeroThunk == [by_ordinal |-> FALSE, value |-> 0]

(* MappedImage::read: an entry of len bytes, zero where none is listed. *)
read(image, entries, rva, len, zero) ==
  IF rva + len > image.size THEN Malformed
  ELSE IF rva \in DOMAIN entries THEN entries[rva] ELSE zero

cstr(image, rva) == read(image, image.mem, rva, 1, "")

slot_address(image, rva) ==
  IF rva + THUNK_SIZE <= image.size /\ rva % THUNK_SIZE = 0 THEN image.base + rva ELSE Malformed

field_rva(image, field, uses_rva) ==
  CASE uses_rva -> field
    [] ~uses_rva /\ field >= image.base /\ field - image.base < image.size -> field - image.base
    [] OTHER -> Malformed

(* The import and delay directories, 0 where absent, or Malformed. *)
parse_headers(image) ==
  LET h == image.header
      Directory(index) == IF index \in DOMAIN h.directories THEN h.directories[index] ELSE 0
  IN IF /\ h.mz /\ h.pe /\ h.size_of_optional >= 112
        /\ h.magic = "PE32+" /\ h.machine = HostMachine
     THEN [import |-> Directory(DIRECTORY_ENTRY_IMPORT),
           delay |-> Directory(DIRECTORY_ENTRY_DELAY_IMPORT)]
     ELSE Malformed

(* Module::from_base; enumerate() skips an image that fails it. *)
from_base(image) == parse_headers(image) # Malformed

-----------------------------------------------------------------------------

(* The entries of a zero-terminated table, or Malformed when a read leaves *)
(* the image or the cap is reached before the terminator.                  *)
UpTo(entries, end) ==
  IF end = 0 THEN Malformed
  ELSE IF entries[end] = Malformed THEN Malformed ELSE SubSeq(entries, 1, end - 1)

UpToZero(entries, Zero(_)) ==
  UpTo(entries, SelectInSeq(entries, LAMBDA e : IF e = Malformed THEN TRUE ELSE Zero(e)))

Terminated(cap, Entry(_), Zero(_)) == UpToZero([i \in 1..cap |-> Entry(i - 1)], Zero)

Thunks(image, rva) ==
  Terminated(MaxThunks, LAMBDA j : read(image, image.mem, rva + j * THUNK_SIZE, THUNK_SIZE, ZeroThunk),
             LAMBDA t : t = ZeroThunk)

ThunkSymbol(image, library, thunk) ==
  LET known == library = "ws2_32.dll" /\ thunk.value \in DOMAIN Winsock
  IN CASE thunk.by_ordinal /\ known -> <<"Name", Winsock[thunk.value]>>
       [] thunk.by_ordinal /\ ~known -> <<"Ordinal", thunk.value>>
       [] ~thunk.by_ordinal -> Try(cstr(image, thunk.value + 2), LAMBDA name : <<"Name", name>>)

collect_thunks(image, names_rva, slots_rva, library, kind) ==
  LET One(thunk, j) ==
        Try(IF names_rva = 0 THEN None ELSE ThunkSymbol(image, library, thunk), LAMBDA symbol :
          PushAt(slot_address(image, slots_rva + (j - 1) * THUNK_SIZE), LAMBDA slot :
            RawImport(library, symbol, None, slot, kind, FALSE)))
  IN Try(Thunks(image, IF names_rva = 0 THEN slots_rva ELSE names_rva), LAMBDA thunks :
       Collect(Len(thunks), LAMBDA j : One(thunks[j], j)))

Descriptors(image, dir_rva) ==
  Terminated(MaxDescriptors,
    LAMBDA i : read(image, image.descriptors, dir_rva + i * IMPORT_DESCRIPTOR_SIZE,
                    IMPORT_DESCRIPTOR_SIZE, [names |-> 0, name |-> 0, slots |-> 0]),
    LAMBDA d : d.name = 0)

parse_standard(image, dir_rva) ==
  LET One(d) == IF d.slots = 0 THEN <<>>
                ELSE Try(cstr(image, d.name), LAMBDA library :
                       collect_thunks(image, d.names, d.slots, library, "Standard"))
  IN Try(Descriptors(image, dir_rva), LAMBDA table :
       Collect(Len(table), LAMBDA i : One(table[i])))

DelayDescriptors(image, dir_rva) ==
  Terminated(MaxDescriptors,
    LAMBDA i : read(image, image.delayed, dir_rva + i * DELAY_DESCRIPTOR_SIZE, 20,
                    [attributes |-> 0, name |-> 0, slots |-> 0, names |-> 0]),
    LAMBDA d : d.name = 0)

parse_delay(image, dir_rva) ==
  LET Field(d, f) == IF f = 0 THEN 0 ELSE field_rva(image, f, d.attributes % 2 = 1)
      One(d) == Try(cstr(image, d.name), LAMBDA library :
                  IF library = "" \/ d.slots = 0 THEN <<>>
                  ELSE Try(Field(d, d.names), LAMBDA names :
                       Try(Field(d, d.slots), LAMBDA slots :
                         collect_thunks(image, names, slots, library, "DelayLoad"))))
  IN Try(DelayDescriptors(image, dir_rva), LAMBDA table :
       Collect(Len(table), LAMBDA i : One(table[i])))

(* A delay directory that does not parse is left out. *)
OrNothing(listing) == IF listing = Malformed THEN <<>> ELSE listing

parse_imports(image) ==
  Try(parse_headers(image), LAMBDA dirs :
    Try(IF dirs.import = 0 THEN <<>> ELSE parse_standard(image, dirs.import), LAMBDA standard :
      standard \o (IF dirs.delay = 0 THEN <<>> ELSE OrNothing(parse_delay(image, dirs.delay)))))
=============================================================================
