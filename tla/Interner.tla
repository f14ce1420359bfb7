------------------------------ MODULE Interner ------------------------------
(***************************************************************************)
(* The string interner of crates/nailkov/src/interner.rs.  It copies every *)
(* new text into the String it is filling and keeps raw pointers to the    *)
(* copies, in `index` by token and in `collected` as the keys of a hash    *)
(* map.  A String that has no room left is stored and a larger one begun,  *)
(* because one that grew would move its bytes and leave the pointers into  *)
(* it dangling.                                                            *)
(*                                                                         *)
(* A String is its capacity, its length, the texts written to it and how   *)
(* often its bytes have moved; a pointer names a String, a text in it, and *)
(* how often the bytes had moved when it was made.                         *)
(***************************************************************************)
EXTENDS Naturals, Sequences, FiniteSets

CONSTANTS
  Texts,      \* the texts that may be interned
  SizeOf,     \* their lengths in bytes
  Powers,     \* the powers of two up to the largest allocation there can be
  Capacity,   \* the argument of with_capacity
  TokenSpan,  \* 2^32 in the code: the values of a Token
  Dangling    \* what reading through a dangling pointer yields: no text

ASSUME SizesAssumption   == SizeOf \in [Texts -> Nat] /\ Dangling \notin Texts
ASSUME PowersAssumption  ==
  /\ Powers \subseteq Nat \ {0}
  /\ \A p \in Powers : p = 1 \/ \E q \in Powers : p = 2 * q
ASSUME CapacityAssumption == Capacity \in Nat
ASSUME TokensAssumption  ==
  IsFiniteSet(Texts) /\ TokenSpan \in Nat \ {0} /\ Cardinality(Texts) <= TokenSpan

VARIABLES
  collected,  \* the hash map: the token of each pointer in it
  index,      \* the pointer of each token
  buffer,     \* the String that is being filled
  stored      \* the full ones

interner == <<collected, index, buffer, stored>>

Tokens  == 0 .. TokenSpan - 1
Strings == [cap : Nat, len : Nat, texts : Seq(Texts), moved : Nat]
StringPtrs == [string : Nat, nth : Nat, moved : Nat]

InternerTypeOK ==
  /\ index \in Seq(StringPtrs)
  /\ DOMAIN collected \subseteq StringPtrs
  /\ collected \in [DOMAIN collected -> Tokens]
  /\ buffer \in Strings
  /\ stored \in Seq(Strings)

NewString(cap) == [cap |-> cap, len |-> 0, texts |-> <<>>, moved |-> 0]

\* usize::next_power_of_two, as a set: it is empty where the allocation would
\* be larger than there can be, which aborts the program.
NextPowerOfTwo(n) == {p \in Powers : n <= p /\ \A q \in Powers : n <= q => p <= q}

InternerInit ==
  /\ collected = << >>
  /\ index = <<>>
  /\ \E cap \in NextPowerOfTwo(Capacity) : buffer = NewString(cap)
  /\ stored = <<>>

-----------------------------------------------------------------------------
AllStrings == Append(stored, buffer)

Live(p) ==
  /\ p.string \in DOMAIN AllStrings
  /\ p.moved = AllStrings[p.string].moved
  /\ p.nth \in DOMAIN AllStrings[p.string].texts

\* StringPtr::cast.
Read(p) == IF Live(p) THEN AllStrings[p.string].texts[p.nth] ELSE Dangling

\* The entries of `collected` that are equivalent to a text.
Known(text) == {p \in DOMAIN collected : Read(p) = text}

\* Slip: tokens are counted from one.
TokenFromOne(text) ==
  IF Known(text) = {} THEN (Len(index) + 1) % TokenSpan
  ELSE collected[CHOOSE p \in Known(text) : TRUE]

\* The token `intern` returns, which it finds or hands out.
TokenOf(text) ==
  IF Known(text) = {} THEN Len(index) % TokenSpan
  ELSE collected[CHOOSE p \in Known(text) : TRUE]

\* Slip: push_str past the capacity of a String is taken to be harmless.
HasRoomForOneMore(text) == buffer.len + SizeOf[text] <= buffer.cap + 1

HasRoom(text) == buffer.len + SizeOf[text] <= buffer.cap

\* The Strings that may be filled next: the next larger capacity leaves room
\* for the text, whatever its size.
Fillable(text) ==
  IF HasRoom(text) THEN {buffer}
  ELSE LET wanted == IF buffer.cap < SizeOf[text] THEN SizeOf[text] ELSE buffer.cap
       IN  {NewString(cap) : cap \in NextPowerOfTwo(wanted + 1)}

\* String::push_str: a String that is too small moves to where it fits.
PushStr(string, text) ==
  LET len  == string.len + SizeOf[text]
      fits == len <= string.cap
  IN  [cap   |-> IF fits THEN string.cap ELSE 2 * len,
       len   |-> len,
       texts |-> Append(string.texts, text),
       moved |-> IF fits THEN string.moved ELSE string.moved + 1]

\* alloc: the text is copied, and the String it was to go to stored if full.
Alloc(text) ==
  /\ \E string \in Fillable(text) : buffer' = PushStr(string, text)
  /\ stored' = IF HasRoom(text) THEN stored ELSE Append(stored, buffer)

\* &raw const self.buffer[start..], after the copy.
LastCopied ==
  [string |-> Len(stored) + 1, nth |-> Len(buffer.texts), moved |-> buffer.moved]

\* Slip: the text goes into the table, but not into the hash map.
InternUncollected(text) ==
  \/ Known(text) # {} /\ UNCHANGED interner
  \/ /\ Known(text) = {}
     /\ Alloc(text)
     /\ index' = Append(index, LastCopied')
     /\ UNCHANGED collected

Intern(text) ==
  \/ Known(text) # {} /\ UNCHANGED interner
  \/ /\ Known(text) = {}
     /\ Alloc(text)
     /\ index' = Append(index, LastCopied')
     /\ collected' = [p \in DOMAIN collected \cup {LastCopied'} |->
                        IF p = LastCopied' THEN TokenOf(text) ELSE collected[p]]

InternerSpec == InternerInit /\ [][\E text \in Texts : Intern(text)]_interner

-----------------------------------------------------------------------------
(***************************************************************************)
(* Properties.                                                             *)
(***************************************************************************)

\* The unsafe contract of StringPtr: every pointer the interner keeps points
\* to bytes that have not moved since, so a String never grows.
PointersStayValid ==
  /\ \A i \in DOMAIN index : Live(index[i])
  /\ \A p \in DOMAIN collected : Live(p)

\* What lookup reads for a token.
Lookup(token) == Read(index[token + 1])

\* A text has one token, lookup takes it back to the text, and every token
\* below Len(index) is in use: equal texts, and only they, share a token.
TokensNameTexts ==
  /\ \A text \in Texts : Known(text) # {} =>
       TokenOf(text) + 1 \in DOMAIN index /\ Lookup(TokenOf(text)) = text
  /\ \A i \in DOMAIN index : TokenOf(Read(index[i])) = i - 1

Table == INSTANCE TextTable WITH names <- [i \in DOMAIN index |-> Read(index[i])]

\* Whatever a token has been read as it is read as for ever, and the texts
\* that come to have tokens do so one at a time, in order and once.
ImplementsTextTable == Table!Spec
=============================================================================
