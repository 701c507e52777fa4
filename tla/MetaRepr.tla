------------------------------ MODULE MetaRepr ------------------------------
(***************************************************************************)
(* Structural reflection: meta::into_repr, from_repr, as_ref_repr and      *)
(* schema.  The representation of a type is a sum of products; its type is *)
(* computed three times, by the type checker (typeck/meta_repr.rs), by     *)
(* monomorphization (mono.rs) and by code generation                       *)
(* (codegen/expr/meta.rs), and the emitted C builds and reads values that  *)
(* have to be laid out the same way.                                       *)
(*                                                                         *)
(* A value is <<shape, type, content>>: a "leaf" has the place it comes    *)
(* from as content, "struct", "array" and "closure" the sequence of their  *)
(* components, "enum" its variant and payload.  A represented value is     *)
(* built from <<"HCons", head, tail>>, <<"HNil">>, <<"This", x>>,          *)
(* <<"Next", x>>, <<"Chunk", items>>, <<"Cat", left, right>>, <<"Nil">>    *)
(* and <<"addr", type, index>>, the address of a component of the source.  *)
(***************************************************************************)
EXTENDS Capability

CONSTANTS
    ChunkSize,       \* META_ARRAY_CHUNK_SIZE
    Budget,          \* META_ARRAY_EXPANSION_BUDGET
    MaxUsize,        \* usize::MAX
    Policies,        \* impls [iface, recv, bounded] of the message interfaces; a
                     \* bounded one asks the same of its parameters
    UnsafeStructs,   \* definitions of unsafe structs
    Visible,         \* definitions whose name the reflecting module can look up
    Reflected        \* the types that are reflected

VARIABLES source, op, inUnsafe, stage, checked, laid, emitted, value, repr, back

vars == <<source, op, inUnsafe, stage, checked, laid, emitted, value, repr, back>>

Unknown == Prim("unknown")
NoValue == <<"none">>

\* What a walk over a type finds: a type, or none and whether it said why.
Found(t) == [tys |-> <<t>>, diag |-> FALSE]
Lost(diag) == [tys |-> <<>>, diag |-> diag]

\* The first part without a type decides.
Combined(parts) ==
    IF \A i \in DOMAIN parts : parts[i].tys # <<>> THEN Found(Each(LAMBDA p : p.tys[1], parts))
    ELSE parts[CHOOSE i \in DOMAIN parts :
                 parts[i].tys = <<>> /\ \A j \in 1 .. i - 1 : parts[j].tys # <<>>]

Made(r, Make(_)) == IF r.tys = <<>> THEN r ELSE Found(Make(r.tys[1]))

(***************************************************************************)
(* Representation types (types.rs).                                        *)
(***************************************************************************)
Node(name, args) == Named(name, args)

ProductTy(head, ts) ==
    FoldRight(LAMBDA t, tail : Node("HCons", <<Node(head, t), tail>>), ts, Node("HNil", <<>>))

SumTy(borrowed, payloads) ==
    LET Variant(p) == IF borrowed THEN Node("VariantRef", <<ProductTy("PayloadRef", p)>>)
                      ELSE Node("Variant", <<ProductTy("Payload", p)>>)
    IN  FoldRight(LAMBDA p, tail : Node("Coproduct", <<Variant(p), tail>>), payloads, Node("CoNil", <<>>))

SchemaSumTy(payloads) ==
    ProductTy("VariantSchema", Each(LAMBDA p : <<ProductTy("PayloadSchema", p)>>, payloads))

CeilDiv(n, d) == (n + d - 1) \div d

ArraySplitLen(n) ==
    IF n <= ChunkSize THEN n
    ELSE LET left == (CeilDiv(n, ChunkSize) \div 2) * ChunkSize
         IN  Max({1, Min({left, n - 1})})

ChunkName(n) == "ArrayChunk" \o ToString(n)

RECURSIVE ArrayTreeTy(_, _)
ArrayTreeTy(n, item) ==
    CASE n = 0 -> Node("ArrayNil", <<>>)
      [] n \in 1 .. ChunkSize -> Node(ChunkName(n), <<item>>)
      [] OTHER -> LET split == ArraySplitLen(n)
                  IN  Node("ArrayCat", <<ArrayTreeTy(split, item), ArrayTreeTy(n - split, item)>>)

ConstPointerTo(t) == Pointer(FALSE, FALSE, t)

Elem(t) == Args(t)[1]

\* Nodes of the tree of an array; more than MaxUsize when usize overflows.
RECURSIVE ExpansionCost(_)
ExpansionCost(t) ==
    LET elem == IF Kind(Elem(t)) = "array" THEN ExpansionCost(Elem(t)) ELSE 1
        chunks == CeilDiv(Con(t), ChunkSize)
    IN  CASE elem > MaxUsize -> elem
          [] elem <= MaxUsize /\ Con(t) = 0 -> 1
          [] OTHER -> Con(t) * elem + chunks + (chunks - 1)

IsReprMarker(t) == Kind(t) = "named" /\ Con(t) \in ReprMarkers
IsOwnedMarker(t) == Kind(t) = "named" /\ Con(t) = "Repr"
IsSchemaMarker(t) == Kind(t) = "named" /\ Con(t) = "Schema"

IsAggregate(t) == Kind(t) = "named" /\ Con(t) \in DOMAIN Aggregates
IsStruct(t) == IsAggregate(t) /\ Aggregates[Con(t)].kind = "struct"
Fields(t) == Variants(t)[1]

\* A payload that takes no space is dropped when the enum is instantiated.
EnumPayloads(t) == Each(LAMBDA v : SelectSeq(v, LAMBDA p : ~IsErasedValue(p)), Variants(t))

\* Captures that take space, by their place in the environment.
CaptureFields(t) ==
    SelectSeq(<<>> \o [i \in DOMAIN Captures(t) |-> i], LAMBDA i : ~IsErasedValue(Captures(t)[i]))

CaptureTypes(t) == Each(LAMBDA i : Captures(t)[i], CaptureFields(t))

Reflectable(t) == IsAggregate(t) \/ Kind(t) \in {"array", "inst"}

\* The component types of a type, one group for each variant.
Shape(t) ==
    CASE Kind(t) = "array" -> IF Con(t) = 0 THEN <<<<>>>> ELSE <<Args(t)>>
      [] IsStruct(t) -> <<Fields(t)>>
      [] IsAggregate(t) /\ ~IsStruct(t) -> EnumPayloads(t)
      [] Kind(t) = "inst" -> <<CaptureTypes(t)>>

\* A slot for every component, if each one has one.
Slots(t, Of(_)) == Combined(Each(LAMBDA group : Combined(Each(Of, group)), Shape(t)))

ArrayTreeOver(t, slots) == ArrayTreeTy(Con(t), IF Con(t) = 0 THEN Unknown ELSE slots[1])

ReprOver(t, borrowed, slots) ==
    LET heads == Each(LAMBDA group : Each(LAMBDA slot : <<slot>>, group), slots)
    IN  CASE Kind(t) = "array" -> ArrayTreeOver(t, slots[1])
          [] IsAggregate(t) /\ ~IsStruct(t) -> SumTy(borrowed, heads)
          [] OTHER -> ProductTy(IF borrowed THEN "FieldRef" ELSE "Field", heads[1])

\* The slots of a schema are pairs of the source type and of the type it has
\* in the owned representation.
SchemaArrayOver(t, slots) == ArrayTreeOver(t, Each(LAMBDA slot : Node("ElementSchema", slot), slots))

SchemaOver(t, slots) ==
    CASE Kind(t) = "array" -> SchemaArrayOver(t, slots[1])
      [] IsAggregate(t) /\ ~IsStruct(t) -> SchemaSumTy(slots)
      [] OTHER -> ProductTy("FieldSchema", slots[1])

\* A borrowed slot is the component itself, the element of an array a pointer.
BorrowedSlot(t, c) == IF Kind(t) = "array" THEN ConstPointerTo(c) ELSE c

SchemaSlot(c, r) == Made(r, LAMBDA owned : <<c, owned>>)

(***************************************************************************)
(* Types with a message policy of their own stay whole inside an owned     *)
(* representation.  The impls that the type checker finds for a type are   *)
(* in the table that monomorphization and code generation search.          *)
(***************************************************************************)
RECURSIVE Implements(_, _)
Implements(iface, t) ==
    \E p \in Policies :
        /\ p.iface = iface
        /\ LET names == TyGenericNames(p.recv)
               m == UnifyTy(p.recv, t, InitialSubst(names))
           IN  m.ok /\ (p.bounded => \A x \in names : Implements(iface, m.s[x]))

\* The reflected type itself is opened, unless it may not leave its thread.
IsOwnedMetaPolicyLeaf(t, root) ==
    /\ Kind(t) = "named"
    /\ ~TypeIsAffine(t, {})
    /\ \E iface \in {"thread_local"} \cup IF t = root THEN {} ELSE {"share_handle", "clone_message"} :
          Implements(iface, t)

(***************************************************************************)
(* The walk of the type checker (strict) and of monomorphization, which    *)
(* checks neither the size of arrays nor the affinity of leaves.  `root`   *)
(* is the reflected type, Unknown under as_ref_repr.                       *)
(***************************************************************************)
RECURSIVE MetaReprTy(_, _, _, _, _), MetaReprOwnedLeafTy(_, _, _, _)

CheckMetaArrayBudget(strict, t) == Kind(t) = "array" /\ strict => ExpansionCost(t) <= Budget

\* Nothing is reported for an array whose cost overflows.
OverBudget(t) == Lost(ExpansionCost(t) <= MaxUsize)

Under(t, expanding) == IF Kind(t) = "named" THEN expanding \cup {t} ELSE expanding

MetaReprTy(strict, t, borrowed, root, expanding) ==
    LET Field(c) == IF borrowed THEN Found(BorrowedSlot(t, c))
                    ELSE MetaReprOwnedLeafTy(strict, c, root, Under(t, expanding))
    IN  IF IsReprMarker(t) THEN MetaReprTy(strict, Elem(t), Con(t) = "RefRepr", root, expanding)
        ELSE IF ~borrowed /\ IsOwnedMetaPolicyLeaf(t, root) THEN Found(t)
        ELSE IF t \in expanding \/ ~Reflectable(t) THEN Lost(TRUE)
        ELSE IF ~CheckMetaArrayBudget(strict, t) THEN OverBudget(t)
        ELSE Made(Slots(t, Field), LAMBDA slots : ReprOver(t, borrowed, slots))

MetaReprOwnedLeafTy(strict, t, root, expanding) ==
    IF strict /\ TypeIsAffine(t, {}) THEN Lost(TRUE)
    ELSE IF IsOwnedMetaPolicyLeaf(t, root) THEN Found(t)
    ELSE IF Kind(t) \in {"array", "named", "inst"} THEN MetaReprTy(strict, t, FALSE, root, expanding)
    ELSE Found(t)

RECURSIVE MetaSchemaTy(_, _, _, _)
MetaSchemaTy(strict, t, root, expanding) ==
    LET Field(c) == SchemaSlot(c, MetaReprOwnedLeafTy(strict, c, root, Under(t, expanding)))
    IN  IF IsSchemaMarker(t) THEN MetaSchemaTy(strict, Elem(t), root, expanding)
        ELSE IF t \in expanding \/ ~Reflectable(t) THEN Lost(TRUE)
        ELSE IF ~CheckMetaArrayBudget(strict, t) THEN OverBudget(t)
        ELSE Made(Slots(t, Field), LAMBDA slots : SchemaOver(t, slots))

(***************************************************************************)
(* What may be reflected (meta_repr_safety.rs).  Outside of unsafe code no *)
(* unsafe struct is opened; a borrowed representation opens one level.     *)
(***************************************************************************)
RECURSIVE MetaStructuralReprUnsafeStruct(_, _, _, _), MetaOwnedLeafUnsafeStruct(_, _, _)

MetaStructuralReprUnsafeStruct(t, borrowed, root, expanding) ==
    LET Within(ts, seen) == \E c \in ToSet(ts) : MetaOwnedLeafUnsafeStruct(c, root, seen)
    IN  CASE Kind(t) = "array" -> ~borrowed /\ Within(Args(t), expanding)
          [] IsReprMarker(t) -> MetaStructuralReprUnsafeStruct(Elem(t), Con(t) = "RefRepr", root, expanding)
          [] Kind(t) = "named" /\ ~IsReprMarker(t) ->
                /\ borrowed \/ ~IsOwnedMetaPolicyLeaf(t, root)
                /\ \/ Con(t) \in UnsafeStructs
                   \/ /\ ~borrowed /\ t \notin expanding /\ IsAggregate(t)
                      /\ Within(FlattenSeq(Variants(t)), expanding \cup {t})
          [] Kind(t) = "inst" -> ~borrowed /\ Within(CaptureTypes(t), expanding)
          [] OTHER -> FALSE

\* A slip: elements of arrays are not looked at.
MetaOwnedLeafUnsafeShallow(t, root, expanding) ==
    /\ ~IsOwnedMetaPolicyLeaf(t, root)
    /\ Kind(t) # "array" /\ MetaStructuralReprUnsafeStruct(t, FALSE, root, expanding)

MetaOwnedLeafUnsafeStruct(t, root, expanding) ==
    /\ ~IsOwnedMetaPolicyLeaf(t, root)
    /\ IF Kind(t) = "array" THEN MetaOwnedLeafUnsafeStruct(Elem(t), root, expanding)
       ELSE MetaStructuralReprUnsafeStruct(t, FALSE, root, expanding)

RECURSIVE SourceVisible(_)
SourceVisible(t) ==
    CASE Kind(t) = "named" -> Con(t) \in Visible
      [] Kind(t) = "future" -> SourceVisible(Args(t)[1])
      [] Kind(t) = "opaque" -> TRUE
      [] OTHER -> \A c \in ToSet(Args(t)) : SourceVisible(c)

\* as_ref_repr has no root to keep open.
Root == IF op = "ref" THEN Unknown ELSE source

Guarded ==
    op = "schema" \/ inUnsafe \/ ~MetaStructuralReprUnsafeStruct(source, op = "ref", Root, {})

(***************************************************************************)
(* Representation types once more, by code generation.                     *)
(***************************************************************************)
RECURSIVE MetaOwnedLeafReprTy(_, _)
MetaOwnedLeafReprTy(t, root) ==
    LET Field(c) == MetaOwnedLeafReprTy(c, root)
    IN  IF TypeIsAffine(t, {}) THEN Lost(TRUE)
        ELSE IF IsOwnedMarker(t) THEN MetaOwnedLeafReprTy(Elem(t), root)
        ELSE IF IsOwnedMetaPolicyLeaf(t, root) THEN Found(t)
        ELSE IF Reflectable(t) THEN Made(Slots(t, Field), LAMBDA slots : ReprOver(t, FALSE, slots))
        ELSE IF Kind(t) = "named" THEN Lost(TRUE) ELSE Found(t)

MetaBorrowedReprTy(t) ==
    LET Field(c) == Found(BorrowedSlot(t, c))
    IN  IF Reflectable(t) THEN Made(Slots(t, Field), LAMBDA slots : ReprOver(t, TRUE, slots))
        ELSE IF Kind(t) = "named" THEN Lost(TRUE) ELSE Found(t)

\* A Schema marker is opened, and what it marks becomes the root.
RECURSIVE MetaSchemaExprTy(_)
MetaSchemaExprTy(t) ==
    LET Field(c) == SchemaSlot(c, MetaOwnedLeafReprTy(c, t))
    IN  IF IsSchemaMarker(t) THEN MetaSchemaExprTy(Elem(t))
        ELSE IF Reflectable(t) THEN Made(Slots(t, Field), LAMBDA slots : SchemaOver(t, slots)) ELSE Lost(TRUE)

(***************************************************************************)
(* The emitted C.  Building an owned representation of a value...          *)
(***************************************************************************)
ProductValue(xs) == FoldRight(LAMBDA x, tail : <<"HCons", x, tail>>, xs, <<"HNil">>)

\* .tag = 1 for every variant before the active one, then .tag = 0.
RECURSIVE SumBranch(_, _)
SumBranch(active, payload) ==
    IF active = 1 THEN <<"This", payload>> ELSE <<"Next", SumBranch(active - 1, payload)>>

\* A slip: an array is cut in the middle, whatever the size of a chunk.
RECURSIVE ArrayReprHalved(_)
ArrayReprHalved(items) ==
    CASE items = <<>> -> <<"Nil">>
      [] Len(items) \in 1 .. ChunkSize -> <<"Chunk", items>>
      [] OTHER -> LET split == Len(items) \div 2
                  IN  <<"Cat", ArrayReprHalved(SubSeq(items, 1, split)),
                        ArrayReprHalved(SubSeq(items, split + 1, Len(items)))>>

RECURSIVE ArrayReprLiteral(_)
ArrayReprLiteral(items) ==
    CASE items = <<>> -> <<"Nil">>
      [] Len(items) \in 1 .. ChunkSize -> <<"Chunk", items>>
      [] OTHER -> LET split == ArraySplitLen(Len(items))
                  IN  <<"Cat", ArrayReprLiteral(SubSeq(items, 1, split)),
                        ArrayReprLiteral(SubSeq(items, split + 1, Len(items)))>>

RECURSIVE OwnedLeafReprExpr(_, _, _)

OwnedProduct(ts, vs, root) ==
    ProductValue(<<>> \o [i \in DOMAIN ts |-> OwnedLeafReprExpr(ts[i], vs[i], root)])

EnumOwnedRepr(t, variant, payload, root) ==
    SumBranch(variant, OwnedProduct(EnumPayloads(t)[variant], payload, root))

ClosureOwnedRepr(t, captures, root) ==
    OwnedProduct(CaptureTypes(t), Each(LAMBDA i : captures[i], CaptureFields(t)), root)

OwnedLeafReprExpr(t, v, root) ==
    IF IsOwnedMarker(t) \/ IsOwnedMetaPolicyLeaf(t, root) THEN v
    ELSE CASE Kind(t) = "array" ->
                ArrayReprLiteral(Each(LAMBDA x : OwnedLeafReprExpr(Elem(t), x, root), v[3]))
           [] IsStruct(t) -> OwnedProduct(Fields(t), v[3], root)
           [] IsAggregate(t) /\ ~IsStruct(t) -> EnumOwnedRepr(t, v[3][1], v[3][2], root)
           [] Kind(t) = "inst" -> ClosureOwnedRepr(t, v[3], root)
           [] OTHER -> v

\* ...reading one back...
RECURSIVE ArrayReprItem(_, _, _)
ArrayReprItem(n, r, i) ==
    LET split == ArraySplitLen(n)
    IN  CASE n <= ChunkSize -> r[2][i]
          [] n > ChunkSize /\ i <= split -> ArrayReprItem(split, r[2], i)
          [] OTHER -> ArrayReprItem(n - split, r[3], i - split)

\* .tail i - 1 times, then .head.value
RECURSIVE Slot(_, _)
Slot(r, i) == IF i = 1 THEN r[2] ELSE Slot(r[3], i - 1)

\* What takes no space is neither stored nor read.
RECURSIVE Erased(_)
Erased(t) ==
    IF Kind(t) = "array" THEN <<"array", t, <<>> \o [i \in 1 .. Con(t) |-> Erased(Elem(t))]>>
    ELSE <<"unit", t, <<>>>>

Position(x, s) == CHOOSE i \in DOMAIN s : s[i] = x

RECURSIVE ValueFromRepr(_, _, _), EnumFromRepr(_, _, _, _)

PartsFromRepr(ts, r, root) ==
    <<>> \o [i \in DOMAIN ts |-> IF IsErasedValue(ts[i]) THEN Erased(ts[i])
                                 ELSE ValueFromRepr(ts[i], Slot(r, i), root)]

\* The chain of tags; NoValue where the emitted code panics.
EnumFromRepr(t, offset, r, root) ==
    CASE offset > Len(EnumPayloads(t)) -> NoValue
      [] offset <= Len(EnumPayloads(t)) /\ r[1] = "This" ->
            <<"enum", t, <<offset, PartsFromRepr(EnumPayloads(t)[offset], r[2], root)>>>>
      [] OTHER -> EnumFromRepr(t, offset + 1, r[2], root)

ArrayFromRepr(t, r, root) ==
    <<"array", t, <<>> \o [i \in 1 .. Con(t) |->
        IF IsErasedValue(Elem(t)) THEN Erased(Elem(t))
        ELSE ValueFromRepr(Elem(t), ArrayReprItem(Con(t), r, i), root)]>>

ClosureFromRepr(t, r, root) ==
    <<"closure", t, <<>> \o [i \in DOMAIN Captures(t) |->
        IF IsErasedValue(Captures(t)[i]) THEN Erased(Captures(t)[i])
        ELSE ValueFromRepr(Captures(t)[i], Slot(r, Position(i, CaptureFields(t))), root)]>>

ValueFromRepr(t, r, root) ==
    IF IsOwnedMarker(t) \/ IsOwnedMetaPolicyLeaf(t, root) THEN r
    ELSE CASE Kind(t) = "array" -> ArrayFromRepr(t, r, root)
           [] IsStruct(t) -> <<"struct", t, PartsFromRepr(Fields(t), r, root)>>
           [] IsAggregate(t) /\ ~IsStruct(t) -> EnumFromRepr(t, 1, r, root)
           [] Kind(t) = "inst" -> ClosureFromRepr(t, r, root)
           [] OTHER -> r

\* ...and the borrowed one, addresses of the components.
Address(t, i) == <<"addr", t, i>>

RECURSIVE ArrayRefReprLiteral(_, _, _)
ArrayRefReprLiteral(n, t, base) ==
    CASE n = 0 -> <<"Nil">>
      [] n \in 1 .. ChunkSize -> <<"Chunk", <<>> \o [i \in 1 .. n |-> Address(t, base + i)]>>
      [] OTHER -> LET split == ArraySplitLen(n)
                  IN  <<"Cat", ArrayRefReprLiteral(split, t, base),
                        ArrayRefReprLiteral(n - split, t, base + split)>>

\* A slip: captures counted without the erased ones.
AddressesPacked(ts, places) == ProductValue(<<>> \o [j \in DOMAIN places |-> Address(ts[places[j]], j)])

AddressesOf(ts, places) == ProductValue(<<>> \o [j \in DOMAIN places |-> Address(ts[places[j]], places[j])])

Places(ts) == <<>> \o [i \in DOMAIN ts |-> i]

EnumRefRepr(t, variant) ==
    SumBranch(variant, AddressesOf(EnumPayloads(t)[variant], Places(EnumPayloads(t)[variant])))

ClosureRefRepr(t) == AddressesOf(Captures(t), CaptureFields(t))

AsRefReprExpr(t, v) ==
    CASE Kind(t) = "array" -> ArrayRefReprLiteral(Con(t), Elem(t), 0)
      [] IsStruct(t) -> AddressesOf(Fields(t), Places(Fields(t)))
      [] IsAggregate(t) /\ ~IsStruct(t) -> EnumRefRepr(t, v[3][1])
      [] Kind(t) = "inst" -> ClosureRefRepr(t)

(***************************************************************************)
(* The values of a type; every leaf is told apart by its place.            *)
(***************************************************************************)
SequencesOver(sets) ==
    FoldLeft(LAMBDA seqs, S : {Append(seq, x) : seq \in seqs, x \in S}, {<<>>}, sets)

RECURSIVE ValuesOf(_, _)
ValuesOf(t, place) ==
    LET Parts(ts) == SequencesOver(<<>> \o [i \in DOMAIN ts |-> ValuesOf(ts[i], Append(place, i))])
    IN  CASE IsErasedValue(t) -> {Erased(t)}
          [] Kind(t) = "array" /\ ~IsErasedValue(t) ->
                {<<"array", t, xs>> : xs \in Parts([i \in 1 .. Con(t) |-> Elem(t)])}
          [] IsOwnedMarker(t) -> {OwnedLeafReprExpr(Elem(t), v, Elem(t)) : v \in ValuesOf(Elem(t), place)}
          [] IsStruct(t) -> {<<"struct", t, xs>> : xs \in Parts(Fields(t))}
          [] IsAggregate(t) /\ ~IsStruct(t) ->
                UNION {{<<"enum", t, <<i, xs>>>> : xs \in Parts(EnumPayloads(t)[i])} : i \in DOMAIN EnumPayloads(t)}
          [] Kind(t) = "inst" -> {<<"closure", t, xs>> : xs \in Parts(Captures(t))}
          [] OTHER -> {<<"leaf", t, place>>}

(***************************************************************************)
(* A program that reflects `source`: into_repr and from_repr on its result *)
(* ("into"), as_ref_repr ("ref") or schema.                                *)
(***************************************************************************)
Init ==
    /\ source \in Reflected
    /\ op \in {"into", "ref", "schema"}
    /\ inUnsafe \in BOOLEAN
    /\ stage = "parsed"
    /\ checked = Unknown /\ laid = Unknown /\ emitted = Unknown
    /\ value = NoValue /\ repr = NoValue /\ back = NoValue

Checked(r, refused) ==
    /\ stage' = IF refused \/ r.diag THEN "rejected" ELSE "checked"
    /\ checked' = IF r.tys = <<>> THEN Unknown ELSE r.tys[1]
    /\ UNCHANGED <<source, op, inUnsafe, laid, emitted, value, repr, back>>

\* The reasons to refuse a call besides its type.
AffineSource == TypeIsAffine(source, {})
IntoRefused == AffineSource
FromRefused == AffineSource
ErasedFields == IsStruct(source) /\ \E f \in ToSet(Fields(source)) : IsErasedValue(f)
SchemaRefused == ~SourceVisible(source) \/ AffineSource

Refused ==
    CASE op = "into" -> IntoRefused \/ FromRefused
      [] op = "ref" -> ErasedFields
      [] op = "schema" -> SchemaRefused

CallTy ==
    IF op = "schema" THEN MetaSchemaTy(TRUE, source, source, {})
    ELSE MetaReprTy(TRUE, source, op = "ref", Root, {})

CheckMetaReprCall ==
    /\ stage = "parsed"
    /\ Checked(CallTy, Refused \/ ~Guarded)

\* A type that holds itself by value has no layout.
RECURSIVE HasLayout(_, _)
HasLayout(t, holders) ==
    LET All(ts, under) == \A c \in ToSet(ts) : HasLayout(c, under)
    IN  CASE Kind(t) = "array" -> All(Args(t), holders)
          [] Kind(t) = "inst" -> All(Captures(t), holders)
          [] IsAggregate(t) -> t \notin holders /\ All(FlattenSeq(Variants(t)), holders \cup {t})
          [] OTHER -> TRUE

Collected(r, refused) ==
    /\ stage' = CASE ~HasLayout(source, {}) -> "rejected"
                  [] HasLayout(source, {}) /\ (refused \/ r.diag) -> "late error"
                  [] OTHER -> "collected"
    /\ laid' = IF r.tys = <<>> THEN Unknown ELSE r.tys[1]
    /\ UNCHANGED <<source, op, inUnsafe, checked, emitted, value, repr, back>>

\* The types of the call are collected again for the layouts.
CollectedReprTy == MetaReprTy(FALSE, source, op = "ref", Root, {})
CollectedSchemaTy == MetaSchemaTy(FALSE, source, source, {})

CollectMetaReprCall ==
    /\ stage = "checked"
    /\ Collected(IF op = "schema" THEN CollectedSchemaTy ELSE CollectedReprTy,
                 (op = "into" /\ AffineSource) \/ ~Guarded)

\* The type of the emitted expression; none is an internal error.
EmittedTy ==
    CASE op = "into" -> MetaOwnedLeafReprTy(source, source)
      [] op = "ref" -> MetaBorrowedReprTy(source)
      [] op = "schema" -> MetaSchemaExprTy(source)

Emitted(r) ==
    /\ stage' = IF r.tys = <<>> THEN "internal error" ELSE IF op = "schema" THEN "done" ELSE "emitted"
    /\ emitted' = IF r.tys = <<>> THEN Unknown ELSE r.tys[1]
    /\ UNCHANGED <<source, op, inUnsafe, checked, laid, value, repr, back>>

Emit == stage = "collected" /\ Emitted(EmittedTy)

\* The emitted program runs on any value of the type.
RunInto ==
    /\ stage = "emitted" /\ op = "into"
    /\ value' \in ValuesOf(source, <<>>)
    /\ repr' = OwnedLeafReprExpr(source, value', source)
    /\ stage' = "represented"
    /\ UNCHANGED <<source, op, inUnsafe, checked, laid, emitted, back>>

RunFrom ==
    /\ stage = "represented"
    /\ back' = ValueFromRepr(source, repr, source)
    /\ stage' = "done"
    /\ UNCHANGED <<source, op, inUnsafe, checked, laid, emitted, value, repr>>

RunRef ==
    /\ stage = "emitted" /\ op = "ref"
    /\ value' \in ValuesOf(source, <<>>)
    /\ repr' = AsRefReprExpr(source, value')
    /\ stage' = "done"
    /\ UNCHANGED <<source, op, inUnsafe, checked, laid, emitted, back>>

Next ==
    \/ CheckMetaReprCall
    \/ CollectMetaReprCall
    \/ Emit
    \/ RunInto \/ RunFrom \/ RunRef

Spec == Init /\ [][Next]_vars
-----------------------------------------------------------------------------
Wrappers == {"Field", "Payload", "Variant", "VariantRef"}
References == {"FieldRef", "PayloadRef"}

\* A reference for layouts: the represented value `r` has the type `t`.
RECURSIVE HasType(_, _)
HasType(r, t) ==
    LET Is(name) == Kind(t) = "named" /\ Con(t) = name
        Both == HasType(r[2], Args(t)[1]) /\ HasType(r[3], Args(t)[2])
        Untagged ==
            CASE r[1] = "HNil" -> Is("HNil")
              [] r[1] = "HCons" -> Is("HCons") /\ Both
              [] r[1] = "This" -> Is("Coproduct") /\ HasType(r[2], Args(t)[1])
              [] r[1] = "Next" -> Is("Coproduct") /\ HasType(r[2], Args(t)[2])
              [] r[1] = "Nil" -> Is("ArrayNil")
              [] r[1] = "Chunk" -> Is(ChunkName(Len(r[2]))) /\ \A x \in ToSet(r[2]) : HasType(x, Elem(t))
              [] r[1] = "Cat" -> Is("ArrayCat") /\ Both
              [] r[1] = "addr" -> t = ConstPointerTo(r[2]) \/ \E n \in References : t = Node(n, <<r[2]>>)
              [] OTHER -> r[2] = t
    IN  IF \E n \in Wrappers : Is(n) THEN HasType(r, Elem(t)) ELSE Untagged

\* A reflection that the type checker accepts is compiled: monomorphization
\* and code generation arrive at the type the checker computed, and the value
\* that the emitted code builds is laid out as that type says.
ReprAgrees ==
    /\ stage \notin {"late error", "internal error"}
    /\ stage \notin {"parsed", "checked", "rejected"} => laid = checked
    /\ stage \in {"emitted", "represented", "done"} => emitted = laid
    /\ repr # NoValue => HasType(repr, laid)

RECURSIVE PartsOf(_)
PartsOf(r) ==
    CASE r[1] = "HCons" -> <<r[2]>> \o PartsOf(r[3])
      [] r[1] \in {"This", "Next"} -> PartsOf(r[2])
      [] r[1] = "Chunk" -> r[2]
      [] r[1] = "Cat" -> PartsOf(r[2]) \o PartsOf(r[3])
      [] OTHER -> <<>>

RECURSIVE ActiveVariant(_)
ActiveVariant(r) == IF r[1] = "This" THEN 1 ELSE 1 + ActiveVariant(r[2])

Components(v) == IF v[1] = "enum" THEN v[3][2] ELSE v[3]

\* from_repr undoes into_repr, and the addresses of as_ref_repr are those of
\* the components of the value that take space, in order and each once, under
\* the active variant.
RoundTrip ==
    stage = "done" =>
        /\ op = "into" => back = value
        /\ op = "ref" =>
            /\ Each(LAMBDA a : Components(value)[a[3]], PartsOf(repr))
                 = SelectSeq(Components(value), LAMBDA x : ~IsErasedValue(x[2]))
            /\ value[1] = "enum" => ActiveVariant(repr) = value[3][1]

Native == {"leaf", "struct", "enum", "array", "closure", "unit"}

\* The source values that are whole inside a represented value, and the
\* values inside a value.
RECURSIVE Leaves(_), Inside(_)
Leaves(r) ==
    IF r[1] \in Native THEN {r} ELSE UNION {Leaves(x) : x \in ToSet(PartsOf(r))}
Inside(v) ==
    CASE v[1] \in {"struct", "enum", "array", "closure"} ->
            {v} \cup UNION {Inside(x) : x \in ToSet(Components(v))}
      [] v[1] \in {"leaf", "unit"} -> {v}
      [] OTHER -> {}

Opened(v, r) == Inside(v) \ UNION {Inside(x) : x \in Leaves(r)}

\* Without `unsafe` no reflection takes an unsafe struct apart, and no owned
\* representation copies a resource or something that holds one.
ReflectionGuarded ==
    repr # NoValue =>
        /\ op = "into" => \A x \in Inside(value) : ~TypeIsAffine(x[2], {})
        /\ ~inUnsafe =>
            \A x \in IF op = "ref" THEN {value} ELSE Opened(value, repr) :
                x[1] = "struct" => Con(x[2]) \notin UnsafeStructs
=============================================================================
