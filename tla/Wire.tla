-------------------------------- MODULE Wire --------------------------------
(***************************************************************************)
(* A message on its way: its sender builds it field by field, the receiver *)
(* verifies the bytes and reads them, and the server answers a client's    *)
(* message with one of its own, which the other clients read in turn.      *)
(*                                                                         *)
(* The bytes are Protocol's and FlatBuffers'; the answers are the relaying *)
(* and replying cases of Session::BroadcastGameplayState for a session     *)
(* that is visible and in a room, with what the room or the database       *)
(* decides left open.                                                      *)
(***************************************************************************)
EXTENDS Protocol, HitDetection

CONSTANTS
    Messages,      \* the payloads the instance sends
    Id,            \* id_ of the session whose message is handled
    Position,      \* its position_ and look_ as it last reported them
    Look,
    Name,          \* the text of a non-empty string
    Origins,       \* the shots clients fire,
    Directions,
    Others         \* and the other players in the room: [pos, facing] of each id

ASSUME MessagesAssumption == Messages \subseteq PayloadNames

VARIABLES
    phase,    \* "idle", "objects", "fields", "received" or "answered"
    msg,      \* the payload being sent
    todo,     \* the slots its sender has still to deal with
    sent,     \* the values it has given the fields so far
    offs,     \* the offsets of the objects it has made
    fbb,      \* its FlatBufferBuilder
    reply     \* the server's finished answer

vars == <<phase, msg, todo, sent, offs, fbb, reply>>

Init ==
    /\ phase = "idle"
    /\ msg = "NONE"
    /\ todo = <<>>
    /\ sent = <<>>
    /\ offs = <<>>
    /\ fbb = NewBuilder
    /\ reply = NewBuilder

Fields == TableOf(msg)

(***************************************************************************)
(* What a sender may put into a field: its default, something else that no *)
(* other field of the table holds, or every value of a bool or an enum;    *)
(* for a pointer also null; for a list entries that are alike and entries  *)
(* that leave fields out, all of them or the structs.                      *)
(***************************************************************************)
NamesIn(U) == {U[id].name : id \in DOMAIN U}

SlotOf(U, n) == CHOOSE id \in DOMAIN U : U[id].name = n

Other(f, id) ==
    CASE f.kind = "scalar" -> IF f.values = {} THEN 10 + id ELSE Max(f.values)
      [] f.kind = "struct" -> Present([w \in 1 .. f.words |-> 10 * id + w])
      [] f.kind = "string" -> Present(Name)

Bare(U) == [n \in NamesIn(U) |-> LET f == U[SlotOf(U, n)]
                                 IN  IF f.kind = "scalar" THEN f.default ELSE Absent]

Full(U) == [n \in NamesIn(U) |-> Other(U[SlotOf(U, n)], SlotOf(U, n))]

Unplaced(U) == [n \in NamesIn(U) |-> LET f == U[SlotOf(U, n)]
                                    IN  IF f.kind = "struct" THEN Absent ELSE Full(U)[n]]

Entries(U) == {Bare(U), Unplaced(U), Full(U)}

Lists(U) == {<<>>, <<Full(U), Bare(U), Unplaced(U)>>}

Values(f, id) ==
    CASE f.kind = "scalar" -> f.values \cup {f.default, Other(f, id)}
      [] f.kind = "struct" -> {Absent} \cup
             CASE f.name = "origin"    -> {Present(O) : O \in Origins}
               [] f.name = "direction" -> {Present(D) : D \in Directions}
               [] OTHER                -> {Other(f, id)}
      [] f.kind = "string" -> {Absent, Present(<<>>), Present(Name)}
      [] f.kind = "table"  -> {Absent} \cup {Present(e) : e \in Entries(f.of)}
      [] f.kind = "vector" -> {Absent} \cup {Present(es) : es \in Lists(f.of)}

(***************************************************************************)
(* The sender.                                                             *)
(***************************************************************************)
Begin ==
    /\ phase = "idle"
    /\ phase' = "objects"
    /\ msg' \in Messages
    /\ todo' = SelectSeq([id \in DOMAIN TableOf(msg') |-> id],
                         LAMBDA id : IsPointer(TableOf(msg')[id]))
    /\ UNCHANGED <<sent, offs, fbb, reply>>

\* Gives the field at the head of todo the value v.
Set(v) ==
    /\ sent' = (Fields[Head(todo)].name :> v) @@ sent
    /\ todo' = Tail(todo)

\* The next string, list or inner table, ahead of the table that refers to it.
MakeObject ==
    /\ phase = "objects"
    /\ todo # <<>>
    /\ LET id == Head(todo)
       IN  \E v \in Values(Fields[id], id) :
              /\ Set(v)
              /\ fbb' = IF v = Absent THEN fbb ELSE CreateObject(fbb, Fields[id], v[1])
              /\ offs' = (id :> IF v = Absent THEN 0 ELSE fbb'.last) @@ offs
    /\ UNCHANGED <<phase, msg, reply>>

OpenTable ==
    /\ phase = "objects"
    /\ todo = <<>>
    /\ phase' = "fields"
    /\ todo' = CreateOrder(Fields)
    /\ fbb' = StartTable(fbb)
    /\ UNCHANGED <<msg, sent, offs, reply>>

AddPointer ==
    /\ phase = "fields"
    /\ todo # <<>>
    /\ LET id == Head(todo)
       IN  /\ IsPointer(Fields[id])
           /\ fbb' = AddField(fbb, Fields, id, Absent, offs[id])
    /\ todo' = Tail(todo)
    /\ UNCHANGED <<phase, msg, sent, offs, reply>>

AddValue ==
    /\ phase = "fields"
    /\ todo # <<>>
    /\ LET id == Head(todo)
       IN  /\ ~IsPointer(Fields[id])
           /\ \E v \in Values(Fields[id], id) :
                 /\ Set(v)
                 /\ fbb' = AddField(fbb, Fields, id, v, 0)
    /\ UNCHANGED <<phase, msg, offs, reply>>

\* Finishes the table, wraps it into a packet and sends that.
Finish ==
    /\ phase = "fields"
    /\ todo = <<>>
    /\ phase' = "received"
    /\ LET b == EndTable(fbb) IN fbb' = CreatePacket(b, msg, b.last)
    /\ UNCHANGED <<msg, todo, sent, offs, reply>>

(***************************************************************************)
(* The server: v is what it reads of the message, an answer is             *)
(* [name, fields].                                                         *)
(***************************************************************************)
Zeros == <<0, 0, 0>>

OrZeros(struct) == IF struct = Absent THEN Present(Zeros) ELSE struct

\* The entries of a list that have an item id; a list that is null is empty.
Identified(items) ==
    IF items = Absent THEN <<>> ELSE SelectSeq(items[1], LAMBDA e : e.item_id # Absent)

Placed(entry) == [entry EXCEPT !.position = OrZeros(@)]

PlacedAll(entries) == [i \in DOMAIN entries |-> Placed(entries[i])]

Answer(n, fields) == {[name |-> n, fields |-> fields]}

OnMoveInput(v) ==
    Answer("S2C_MoveState",
        [player_id |-> Id, server_tick |-> 0,
         position |-> IF v.position = Absent THEN Present(Position) ELSE v.position,
         velocity |-> Present(Zeros),
         look |-> IF v.look = Absent THEN Present(Look) ELSE v.look,
         flags |-> v.flags,
         ack_client_seq |-> IF v.header = Absent THEN 0 ELSE v.header[1][1]])

\* What the database hands over of a table: nothing, or rows; an item id is a
\* string, maybe an empty one. A SELECT that fails leaves what it has fetched.
Loaded(U) == {<<>>, <<[Bare(U) EXCEPT !.item_id = Present(<<>>)], Full(U)>>}

LoadInventory == Loaded(InventoryItemEntry)
LoadEquipment == Loaded(EquipmentItemEntry)
LoadQuickSlots == Loaded(QuickSlotItemEntry)
LoadStash == Loaded(InventoryItemEntry)

\* Whether there is progress, and the weapon worn then: the saved one, or,
\* where nothing is saved, whatever the connection wore before it logged in.
LoadProgress == {0, 1} \X {0, 3}

\* The session's player, with what is saved of the account, if it has one; the
\* four tables are read one by one, and each on its own may have nothing.
FinishAuthenticatedLogin ==
    UNION {Answer("S2C_LoginSuccess",
               [player_id |-> Id, position |-> Present(Position), look |-> Present(Look),
                weapon_type |-> saved[2], has_saved_progress |-> saved[1],
                inventory |-> Present(inventory), equipment |-> Present(equipment),
                quick_slots |-> Present(quickSlots)]) :
           saved \in LoadProgress, inventory \in LoadInventory,
           equipment \in LoadEquipment, quickSlots \in LoadQuickSlots}

\* Credentials that a database refuses are answered with a reason; everything
\* else is let in.
OnLogin(v) ==
    LET Reasons == {"InvalidToken", "Unknown", "AccountNotFound", "UsernameTaken"}
        Given == v.username \notin {Absent, Present(<<>>)} /\ v.password # Absent
    IN  FinishAuthenticatedLogin
        \cup UNION {Answer("S2C_LoginFail",
                        [reason |-> Value(LoginFailReason, r), message |-> Present(Name)]) :
                    r \in IF Given THEN Reasons ELSE {}}

AttackResult(v, target, hit, place, bone, damage) ==
    Answer("S2C_AttackResult",
        [server_tick |-> 0, attacker_id |-> Id, target_id |-> target,
         weapon_id |-> v.weapon_slot, hit |-> hit, hit_position |-> place,
         hit_bone |-> Value(HitBone, bone), damage |-> damage])

\* Of the targets found, one; where it was hit is not told apart.
HitResult(v, found) ==
    IF found = {} THEN AttackResult(v, 0, 0, Absent, "None", 0)
    ELSE UNION {AttackResult(v, r.target, 1, Present(Position), r.bone, 20) : r \in found}

\* The swing, and unless it has no direction what it hit.
OnAttackRequest(v) ==
    LET O == OrZeros(v.origin)[1]
        D == OrZeros(v.direction)[1]
    IN  Answer("S2C_AttackBroadcast",
            [attacker_id |-> Id, weapon_slot |-> v.weapon_slot, attack_type |-> v.attack_type,
             origin |-> Present(O), direction |-> Present(D)])
        \cup (IF D = Zeros THEN {} ELSE HitResult(v, ResolveHit(O, D, Others)))

OnItemUseRequest(v) ==
    Answer("S2C_ItemUseBroadcast",
        [user_id |-> Id, use_type |-> v.use_type, slot |-> v.slot])

\* The stash is what the database has.
OnRequestStash(v) ==
    UNION {Answer("S2C_StashState",
               [stash_index |-> v.stash_index, items |-> Present(items)]) :
           items \in LoadStash}

OnDropItem(v) ==
    IF v.item = Absent \/ v.item[1].item_id = Absent THEN {}
    ELSE Answer("S2C_ItemDropped",
            [player_id |-> Id, drop_sequence |-> v.drop_sequence,
             item |-> Present(Placed(v.item[1]))])

OnSetVisible(v) ==
    IF v.visible = 1 THEN {} ELSE Answer("S2C_PlayerLeft", [player_id |-> Id])

OnPlayerDied(v) ==
    Answer("S2C_PlayerDied",
        [player_id |-> Id, items |-> Present(PlacedAll(Identified(v.items)))])

\* Loot is granted or not by the room, the doors always move, and no other
\* interaction is answered.
Doors == {Value(InteractType, "DoorOpen"), Value(InteractType, "DoorClose")}

OnInteractRequest(v) ==
    LET Result(code) ==
            Answer("S2C_InteractResult",
                [player_id |-> Id, target_id |-> v.target_id,
                 interact_type |-> v.interact_type, result |-> code])
        Ok == Value(ResultCode, "Ok")
        Denied == Value(ResultCode, "Denied")
    IN  CASE v.interact_type = Value(InteractType, "Loot") -> Result(Ok) \cup Result(Denied)
          [] v.interact_type \in Doors                     -> Result(Ok)
          [] OTHER                                         -> {}

\* The first roll for the point or the container wins: it is this one or an
\* earlier one, whose entries all have an id and a place.
OnItemSpawnRoll(v) ==
    UNION {Answer("S2C_ItemSpawnState",
               [spawn_point_id |-> v.spawn_point_id, items |-> Present(items)]) :
           items \in {PlacedAll(Identified(v.items)), <<Full(WorldSpawnedItemEntry)>>}}

OnContainerLootRoll(v) ==
    UNION {Answer("S2C_ContainerLootState",
               [container_id |-> v.container_id, items |-> Present(items)]) :
           items \in {Identified(v.items), <<Full(InventoryItemEntry)>>}}

\* Mutant of OnCompanionMoveInput: the two flags are passed in the wrong order.
OnCompanionMoveInputSwapped(v) ==
    Answer("S2C_CompanionMoveState",
        [owner_id |-> Id, position |-> OrZeros(v.position), look |-> OrZeros(v.look),
         health |-> v.health, is_dead |-> v.is_aiming, weapon_type |-> v.weapon_type,
         is_aiming |-> v.is_dead, aim_pitch |-> v.aim_pitch])

OnCompanionMoveInput(v) ==
    Answer("S2C_CompanionMoveState",
        [owner_id |-> Id, position |-> OrZeros(v.position), look |-> OrZeros(v.look),
         health |-> v.health, is_dead |-> v.is_dead, weapon_type |-> v.weapon_type,
         is_aiming |-> v.is_aiming, aim_pitch |-> v.aim_pitch])

OnEnemyClaimRequest(v) ==
    UNION {Answer("S2C_EnemyClaimResult", [enemy_id |-> v.enemy_id, granted |-> g]) : g \in {0, 1}}

OnEnemyState(v) ==
    Answer("S2C_EnemyState",
        [enemy_id |-> v.enemy_id, position |-> OrZeros(v.position), look |-> OrZeros(v.look),
         health |-> v.health, is_dead |-> v.is_dead])

\* Of an enemy the server does not drive, to its owner.
OnEnemyDamage(v) ==
    Answer("S2C_EnemyDamage", [enemy_id |-> v.enemy_id, damage |-> v.damage])

\* The ticket and its expiry are the server's.
OnRequestMatch ==
    Answer("S2C_MatchTicket",
        [game_server_host |-> Present(<<>>), game_server_port |-> 0,
         ticket |-> Present(Name), expires_at_unix_ms |-> 99])

\* A ticket that can be consumed is as good as a login.
OnJoinMatch(v) ==
    IF v.ticket = Absent THEN {}
    ELSE FinishAuthenticatedLogin
         \cup Answer("S2C_JoinMatchFail",
                [reason |-> Value(JoinMatchFailReason, "InvalidOrExpiredTicket")])

Answers(n, v) ==
    CASE n = "C2S_Login"              -> OnLogin(v)
      [] n = "C2S_MoveInput"          -> OnMoveInput(v)
      [] n = "C2S_AttackRequest"      -> OnAttackRequest(v)
      [] n = "C2S_ItemUseRequest"     -> OnItemUseRequest(v)
      [] n = "C2S_RequestStash"       -> OnRequestStash(v)
      [] n = "C2S_DropItem"           -> OnDropItem(v)
      [] n = "C2S_SetVisible"         -> OnSetVisible(v)
      [] n = "C2S_PlayerDied"         -> OnPlayerDied(v)
      [] n = "C2S_InteractRequest"    -> OnInteractRequest(v)
      [] n = "C2S_ItemSpawnRoll"      -> OnItemSpawnRoll(v)
      [] n = "C2S_ContainerLootRoll"  -> OnContainerLootRoll(v)
      [] n = "C2S_CompanionMoveInput" -> OnCompanionMoveInput(v)
      [] n = "C2S_EnemyClaimRequest"  -> OnEnemyClaimRequest(v)
      [] n = "C2S_EnemyState"         -> OnEnemyState(v)
      [] n = "C2S_EnemyDamage"        -> OnEnemyDamage(v)
      [] n = "C2S_RequestMatch"       -> OnRequestMatch
      [] n = "C2S_JoinMatch"          -> OnJoinMatch(v)
      [] OTHER                        -> {}

\* The server looks at what the verifier has accepted and at nothing else.
Handle ==
    /\ phase = "received"
    /\ VerifySizePrefixedPacket(fbb)
    /\ LET got == Decode(fbb)
       IN  \E a \in Answers(got.name, got.fields[1]) : reply' = Encode(a.name, a.fields)
    /\ phase' = "answered"
    /\ UNCHANGED <<msg, todo, sent, offs, fbb>>

\* The next message, with a builder of its own.
Done ==
    /\ phase \in {"received", "answered"}
    /\ phase' = "idle"
    /\ msg' = "NONE"
    /\ sent' = <<>>
    /\ offs' = <<>>
    /\ fbb' = NewBuilder
    /\ reply' = NewBuilder
    /\ UNCHANGED todo

Next ==
    \/ Begin \/ MakeObject \/ OpenTable \/ AddPointer \/ AddValue \/ Finish
    \/ Handle \/ Done

Spec == Init /\ [][Next]_vars

(***************************************************************************)
(* Properties.                                                             *)
(***************************************************************************)
\* The bytes a scalar at place p takes, as places.
Extent(b, p) == p - b.mem[p][1] + 1 .. p

\* A builder's cells lie in its buffer, at places their width divides, no two
\* of them share a byte (flatbuffer_builder.h, "Write a single aligned scalar
\* to the buffer"), and the scratch pad at the other end of its memory never
\* reaches them (vector_downward.h, "this supports 2 std::vectors in a single
\* buffer").
WellFormed(b) ==
    /\ b.size \in Nat
    /\ b.reserved % 8 = 0
    /\ b.size + ScratchSize(b) <= b.reserved
    /\ b.minalign \in {1, 2, 4, 8}
    /\ \A p \in DOMAIN b.mem :
          /\ Extent(b, p) \subseteq 1 .. b.size
          /\ p % b.mem[p][1] = 0
    /\ Cardinality(UNION {Extent(b, p) : p \in DOMAIN b.mem})
          = MapThenSumSet(LAMBDA p : b.mem[p][1], DOMAIN b.mem)

\* Every value has its type and both builders are well formed.
TypeOK ==
    /\ phase \in {"idle", "objects", "fields", "received", "answered"}
    /\ msg \in Messages \cup {"NONE"}
    /\ phase # "idle" => /\ Range(todo) \subseteq DOMAIN Fields
                         /\ DOMAIN sent \subseteq NamesIn(Fields)
    /\ WellFormed(fbb)
    /\ WellFormed(reply)

\* What is sent arrives: whatever mixture of defaults, nulls, lists and shared
\* vtables a message holds, the receiver's verifier accepts its bytes and its
\* accessors return the payload type and every field as the sender set it
\* (table.h and verifier.h against flatbuffer_builder.h).
Arrives(b, n, fields) ==
    /\ VerifySizePrefixedPacket(b)
    /\ Decode(b) = [name |-> n, fields |-> Present(fields)]

RoundTrip == phase \in {"received", "answered"} => Arrives(fbb, msg, sent)

\* w is the entry v, but for a place that v leaves out.
SameEntry(w, v) ==
    \A n \in DOMAIN v : w[n] = IF n = "position" /\ v[n] = Absent THEN Present(Zeros) ELSE v[n]

\* w has the entries of v that have an id, each once, in their order, and
\* nothing else.
SameEntries(w, v) ==
    \E from \in [DOMAIN w -> DOMAIN v] :
        /\ \A i, j \in DOMAIN w : i < j => from[i] < from[j]
        /\ \A i \in DOMAIN w : SameEntry(w[i], v[from[i]])
        /\ Range(from) = {i \in DOMAIN v : v[i].item_id # Absent}

\* What stands in for a place that the sender leaves out.
Missing(n, f) ==
    CASE n = "C2S_MoveInput" /\ f = "position" -> Present(Position)
      [] n = "C2S_MoveInput" /\ f = "look"     -> Present(Look)
      [] OTHER                                 -> Present(Zeros)

\* w is what the others are to read for the value v of field f.
Unmodified(n, f, w, v) ==
    CASE f = "items" -> SameEntries(w[1], IF v = Absent THEN <<>> ELSE v[1])
      [] f = "item"  -> SameEntry(w[1], v[1])
      [] f \in {"position", "look", "origin", "direction"} /\ v = Absent -> w = Missing(n, f)
      [] OTHER       -> w = v

Stamps == {"player_id", "owner_id", "user_id", "attacker_id"}

\* The lists of these answers are the room's choice.
Arbitrated == {"C2S_ItemSpawnRoll", "C2S_ContainerLootRoll"}

\* Every field a message and its answer share by name reaches the other
\* clients as the sender gave it, through two encodings and the handler
\* (player.fbs:87, "a pure relay ... unmodified"), and the answer is stamped
\* with the sender's own session id, whatever the message claims
\* (Session.cpp:610, "player_id must be stamped here"). Not so what the sender
\* leaves out: an entry without an id is lost, and a missing place becomes the
\* origin, or of a move the last place.
Relayed ==
    phase = "answered" =>
        LET got == Decode(reply)
            v == got.fields[1]
        IN  /\ Arrives(reply, got.name, v)
            /\ \A f \in (DOMAIN sent \cap DOMAIN v) \ Stamps :
                  \/ f = "items" /\ msg \in Arbitrated
                  \/ Unmodified(msg, f, v[f], sent[f])
            /\ \A f \in Stamps \cap DOMAIN v : v[f] = Id

\* The player a shot is answered to have hit is the one whose capsule it enters
\* first, and none is missed that it enters wholly in range, be it level,
\* slanted or parallel to the axis, past a foot or over a head
\* (ResolveAndBroadcastHit, "Real hitbox test (capsule, not a flat sphere
\* blob)").
HitIsFirst ==
    phase = "answered" /\ msg = "C2S_AttackRequest" =>
        LET got == Decode(reply)
            O == OrZeros(sent.origin)[1]
            D == OrZeros(sent.direction)[1]
            met == [o \in DOMAIN Others |-> {k \in Passed : Meets(O, D, Others[o].pos, <<k, 4>>)}]
        IN  got.name = "S2C_AttackResult" /\ FairShot(O, Others) =>
                LET hit == got.fields[1].hit = 1
                    target == got.fields[1].target_id
                IN  /\ hit => target \in DOMAIN Others /\ met[target] # {}
                    /\ \A o \in DOMAIN Others : met[o] # {} =>
                          IF hit THEN Min(met[target]) <= Min(met[o])
                                 ELSE ~WhollyInRange(O, Others[o].pos)
=============================================================================
