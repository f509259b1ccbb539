------------------------------ MODULE Protocol ------------------------------
(***************************************************************************)
(* The messages of the game protocol, Protocol/header/cpp: every table of  *)
(* the schema as the sequence of its fields in slot order, the union of    *)
(* payloads a Packet carries, and what the generated code of packet.h does *)
(* to create, verify and read a packet.                                    *)
(***************************************************************************)
EXTENDS FlatBuffers

Scalar(name, size, default) ==
    [name |-> name, kind |-> "scalar", size |-> size, default |-> default, values |-> {}]

Bool(name) == [Scalar(name, 1, 0) EXCEPT !.values = {0, 1}]
U8(name) == Scalar(name, 1, 0)
U16(name) == Scalar(name, 2, 0)
I16(name) == Scalar(name, 2, 0)
U32(name) == Scalar(name, 4, 0)
F32(name) == Scalar(name, 4, 0)
U64(name) == Scalar(name, 8, 0)

Struct(name, words) == [name |-> name, kind |-> "struct", size |-> 4, words |-> words]
Vec2(name) == Struct(name, 2)
Vec3(name) == Struct(name, 3)
Rotator(name) == Struct(name, 3)
Header(name) == Struct(name, 3)

Text(name) == [name |-> name, kind |-> "string", size |-> 4]
Table(name, T) == [name |-> name, kind |-> "table", size |-> 4, of |-> T]
Vector(name, T) == [name |-> name, kind |-> "vector", size |-> 4, of |-> T]

(***************************************************************************)
(* The enums, as their names from value 0 up, and the one enum of flags,   *)
(* as the names of its bits from bit 0 up.                                 *)
(***************************************************************************)
ResultCode ==
    <<"Ok", "Failed", "Denied", "OutOfRange", "Busy", "InvalidTarget", "Cooldown">>

AttackType == <<"Fire", "Melee", "Throw", "ReloadStart">>

HitBone ==
    << "None", "Head", "Chest", "Stomach", "LeftArm", "RightArm", "LeftLeg",
       "RightLeg" >>

InteractType ==
    <<"Loot", "DoorOpen", "DoorClose", "Extract", "PlantItem", "UseSwitch">>

ItemUseType ==
    << "Consume", "Equip", "Unequip", "Drop", "Reload", "Inspect",
       "ToggleAttachment" >>

LoginFailReason ==
    << "InvalidToken", "VersionMismatch", "ServerFull", "Banned",
       "AlreadyLoggedIn", "Unknown", "AccountNotFound", "UsernameTaken" >>

JoinMatchFailReason == <<"InvalidOrExpiredTicket">>

EquipSlot ==
    << "Head", "Chest", "Back", "Hands", "Legs", "Feet", "PrimaryWeapon",
       "SecondaryWeapon", "Melee" >>

MoveFlags ==
    << "Sprint", "Crouch", "Prone", "Jump", "ADS", "Falling", "Swimming",
       "Leaning_Left", "Leaning_Right" >>

Value(E, constant) == SelectInSeq(E, LAMBDA c : c = constant) - 1

Enum(name, E) == [Scalar(name, 1, 0) EXCEPT !.values = 0 .. Len(E) - 1]

Flags(name, F) ==
    [Scalar(name, 2, 0) EXCEPT
        !.values = {2 ^ (bit - 1) : bit \in DOMAIN F} \cup {2 ^ Len(F) - 1}]

\* Entries of the lists the messages carry.
WorldSpawnedItemEntry ==
    << Text("item_id"), Vec3("position"), Scalar("stack_count", 2, 1) >>

InventoryItemEntry ==
    << Text("item_id"), I16("grid_x"), I16("grid_y"), Bool("rotated"),
       Scalar("stack_count", 2, 1) >>

EquipmentItemEntry == <<U8("slot"), Text("item_id")>>

QuickSlotItemEntry ==
    << U8("slot_index"), Text("item_id"), Scalar("stack_count", 2, 1) >>

EquippedVisual == <<Enum("slot", EquipSlot), U32("item_id")>>

\* attack.h
C2S_AttackRequest ==
    << Header("header"), U8("weapon_slot"), Enum("attack_type", AttackType), Vec3("origin"),
       Vec3("direction") >>

S2C_AttackResult ==
    << U32("server_tick"), U32("attacker_id"), U32("target_id"),
       U32("weapon_id"), Bool("hit"), Vec3("hit_position"), Enum("hit_bone", HitBone),
       F32("damage") >>

S2C_AttackBroadcast ==
    << U32("attacker_id"), U8("weapon_slot"), Enum("attack_type", AttackType),
       Vec3("origin"), Vec3("direction") >>

\* companion.h
C2S_CompanionMoveInput ==
    << Vec3("position"), Rotator("look"), Scalar("health", 4, 100),
       Bool("is_dead"), U8("weapon_type"), Bool("is_aiming"), F32("aim_pitch") >>

S2C_CompanionMoveState ==
    << U32("owner_id"), Vec3("position"), Rotator("look"),
       Scalar("health", 4, 100), Bool("is_dead"), U8("weapon_type"),
       Bool("is_aiming"), F32("aim_pitch") >>

\* enemy.h
C2S_EnemyClaimRequest == <<U32("enemy_id")>>

C2S_EnemyRegister ==
    << U32("enemy_id"), Vec3("position"), F32("health"), F32("max_health"),
       F32("move_speed"), F32("attack_range"), F32("attack_damage"),
       F32("attack_cooldown"), Bool("is_caller"), F32("call_radius"),
       F32("call_cooldown") >>

S2C_EnemyClaimResult == <<U32("enemy_id"), Bool("granted")>>

C2S_EnemyState ==
    << U32("enemy_id"), Vec3("position"), Rotator("look"), F32("health"),
       Bool("is_dead") >>

S2C_EnemyState ==
    << U32("enemy_id"), Vec3("position"), Rotator("look"), F32("health"),
       Bool("is_dead") >>

S2C_EnemyOwnerLeft == <<U32("enemy_id")>>

C2S_EnemyDamage == <<U32("enemy_id"), F32("damage")>>

S2C_EnemyDamage == <<U32("enemy_id"), F32("damage")>>

S2C_EnemyAttackResult ==
    << U32("enemy_id"), U32("target_player_id"), F32("damage") >>

S2C_EnemyAttackBroadcast == <<U32("enemy_id")>>

\* interact.h
C2S_InteractRequest ==
    << Header("header"), U32("target_id"), Enum("interact_type", InteractType) >>

S2C_InteractResult ==
    << U32("player_id"), U32("target_id"), Enum("interact_type", InteractType),
       Enum("result", ResultCode) >>

\* inventory.h
C2S_SaveInventory == <<Vector("items", InventoryItemEntry)>>

C2S_SaveEquipment == <<Vector("items", EquipmentItemEntry)>>

C2S_SaveQuickSlots == <<Vector("items", QuickSlotItemEntry)>>

C2S_RequestStash == <<U8("stash_index")>>

S2C_StashState == <<U8("stash_index"), Vector("items", InventoryItemEntry)>>

C2S_SaveStash == <<U8("stash_index"), Vector("items", InventoryItemEntry)>>

\* item.h
C2S_ItemUseRequest ==
    << Header("header"), U64("item_instance_id"), U8("slot"), Enum("use_type", ItemUseType) >>

S2C_ItemUseResult ==
    << U32("player_id"), U64("item_instance_id"), Enum("use_type", ItemUseType),
       Enum("result", ResultCode), F32("value") >>

S2C_ItemUseBroadcast == <<U32("user_id"), Enum("use_type", ItemUseType), U8("slot")>>

C2S_ContainerLootRoll ==
    << U32("container_id"), Vector("items", InventoryItemEntry) >>

S2C_ContainerLootState ==
    << U32("container_id"), Vector("items", InventoryItemEntry) >>

C2S_ItemSpawnRoll ==
    << U32("spawn_point_id"), Vector("items", WorldSpawnedItemEntry) >>

S2C_ItemSpawnState ==
    << U32("spawn_point_id"), Vector("items", WorldSpawnedItemEntry) >>

C2S_DropItem == <<U32("drop_sequence"), Table("item", WorldSpawnedItemEntry)>>

S2C_ItemDropped ==
    << U32("player_id"), U32("drop_sequence"),
       Table("item", WorldSpawnedItemEntry) >>

\* login.h
C2S_Login ==
    << Text("auth_token"), Text("client_version"), Text("username"),
       Text("password"), Bool("is_register") >>

S2C_LoginFail == <<Enum("reason", LoginFailReason), Text("message")>>

S2C_LoginSuccess ==
    << U32("player_id"), Vec3("position"), Rotator("look"), U8("weapon_type"),
       Bool("has_saved_progress"), Vector("inventory", InventoryItemEntry),
       Vector("equipment", EquipmentItemEntry),
       Vector("quick_slots", QuickSlotItemEntry) >>

\* match.h
C2S_RequestMatch == <<>>

S2C_MatchTicket ==
    << Text("game_server_host"), U16("game_server_port"), Text("ticket"),
       U64("expires_at_unix_ms") >>

C2S_JoinMatch == <<Text("ticket")>>

S2C_JoinMatchFail == <<Enum("reason", JoinMatchFailReason)>>

S2C_MatchmakingStatus == <<U16("current"), U16("max")>>

S2C_MatchmakingComplete == <<U16("member_count")>>

\* movement.h
C2S_MoveInput ==
    << Header("header"), Vec2("move_input"), Rotator("look"), Flags("flags", MoveFlags),
       Vec3("position") >>

S2C_MoveState ==
    << U32("player_id"), U32("server_tick"), Vec3("position"),
       Vec3("velocity"), Rotator("look"), Flags("flags", MoveFlags), U32("ack_client_seq") >>

\* player.h
S2C_SendAvatarInfo ==
    << U32("player_id"), Text("nickname"), Vec3("position"), Rotator("look"),
       F32("health"), F32("max_health"), U32("level"),
       U32("character_model_id"), Vector("equipped", EquippedVisual) >>

S2C_SendPlayerInfo ==
    << U32("player_id"), Text("nickname"), Vec3("position"), Rotator("look"),
       U32("character_model_id"), Vector("equipped", EquippedVisual) >>

S2C_PlayerLeft == <<U32("player_id")>>

C2S_SetVisible == <<Bool("visible")>>

C2S_PlayerDied == <<Vector("items", WorldSpawnedItemEntry)>>

S2C_PlayerDied == <<U32("player_id"), Vector("items", WorldSpawnedItemEntry)>>

C2S_MultiMapReady == <<>>

(***************************************************************************)
(* packet.h: the n-th element is the payload that enum Payload numbers n.  *)
(***************************************************************************)
Payload ==
    << <<"C2S_Login", C2S_Login>>,
       <<"S2C_LoginFail", S2C_LoginFail>>,
       <<"S2C_LoginSuccess", S2C_LoginSuccess>>,
       <<"S2C_SendAvatarInfo", S2C_SendAvatarInfo>>,
       <<"S2C_SendPlayerInfo", S2C_SendPlayerInfo>>,
       <<"S2C_PlayerLeft", S2C_PlayerLeft>>,
       <<"C2S_MoveInput", C2S_MoveInput>>,
       <<"S2C_MoveState", S2C_MoveState>>,
       <<"C2S_AttackRequest", C2S_AttackRequest>>,
       <<"S2C_AttackResult", S2C_AttackResult>>,
       <<"S2C_AttackBroadcast", S2C_AttackBroadcast>>,
       <<"C2S_ItemUseRequest", C2S_ItemUseRequest>>,
       <<"S2C_ItemUseResult", S2C_ItemUseResult>>,
       <<"S2C_ItemUseBroadcast", S2C_ItemUseBroadcast>>,
       <<"C2S_InteractRequest", C2S_InteractRequest>>,
       <<"S2C_InteractResult", S2C_InteractResult>>,
       <<"C2S_SaveInventory", C2S_SaveInventory>>,
       <<"C2S_SetVisible", C2S_SetVisible>>,
       <<"C2S_ContainerLootRoll", C2S_ContainerLootRoll>>,
       <<"S2C_ContainerLootState", S2C_ContainerLootState>>,
       <<"C2S_CompanionMoveInput", C2S_CompanionMoveInput>>,
       <<"S2C_CompanionMoveState", S2C_CompanionMoveState>>,
       <<"C2S_EnemyClaimRequest", C2S_EnemyClaimRequest>>,
       <<"S2C_EnemyClaimResult", S2C_EnemyClaimResult>>,
       <<"C2S_EnemyState", C2S_EnemyState>>,
       <<"S2C_EnemyState", S2C_EnemyState>>,
       <<"S2C_EnemyOwnerLeft", S2C_EnemyOwnerLeft>>,
       <<"C2S_EnemyDamage", C2S_EnemyDamage>>,
       <<"S2C_EnemyDamage", S2C_EnemyDamage>>,
       <<"C2S_EnemyRegister", C2S_EnemyRegister>>,
       <<"S2C_EnemyAttackResult", S2C_EnemyAttackResult>>,
       <<"S2C_EnemyAttackBroadcast", S2C_EnemyAttackBroadcast>>,
       <<"C2S_ItemSpawnRoll", C2S_ItemSpawnRoll>>,
       <<"S2C_ItemSpawnState", S2C_ItemSpawnState>>,
       <<"C2S_PlayerDied", C2S_PlayerDied>>,
       <<"S2C_PlayerDied", S2C_PlayerDied>>,
       <<"C2S_SaveEquipment", C2S_SaveEquipment>>,
       <<"C2S_SaveQuickSlots", C2S_SaveQuickSlots>>,
       <<"C2S_RequestStash", C2S_RequestStash>>,
       <<"S2C_StashState", S2C_StashState>>,
       <<"C2S_SaveStash", C2S_SaveStash>>,
       <<"C2S_DropItem", C2S_DropItem>>,
       <<"S2C_ItemDropped", S2C_ItemDropped>>,
       <<"C2S_RequestMatch", C2S_RequestMatch>>,
       <<"S2C_MatchTicket", S2C_MatchTicket>>,
       <<"C2S_JoinMatch", C2S_JoinMatch>>,
       <<"S2C_JoinMatchFail", S2C_JoinMatchFail>>,
       <<"S2C_MatchmakingStatus", S2C_MatchmakingStatus>>,
       <<"S2C_MatchmakingComplete", S2C_MatchmakingComplete>>,
       <<"C2S_MultiMapReady", C2S_MultiMapReady>> >>

PayloadNames == {Payload[n][1] : n \in DOMAIN Payload}

EnumValue(name) == CHOOSE n \in DOMAIN Payload : Payload[n][1] = name

TableOf(name) == Payload[EnumValue(name)][2]

Packet(name) == <<U8("payload_type"), Table("payload", TableOf(name))>>

\* CreatePacket and FinishSizePrefixedPacketBuffer around a payload at off.
CreatePacket(b, name, off) ==
    LET p == EndTable(AddElement(AddOffset(StartTable(b), 2, off),
                                 1, 1, EnumValue(name), 0))
    IN  FinishSizePrefixed(p, p.last)

\* A whole message, as the handlers and the room build one.
Encode(name, v) ==
    Then(CreateTable(NewBuilder, TableOf(name), v), LAMBDA t : CreatePacket(t, name, t.last))

PayloadType(b) == GetField(b, Root(b), 1, 1, 0)

\* A payload of an unknown type is not looked into.
VerifyPayload(b, type) ==
    type \in DOMAIN Payload =>
        VerifyField(b, Root(b), Table("payload", Payload[type][2]), 2)

VerifyPacket(b) ==
    /\ VerifyTableStart(b, Root(b))
    /\ VerifyField(b, Root(b), U8("payload_type"), 1)
    /\ LET o == GetOptionalFieldOffset(b, Root(b), 2)
       IN  o = 0 \/ VerifyOffset(b, Root(b) + o)
    /\ VerifyPayload(b, PayloadType(b))

VerifySizePrefixedPacket(b) == VerifySizePrefixedBuffer(b) /\ VerifyPacket(b)

\* payload_as_<Table>: what a reader has of the packet, [name, fields].
Decode(b) ==
    LET n == PayloadType(b)
    IN  IF n \notin DOMAIN Payload THEN [name |-> "NONE", fields |-> Absent]
        ELSE [name |-> Payload[n][1],
              fields |-> GetPointer(b, Root(b), Table("payload", Payload[n][2]), 2)]
=============================================================================
