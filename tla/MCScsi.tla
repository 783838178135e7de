------------------------------- MODULE MCScsi -------------------------------
(* Two SCSI IDs, images of two blocks, a buffer of two, a flash whose      *)
(* erase unit holds both blocks, and byte offsets that tell eight blocks   *)
(* apart: block 8 is block 0 to the disk, block 5 is behind every file.    *)
EXTENDS Scsi

World(config, card, partition, faults, resets) ==
    [config |-> config, card |-> card, mounted |-> TRUE, partition |-> partition,
     faults |-> faults, resets |-> resets]

MCWorlds ==
    { \* one disk on its file, the second ID not configured
      World(<<"own.img">>, [f \in {"own.img"} |-> "rw"], TRUE, {"io"}, {"machine"}),
      \* a read-only image, and a missing one that falls back to hd.img
      World(<<"own.img", "other.img">>,
            [f \in {"own.img", "hd.img"} |-> IF f = "own.img" THEN "ro" ELSE "rw"],
            TRUE, {}, {}),
      \* both fall back to the flash
      World(<<"own.img", "other.img">>, [f \in {} |-> "rw"], TRUE, {"io"}, {"machine"}),
      \* nothing at all, and a guest that resets the bus
      World(<<"own.img", "other.img">>, [f \in {} |-> "rw"], FALSE, {}, {"bus"}),
      \* both on the same file, and a guest that resets the bus
      World(<<"hd.img", "other.img">>, [f \in {"hd.img"} |-> "rw"], FALSE, {}, {"bus"}) }

Indexed(w) == [w EXCEPT !.config = [t \in {0, 1} |-> IF t + 1 \in DOMAIN @ THEN @[t + 1] ELSE ""]]
IndexedWorlds == {Indexed(w) : w \in MCWorlds}

Req(t, op, lba, len, vals) ==
    [target |-> t, op |-> op, lba |-> lba, len |-> len, vals |-> vals]

MCRequests ==
    {Req(t, Read6, lba, len, <<>>) : t \in {0, 1}, lba \in {0, 1, 2}, len \in {0, 1}}
    \cup {Req(0, Read10, lba, len, <<>>) : lba \in {0, 1}, len \in {0, 3}}
    \cup {Req(0, Write6, lba, 0, vals) : lba \in {0, 1}, vals \in {<<1, 2>>, <<2, 1>>}}
    \cup {Req(t, Write10, lba, 1, <<v>>) : t \in {0, 1}, lba \in {0, 2}, v \in {1, 2}}
    \cup {Req(0, Read10, lba, len, <<>>) : lba \in {3, 8}, len \in {0, 1}}
    \cup {Req(0, Write10, lba, 1, <<1>>) : lba \in {5, 8}}
    \cup {Req(0, op, 0, 1, <<>>) : op \in {Inquiry, Capacity, ModeSense, Ready}}

(* Not so (MCScsi.cfg says how to see it): a block behind 4 GiB, which no  *)
(* image has, is answered with GOOD (hd.cpp:139 and 144).                  *)
FarBlockIsRefused ==
    Unbroken /\ status = Good /\ (IsRead(req.op) \/ IsWrite(req.op)) /\ Asked # 0 => Addressable
=============================================================================
