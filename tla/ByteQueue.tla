----------------------------- MODULE ByteQueue -----------------------------
(***************************************************************************)
(* One ByteQueue under every sequence of PutByteBQ and GetByteBQ calls.    *)
(* PeekByteBQ, IsFullBQ, IsEmptyBQ and CountBQ leave the struct alone and  *)
(* appear in the properties.                                               *)
(***************************************************************************)
EXTENDS ByteQueueOps, Sequences

VARIABLES bq,   \* the struct
          ret   \* the value the last call returned

queueVars == <<bq, ret>>

(* The array InitBQ is given is uninitialised memory. *)
QueueInit ==
  /\ \E data \in [Index -> Item] : bq = InitBQ(data)
  /\ ret = 1

Put(item) ==
  /\ bq' = PutByteBQ(bq, item)
  /\ ret' = IF PutRefused(bq) THEN 0 ELSE 1

Get ==
  /\ bq' = GetByteBQ(bq)
  /\ ret' = PeekByteBQ(bq)

QueueNext == Get \/ \E item \in Item : Put(item)

QueueSpec == QueueInit /\ [][QueueNext]_queueVars
-----------------------------------------------------------------------------
(* The struct and the return value stay within their C types. *)
QueueTypeOK == bq \in ByteQueue /\ ret \in Item \cup {0, 1}

(* The number of cells from start up to end, going round the array. *)
Occupied == IF bq.end >= bq.start
            THEN bq.end - bq.start
            ELSE DataSize - bq.start + bq.end

(* The counter behind CountBQ agrees with the two pointers that decide     *)
(* whether the queue is empty, so neither drifts however often they wrap.  *)
CountMatchesPointers == bq.count = Occupied

(* IsFullBQ, which nothing calls before a put, tells exactly when          *)
(* PutByteBQ will refuse: with DataSize - 1 bytes queued, never with fewer. *)
FullIffCapacity ==
  /\ IsFullBQ(bq) <=> PutRefused(bq)
  /\ IsFullBQ(bq) <=> CountBQ(bq) = DataSize - 1

(* The cell k places after start. *)
Nth(k) == IF bq.start + k > LastIndex THEN bq.start + k - DataSize
                                      ELSE bq.start + k

(* The queued bytes, oldest first. *)
Contents == [k \in 1 .. bq.count |-> bq.data[Nth(k - 1)]]

Fifo == INSTANCE BoundedFifo
        WITH fifo <- Contents, Capacity <- DataSize - 1

(* Bytes come out in the order they were put in, none lost and none made   *)
(* up, a put fails only at capacity and a get on an empty queue returns 0. *)
ImplementsFifo == Fifo!Spec
=============================================================================
