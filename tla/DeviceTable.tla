----------------------------- MODULE DeviceTable -----------------------------
(***************************************************************************)
(* The `devices` table of src/internal/store/schema.go as a set of         *)
(* listings, at most one for each (dataset, device), and the statements    *)
(* that store.go runs on it.                                               *)
(***************************************************************************)

Listings(devices, dataset) == {d \in devices : d.dataset = dataset}

Listed(devices, dataset, device) ==
    {d \in Listings(devices, dataset) : d.device = device}

\* WRONG: INSERT OR REPLACE, which starts the listing anew.
UpsertReplacing(devices, dataset, device, name, at) ==
    (devices \ Listed(devices, dataset, device)) \cup
        {[dataset |-> dataset, device |-> device, name |-> name,
          firstSeen |-> at, lastSeen |-> at]}

\* INSERT ... ON CONFLICT(dataset, device_id) DO UPDATE SET name, last_seen_at:
\* first_seen_at is written by the insert alone.
Upsert(devices, dataset, device, name, at) ==
    LET old == Listed(devices, dataset, device)
    IN  (devices \ old) \cup
        {[dataset   |-> dataset,
          device    |-> device,
          name      |-> name,
          firstSeen |-> IF old = {} THEN at ELSE (CHOOSE d \in old : TRUE).firstSeen,
          lastSeen  |-> at]}

\* DELETE ... WHERE dataset = ? AND device_id = ?
Delete(devices, dataset, device) == devices \ Listed(devices, dataset, device)

=============================================================================
