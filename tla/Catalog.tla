-------------------------------- MODULE Catalog --------------------------------
(***************************************************************************)
(* The metric vectors of the built-in collectors of exporter/collectors,   *)
(* as their constructors create them through the factories of vec.go.      *)
(***************************************************************************)
EXTENDS Sequences

(* counterFactory, counterFactoryIO, gaugeFactory and gaugeFactoryRawPg:    *)
(* one vector per name, in the namespace of the factory.                    *)
Vecs(ns, sub, labels, gauges, counters) ==
    {[ns |-> ns, sub |-> sub, name |-> n, labels |-> labels, kind |-> "gauge"] : n \in gauges}
    \cup
    {[ns |-> ns, sub |-> sub, name |-> n, labels |-> labels, kind |-> "counter"] : n \in counters}

(* prometheus.BuildFQName, the package variable namespace being p.     *)
FQName(p, v) ==
    (CASE v.ns = "stat"   -> p
       [] v.ns = "statio" -> "pg_statio"
       [] v.ns = "raw"    -> "pg"
       [] OTHER           -> v.ns) \o "_" \o v.sub \o "_" \o v.name

-------------------------------------------------------------------------------
PgDatabaseSizeCollector ==
    Vecs("raw", "database", {"database", "datname"},
         {"size_bytes"},
         {})

PgLocksCollector ==
    Vecs("stat", "locks", {"database", "datname", "mode", "locktype", "granted"},
         {"count"},
         {})
    \cup Vecs("stat", "locks", {"database"},
         {"blocked_backends", "blocker_edges"},
         {})

PgReplicationSlotsCollector ==
    Vecs("raw", "replication_slots", {"database", "slot_name", "slot_type", "plugin", "datname",
          "wal_status"},
         {"active", "temporary", "restart_lsn_bytes",
          "confirmed_flush_lsn_bytes", "retained_wal_bytes",
          "safe_wal_size_bytes", "conflicting"},
         {})

PgSettingsCollector ==
    Vecs("raw", "settings", {"database", "name", "unit", "vartype"},
         {"value"},
         {})

PgStatActivityCollector ==
    Vecs("stat", "activity", {"database", "datname", "state", "wait_event_type", "backend_type"},
         {"count", "max_tx_duration_seconds", "max_query_duration_seconds",
          "max_backend_age_seconds"},
         {})

PgStatArchiverCollector ==
    Vecs("stat", "archiver", {"database"},
         {"last_archived_timestamp_seconds", "last_failed_timestamp_seconds",
          "stats_reset_timestamp_seconds"},
         {"archived_count_total", "failed_count_total"})

PgStatBgwriterCollector ==
    Vecs("stat", "bgwriter", {"database"},
         {"stats_reset_timestamp_seconds"},
         {"buffers_clean_total", "maxwritten_clean_total",
          "buffers_alloc_total", "checkpoints_timed_total",
          "checkpoints_req_total", "checkpoint_write_time_seconds_total",
          "checkpoint_sync_time_seconds_total", "buffers_checkpoint_total",
          "buffers_backend_total", "buffers_backend_fsync_total"})

\* Variant: the subsystem of the collector it was copied from.
PgStatCheckpointerPasted ==
    Vecs("stat", "bgwriter", {"database"},
         {"stats_reset_timestamp_seconds"},
         {"num_timed_total", "num_requested_total",
          "restartpoints_timed_total", "restartpoints_req_total",
          "restartpoints_done_total", "write_time_seconds_total",
          "sync_time_seconds_total", "buffers_written_total"})

PgStatCheckpointerCollector ==
    Vecs("stat", "checkpointer", {"database"},
         {"stats_reset_timestamp_seconds"},
         {"num_timed_total", "num_requested_total",
          "restartpoints_timed_total", "restartpoints_req_total",
          "restartpoints_done_total", "write_time_seconds_total",
          "sync_time_seconds_total", "buffers_written_total"})

PgStatDatabaseCollector ==
    Vecs("stat", "database", {"database", "datname"},
         {"numbackends", "stats_reset_timestamp_seconds",
          "checksum_last_failure_timestamp_seconds"},
         {"xact_commit_total", "xact_rollback_total", "blks_read_total",
          "blks_hit_total", "tup_returned_total", "tup_fetched_total",
          "tup_inserted_total", "tup_updated_total", "tup_deleted_total",
          "conflicts_total", "temp_files_total", "temp_bytes_total",
          "deadlocks_total", "blk_read_time_seconds_total",
          "blk_write_time_seconds_total", "checksum_failures_total",
          "session_time_seconds_total", "active_time_seconds_total",
          "idle_in_transaction_time_seconds_total", "sessions_total",
          "sessions_abandoned_total", "sessions_fatal_total",
          "sessions_killed_total"})

PgStatIOCollector ==
    Vecs("stat", "io", {"database", "backend_type", "object", "context"},
         {"op_bytes", "stats_reset_timestamp_seconds"},
         {"reads_total", "read_time_seconds_total", "writes_total",
          "write_time_seconds_total", "writebacks_total",
          "writeback_time_seconds_total", "extends_total",
          "extend_time_seconds_total", "hits_total", "evictions_total",
          "reuses_total", "fsyncs_total", "fsync_time_seconds_total"})

PgStatProgressAnalyzeCollector ==
    Vecs("stat", "progress_analyze", {"database", "datname", "relid", "phase"},
         {"sample_blks_total", "sample_blks_scanned", "ext_stats_total",
          "ext_stats_computed", "child_tables_total", "child_tables_done"},
         {})

PgStatProgressBasebackupCollector ==
    Vecs("stat", "progress_basebackup", {"database", "phase"},
         {"backup_total_bytes", "backup_streamed_bytes", "tablespaces_total",
          "tablespaces_streamed"},
         {})

PgStatProgressCopyCollector ==
    Vecs("stat", "progress_copy", {"database", "datname", "relid", "command", "type"},
         {"bytes_total", "bytes_processed", "tuples_processed",
          "tuples_excluded"},
         {})

PgStatProgressCreateIndexCollector ==
    Vecs("stat", "progress_create_index", {"database", "datname", "relid",
          "index_relid", "command", "phase"},
         {"lockers_total", "lockers_done", "blocks_total", "blocks_done",
          "tuples_total", "tuples_done", "partitions_total", "partitions_done"},
         {})

PgStatProgressClusterCollector ==
    Vecs("stat", "progress_cluster", {"database", "datname", "relid", "command", "phase"},
         {"heap_tuples_scanned", "heap_tuples_written", "heap_blks_total",
          "heap_blks_scanned", "index_rebuild_count"},
         {})

PgStatProgressVacuumCollector ==
    Vecs("stat", "progress_vacuum", {"database", "datname", "relid", "phase"},
         {"heap_blks_total", "heap_blks_scanned", "heap_blks_vacuumed",
          "index_vacuum_count"},
         {})

PgStatReplicationCollector ==
    Vecs("stat", "replication", {"database", "application_name", "client_addr", "state", "sync_state"},
         {"sent_lag_bytes", "write_lag_bytes", "flush_lag_bytes",
          "replay_lag_bytes", "write_lag_seconds", "flush_lag_seconds",
          "replay_lag_seconds"},
         {})

PgStatSLRUCollector ==
    Vecs("stat", "slru", {"database", "name"},
         {"stats_reset_timestamp_seconds"},
         {"blks_zeroed_total", "blks_hit_total", "blks_read_total",
          "blks_written_total", "blks_exists_total", "flushes_total",
          "truncates_total"})

PgStatSSLCollector ==
    Vecs("stat", "ssl", {"database", "ssl", "version", "cipher", "bits"},
         {"connections"},
         {})

PgStatStatementsCollector ==
    Vecs("stat", "statements", {"database", "rolname", "datname", "queryid", "query"},
         {"min_time_seconds", "max_time_seconds", "mean_time_seconds",
          "std_dev_time_seconds"},
         {"calls", "total_time_seconds", "rows", "shared_blks_hit",
          "shared_blks_read", "shared_blks_dirtied", "shared_blks_written",
          "local_blks_hit", "local_blks_read", "local_blks_dirtied",
          "local_blks_written", "templ_blks_read", "temp_blks_written",
          "blk_read_time_seconds", "blk_write_time_seconds"})

PgStatSubscriptionCollector ==
    Vecs("stat", "subscription", {"database", "subname"},
         {"active", "received_lsn_bytes", "last_msg_send_time_seconds",
          "last_msg_receipt_time_seconds", "latest_end_lsn_bytes",
          "latest_end_time_seconds", "stats_reset_timestamp_seconds"},
         {"apply_error_count_total", "sync_error_count_total"})

PgStatUserIndexesCollector ==
    Vecs("stat", "user_indexes", {"database", "schemaname", "relname", "indexrelname"},
         {},
         {"index_scan", "index_tup_read", "index_tup_fetch"})

PgStatUserTableCollector ==
    Vecs("stat", "user_tables", {"database", "schemaname", "relname"},
         {"n_live_tup", "n_dead_tup", "n_mod_since_analyze", "last_vacuum",
          "last_autovacuum", "last_analyze", "last_autoanalyze",
          "last_seq_scan", "last_idx_scan", "n_ins_since_vacuum"},
         {"sequential_scan", "sequential_scan_tup_read", "index_scan",
          "index_tup_fetch", "n_tup_ins", "n_tup_upd", "n_tup_del",
          "n_tup_hot_upd", "vacuum_count", "autovacuum_count",
          "analyze_count", "autoanalyze_count", "n_tup_newpage_upd"})

PgStatWalCollector ==
    Vecs("stat", "wal", {"database"},
         {"stats_reset_timestamp_seconds"},
         {"records_total", "fpi_total", "bytes_total", "buffers_full_total",
          "write_total", "sync_total", "write_time_seconds_total",
          "sync_time_seconds_total"})

PgStatWalReceiverCollector ==
    Vecs("stat", "wal_receiver", {"database", "status", "slot_name", "sender_host"},
         {"receive_start_lsn_bytes", "written_lsn_bytes", "flushed_lsn_bytes",
          "latest_end_lsn_bytes", "last_msg_send_timestamp_seconds",
          "last_msg_receipt_timestamp_seconds", "latest_end_timestamp_seconds"},
         {})

PgStatIOUserIndexesCollector ==
    Vecs("statio", "user_indexes", {"database", "schemaname", "relname", "indexrelname"},
         {},
         {"idx_blks_read", "idx_blks_hit"})

PgStatIOUserTableCollector ==
    Vecs("statio", "user_tables", {"database", "schemaname", "relname"},
         {},
         {"heap_blks_read", "heap_blks_hit", "idx_blks_read", "idx_blks_hit",
          "toast_blks_read", "toast_blks_hit", "tidx_blks_read",
          "tidx_blks_hit"})
===============================================================================
