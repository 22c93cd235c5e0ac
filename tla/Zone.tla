-------------------------------- MODULE Zone --------------------------------
(***************************************************************************)
(* A slab pool in the zone of shared memory it is made for: ngx_slab_pool_t *)
(* lies at the start of what ngx_shm_alloc() mapped, and its end is that   *)
(* of the mapping.  Who makes the zone and the pool is not in the source   *)
(* (ngx_slab.c:80 calls it ngx_init_zone_pool()); here it is anyone who    *)
(* uses the zone only between a successful ngx_shm_alloc() and the         *)
(* ngx_shm_free(), and makes one pool in his life.                         *)
(***************************************************************************)
EXTENDS Slab, Shmem

zoneVars == <<vars, shmVars>>

ZInit == Init /\ ShmInit

Shared == result = "ok" /\ doing = "nothing"

ZNext ==
  \/ ShmNext /\ (state = "raw" \/ result = "ok") /\ UNCHANGED vars
  \/ ngx_slab_sizes_init /\ UNCHANGED shmVars
  \/ Shared /\ ngx_slab_init /\ zone' = size /\ UNCHANGED shmVars
  \/ Shared /\ ngx_slab_alloc_locked /\ UNCHANGED shmVars

ZSpec == ZInit /\ [][ZNext]_zoneVars

(* When ngx_shm_alloc() said that there is a zone, the pool made in it lies in
   a mapping the process has, with its last page, until ngx_shm_free().    *)
PoolInMapping ==
  result = "ok" /\ state # "raw" =>
    /\ addr \in maps
    /\ start + total * PageSize <= size

=============================================================================
