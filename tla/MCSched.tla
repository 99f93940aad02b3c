------------------------------- MODULE MCSched -------------------------------
(* Sched for three threads, one queue of threads and one of a device.      *)
EXTENDS SchedRefinement

CONSTANTS t1, t2, t3, mutexq, deviceq

MCThreads == {t1, t2, t3}
MCWaitQueues == {mutexq, deviceq}
MCDeviceQ == {deviceq}
=============================================================================
