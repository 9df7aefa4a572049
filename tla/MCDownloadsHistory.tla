-------------------------- MODULE MCDownloadsHistory ---------------------------
(* The instances of MCDownloads with the history variables.                *)
EXTENDS MCDownloads, DownloadsHistory
================================================================================
