SPECIFICATION TransportsSpec
CONSTANTS
  SpanIds = {1, 2, 3, 4}
  Sizes = {1, 2, 4, 6}
  ProcessSizes = {1, 2}
  MaxPacketSize = 7
  EmitBatchOverhead = 2
  Envelope = 2
  MaxDropped = 1
  BatchSizes = {1, 2, 3}
INVARIANTS PackingExact LossesAccounted TakenOnce
PROPERTY TransportsImplement
CHECK_DEADLOCK FALSE
