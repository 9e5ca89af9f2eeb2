---------------------------- MODULE ThriftStructs ----------------------------
(***************************************************************************)
(* The messages of the IClientRPCService as the generated stubs in         *)
(* src/protocol read and write them.  A struct is a record from its IDL    *)
(* field names to the field's id on the wire, its type and whether the     *)
(* reader insists on it (verify_required_field_exists); an optional field  *)
(* is an Option, written only when it is Some.  An enum is the set of      *)
(* numbers its TryFrom<i32> accepts.  Each definition stands for a struct, *)
(* its read_from_in_protocol and its write_to_out_protocol: both handle    *)
(* the fields listed here, under these ids and wire types, and no others.  *)
(***************************************************************************)
EXTENDS Integers

BOOL == [k |-> "bool"]
I8 == [k |-> "i8"]
I16 == [k |-> "i16"]
I32 == [k |-> "i32"]
I64 == [k |-> "i64"]
TEXT == [k |-> "string"]
BINARY == [k |-> "binary"]
Enum(numbers) == [k |-> "enum", numbers |-> numbers]
List(type) == [k |-> "list", of |-> type]
Map(key, type) == [k |-> "map", key |-> key, of |-> type]
Struct(fields) == [k |-> "struct", fields |-> fields]
StatusRef == [k |-> "status"]    \* TSStatus inside TSStatus (Box<TSStatus>)

Req(id, type) == [id |-> id, type |-> type, required |-> TRUE, default |-> FALSE]
Opt(id, type) == [id |-> id, type |-> type, required |-> FALSE, default |-> FALSE]
\* An optional field the reader presets: it is Some(0) when the message omits it.
OptElse0(id, type) == [id |-> id, type |-> type, required |-> FALSE, default |-> TRUE]

-----------------------------------------------------------------------------
(* common.rs *)

TAggregationType == 0..40
TEndPoint == [ip |-> Req(1, TEXT), port |-> Req(2, I32)]
TSStatus ==
    [code |-> Req(1, I32), message |-> Opt(2, TEXT), subStatus |-> Opt(3, List(StatusRef)),
     redirectNode |-> Opt(4, Struct(TEndPoint)), needRetry |-> Opt(5, BOOL),
     responseData |-> Opt(6, BINARY)]
TShowConfigurationTemplateResp == [status |-> Req(1, Struct(TSStatus)), content |-> Req(2, TEXT)]
TShowConfigurationResp == [status |-> Req(1, Struct(TSStatus)), content |-> Req(2, TEXT)]

-----------------------------------------------------------------------------
(* client.rs *)

TSProtocolVersion == 0..2
TSConnectionType == 0..3
TSExecuteStatementReq ==
    [sessionId |-> Req(1, I64), statement |-> Req(2, TEXT), statementId |-> Req(3, I64),
     fetchSize |-> Opt(4, I32), timeout |-> Opt(5, I64), enableRedirectQuery |-> Opt(6, BOOL),
     jdbcQuery |-> Opt(7, BOOL)]
TSQueryDataSet ==
    [time |-> Req(1, BINARY), valueList |-> Req(2, List(BINARY)), bitmapList |-> Req(3, List(BINARY))]
TSQueryNonAlignDataSet == [timeList |-> Req(1, List(BINARY)), valueList |-> Req(2, List(BINARY))]
TSTracingInfo ==
    [activityList |-> Req(1, List(TEXT)), elapsedTimeList |-> Req(2, List(I64)),
     seriesPathNum |-> Opt(3, I32), seqFileNum |-> Opt(4, I32), unSeqFileNum |-> Opt(5, I32),
     sequenceChunkNum |-> Opt(6, I32), sequenceChunkPointNum |-> Opt(7, I64),
     unsequenceChunkNum |-> Opt(8, I32), unsequenceChunkPointNum |-> Opt(9, I64),
     totalPageNum |-> Opt(10, I32), overlappedPageNum |-> Opt(11, I32)]
TSExecuteStatementResp ==
    [status |-> Req(1, Struct(TSStatus)), queryId |-> Opt(2, I64), columns |-> Opt(3, List(TEXT)),
     operationType |-> Opt(4, TEXT), ignoreTimeStamp |-> Opt(5, BOOL),
     dataTypeList |-> Opt(6, List(TEXT)), queryDataSet |-> Opt(7, Struct(TSQueryDataSet)),
     nonAlignQueryDataSet |-> Opt(8, Struct(TSQueryNonAlignDataSet)),
     columnNameIndexMap |-> Opt(9, Map(TEXT, I32)), sgColumns |-> Opt(10, List(TEXT)),
     aliasColumns |-> Opt(11, List(I8)), tracingInfo |-> Opt(12, Struct(TSTracingInfo)),
     queryResult |-> Opt(13, List(BINARY)), moreData |-> Opt(14, BOOL), database |-> Opt(15, TEXT),
     tableModel |-> Opt(16, BOOL), columnIndex2TsBlockColumnIndexList |-> Opt(17, List(I32))]
TSRawDataQueryReq ==
    [sessionId |-> Req(1, I64), paths |-> Req(2, List(TEXT)), fetchSize |-> Opt(3, I32),
     startTime |-> Req(4, I64), endTime |-> Req(5, I64), statementId |-> Req(6, I64),
     enableRedirectQuery |-> Opt(7, BOOL), jdbcQuery |-> Opt(8, BOOL), timeout |-> Opt(9, I64),
     legalPathNodes |-> Opt(10, BOOL)]
TSLastDataQueryReq ==
    [sessionId |-> Req(1, I64), paths |-> Req(2, List(TEXT)), fetchSize |-> Opt(3, I32),
     time |-> Req(4, I64), statementId |-> Req(5, I64), enableRedirectQuery |-> Opt(6, BOOL),
     jdbcQuery |-> Opt(7, BOOL), timeout |-> Opt(8, I64), legalPathNodes |-> Opt(9, BOOL)]
TSFastLastDataQueryForOnePrefixPathReq ==
    [sessionId |-> Req(1, I64), prefixes |-> Req(2, List(TEXT)), fetchSize |-> Opt(3, I32),
     statementId |-> Req(4, I64), enableRedirectQuery |-> Opt(5, BOOL), jdbcQuery |-> Opt(6, BOOL),
     timeout |-> Opt(7, I64)]
TSFastLastDataQueryForOneDeviceReq ==
    [sessionId |-> Req(1, I64), db |-> Req(2, TEXT), deviceId |-> Req(3, TEXT),
     sensors |-> Req(4, List(TEXT)), fetchSize |-> Opt(5, I32), statementId |-> Req(6, I64),
     enableRedirectQuery |-> Opt(7, BOOL), jdbcQuery |-> Opt(8, BOOL), timeout |-> Opt(9, I64),
     legalPathNodes |-> Opt(10, BOOL)]
TSAggregationQueryReq ==
    [sessionId |-> Req(1, I64), statementId |-> Req(2, I64), paths |-> Req(3, List(TEXT)),
     aggregations |-> Req(4, List(Enum(TAggregationType))), startTime |-> Opt(5, I64),
     endTime |-> Opt(6, I64), interval |-> Opt(7, I64), slidingStep |-> Opt(8, I64),
     fetchSize |-> Opt(9, I32), timeout |-> Opt(10, I64), legalPathNodes |-> Opt(11, BOOL)]
TSFetchResultsReq ==
    [sessionId |-> Req(1, I64), statement |-> Req(2, TEXT), fetchSize |-> Req(3, I32),
     queryId |-> Req(4, I64), isAlign |-> Req(5, BOOL), timeout |-> Opt(6, I64),
     statementId |-> Opt(7, I64)]
TSFetchResultsResp ==
    [status |-> Req(1, Struct(TSStatus)), hasResultSet |-> Req(2, BOOL), isAlign |-> Req(3, BOOL),
     queryDataSet |-> Opt(4, Struct(TSQueryDataSet)),
     nonAlignQueryDataSet |-> Opt(5, Struct(TSQueryNonAlignDataSet)), queryResult |-> Opt(6, List(BINARY)),
     moreData |-> Opt(7, BOOL)]
TSOpenSessionReq ==
    [client_protocol |-> Req(1, Enum(TSProtocolVersion)), zoneId |-> Req(2, TEXT),
     username |-> Req(3, TEXT), password |-> Opt(4, TEXT),
     configuration |-> Opt(5, Map(TEXT, TEXT))]
TSOpenSessionResp ==
    [status |-> Req(1, Struct(TSStatus)), serverProtocolVersion |-> Req(2, Enum(TSProtocolVersion)),
     sessionId |-> Opt(3, I64), configuration |-> Opt(4, Map(TEXT, TEXT))]
TSCloseSessionReq == [sessionId |-> Req(1, I64)]
TSExecuteBatchStatementReq == [sessionId |-> Req(1, I64), statements |-> Req(2, List(TEXT))]
TSFetchMetadataReq == [sessionId |-> Req(1, I64), type |-> Req(2, TEXT), columnPath |-> Opt(3, TEXT)]
TSFetchMetadataResp ==
    [status |-> Req(1, Struct(TSStatus)), metadataInJson |-> Opt(2, TEXT),
     columnsList |-> Opt(3, List(TEXT)), dataType |-> Opt(4, TEXT)]
TSCancelOperationReq == [sessionId |-> Req(1, I64), queryId |-> Req(2, I64)]
TSCloseOperationReq ==
    [sessionId |-> Req(1, I64), queryId |-> Opt(2, I64), statementId |-> Opt(3, I64),
     preparedStatementName |-> Opt(4, TEXT)]
TSPrepareReq == [sessionId |-> Req(1, I64), sql |-> Req(2, TEXT), statementName |-> Req(3, TEXT)]
TSPrepareResp == [status |-> Req(1, Struct(TSStatus)), parameterCount |-> Opt(2, I32)]
TSExecutePreparedReq ==
    [sessionId |-> Req(1, I64), statementName |-> Req(2, TEXT), parameters |-> Req(3, BINARY),
     fetchSize |-> Opt(4, I32), timeout |-> Opt(5, I64), statementId |-> Req(6, I64)]
TSDeallocatePreparedReq == [sessionId |-> Req(1, I64), statementName |-> Req(2, TEXT)]
TSGetTimeZoneResp == [status |-> Req(1, Struct(TSStatus)), timeZone |-> Req(2, TEXT)]
TSSetTimeZoneReq == [sessionId |-> Req(1, I64), timeZone |-> Req(2, TEXT)]
ServerProperties ==
    [version |-> Req(1, TEXT), supportedTimeAggregationOperations |-> Req(2, List(TEXT)),
     timestampPrecision |-> Req(3, TEXT), maxConcurrentClientNum |-> OptElse0(4, I32),
     thriftMaxFrameSize |-> Opt(5, I32), isReadOnly |-> Opt(6, BOOL), buildInfo |-> Opt(7, TEXT),
     logo |-> Opt(8, TEXT)]
TSCreateTimeseriesReq ==
    [sessionId |-> Req(1, I64), path |-> Req(2, TEXT), dataType |-> Req(3, I32),
     encoding |-> Req(4, I32), compressor |-> Req(5, I32), props |-> Opt(6, Map(TEXT, TEXT)),
     tags |-> Opt(7, Map(TEXT, TEXT)), attributes |-> Opt(8, Map(TEXT, TEXT)),
     measurementAlias |-> Opt(9, TEXT)]
TSCreateAlignedTimeseriesReq ==
    [sessionId |-> Req(1, I64), prefixPath |-> Req(2, TEXT), measurements |-> Req(3, List(TEXT)),
     dataTypes |-> Req(4, List(I32)), encodings |-> Req(5, List(I32)), compressors |-> Req(6, List(I32)),
     measurementAlias |-> Opt(7, List(TEXT)), tagsList |-> Opt(8, List(Map(TEXT, TEXT))),
     attributesList |-> Opt(9, List(Map(TEXT, TEXT)))]
TSCreateMultiTimeseriesReq ==
    [sessionId |-> Req(1, I64), paths |-> Req(2, List(TEXT)), dataTypes |-> Req(3, List(I32)),
     encodings |-> Req(4, List(I32)), compressors |-> Req(5, List(I32)),
     propsList |-> Opt(6, List(Map(TEXT, TEXT))), tagsList |-> Opt(7, List(Map(TEXT, TEXT))),
     attributesList |-> Opt(8, List(Map(TEXT, TEXT))), measurementAliasList |-> Opt(9, List(TEXT))]
TSInsertRecordReq ==
    [sessionId |-> Req(1, I64), prefixPath |-> Req(2, TEXT), measurements |-> Req(3, List(TEXT)),
     values |-> Req(4, BINARY), timestamp |-> Req(5, I64), isAligned |-> Opt(6, BOOL),
     isWriteToTable |-> Opt(7, BOOL), columnCategoryies |-> Opt(8, List(I8))]
TSInsertStringRecordReq ==
    [sessionId |-> Req(1, I64), prefixPath |-> Req(2, TEXT), measurements |-> Req(3, List(TEXT)),
     values |-> Req(4, List(TEXT)), timestamp |-> Req(5, I64), isAligned |-> Opt(6, BOOL),
     timeout |-> Opt(7, I64)]
TSInsertTabletReq ==
    [sessionId |-> Req(1, I64), prefixPath |-> Req(2, TEXT), measurements |-> Req(3, List(TEXT)),
     values |-> Req(4, BINARY), timestamps |-> Req(5, BINARY), types |-> Req(6, List(I32)),
     size |-> Req(7, I32), isAligned |-> Opt(8, BOOL), writeToTable |-> Opt(9, BOOL),
     columnCategories |-> Opt(10, List(I8)), isCompressed |-> Opt(11, BOOL),
     encodingTypes |-> Opt(12, List(I8)), compressType |-> Opt(13, I8)]
TSInsertTabletsReq ==
    [sessionId |-> Req(1, I64), prefixPaths |-> Req(2, List(TEXT)),
     measurementsList |-> Req(3, List(List(TEXT))), valuesList |-> Req(4, List(BINARY)),
     timestampsList |-> Req(5, List(BINARY)), typesList |-> Req(6, List(List(I32))),
     sizeList |-> Req(7, List(I32)), isAligned |-> Opt(8, BOOL)]
TSInsertRecordsReq ==
    [sessionId |-> Req(1, I64), prefixPaths |-> Req(2, List(TEXT)),
     measurementsList |-> Req(3, List(List(TEXT))), valuesList |-> Req(4, List(BINARY)),
     timestamps |-> Req(5, List(I64)), isAligned |-> Opt(6, BOOL)]
TSInsertRecordsOfOneDeviceReq ==
    [sessionId |-> Req(1, I64), prefixPath |-> Req(2, TEXT),
     measurementsList |-> Req(3, List(List(TEXT))), valuesList |-> Req(4, List(BINARY)),
     timestamps |-> Req(5, List(I64)), isAligned |-> Opt(6, BOOL)]
TSInsertStringRecordsOfOneDeviceReq ==
    [sessionId |-> Req(1, I64), prefixPath |-> Req(2, TEXT),
     measurementsList |-> Req(3, List(List(TEXT))), valuesList |-> Req(4, List(List(TEXT))),
     timestamps |-> Req(5, List(I64)), isAligned |-> Opt(6, BOOL)]
TSInsertStringRecordsReq ==
    [sessionId |-> Req(1, I64), prefixPaths |-> Req(2, List(TEXT)),
     measurementsList |-> Req(3, List(List(TEXT))), valuesList |-> Req(4, List(List(TEXT))),
     timestamps |-> Req(5, List(I64)), isAligned |-> Opt(6, BOOL)]
TSDeleteDataReq ==
    [sessionId |-> Req(1, I64), paths |-> Req(2, List(TEXT)), startTime |-> Req(3, I64),
     endTime |-> Req(4, I64)]
TSCreateSchemaTemplateReq ==
    [sessionId |-> Req(1, I64), name |-> Req(2, TEXT), serializedTemplate |-> Req(3, BINARY)]
TSAppendSchemaTemplateReq ==
    [sessionId |-> Req(1, I64), name |-> Req(2, TEXT), isAligned |-> Req(3, BOOL),
     measurements |-> Req(4, List(TEXT)), dataTypes |-> Req(5, List(I32)),
     encodings |-> Req(6, List(I32)), compressors |-> Req(7, List(I32))]
TSPruneSchemaTemplateReq == [sessionId |-> Req(1, I64), name |-> Req(2, TEXT), path |-> Req(3, TEXT)]
TSQueryTemplateReq ==
    [sessionId |-> Req(1, I64), name |-> Req(2, TEXT), queryType |-> Req(3, I32),
     measurement |-> Opt(4, TEXT)]
TSQueryTemplateResp ==
    [status |-> Req(1, Struct(TSStatus)), queryType |-> Req(2, I32), result |-> Opt(3, BOOL),
     count |-> Opt(4, I32), measurements |-> Opt(5, List(TEXT))]
TSSetSchemaTemplateReq ==
    [sessionId |-> Req(1, I64), templateName |-> Req(2, TEXT), prefixPath |-> Req(3, TEXT)]
TSUnsetSchemaTemplateReq ==
    [sessionId |-> Req(1, I64), prefixPath |-> Req(2, TEXT), templateName |-> Req(3, TEXT)]
TSDropSchemaTemplateReq == [sessionId |-> Req(1, I64), templateName |-> Req(2, TEXT)]
TCreateTimeseriesUsingSchemaTemplateReq ==
    [sessionId |-> Req(1, I64), devicePathList |-> Req(2, List(TEXT))]
TSyncIdentityInfo ==
    [pipeName |-> Req(1, TEXT), createTime |-> Req(2, I64), version |-> Req(3, TEXT),
     database |-> Req(4, TEXT)]
TSyncTransportMetaInfo == [fileName |-> Req(1, TEXT), startIndex |-> Req(2, I64)]
TPipeTransferReq == [version |-> Req(1, I8), type |-> Req(2, I16), body |-> Req(3, BINARY)]
TPipeTransferResp == [status |-> Req(1, Struct(TSStatus)), body |-> Opt(2, BINARY)]
TPipeSubscribeReq == [version |-> Req(1, I8), type |-> Req(2, I16), body |-> Opt(3, BINARY)]
TPipeSubscribeResp ==
    [status |-> Req(1, Struct(TSStatus)), version |-> Req(2, I8), type |-> Req(3, I16),
     body |-> Opt(4, List(BINARY))]
TSBackupConfigurationResp ==
    [status |-> Req(1, Struct(TSStatus)), enableOperationSync |-> Opt(2, BOOL),
     secondaryAddress |-> Opt(3, TEXT), secondaryPort |-> Opt(4, I32)]
TSConnectionInfo ==
    [userName |-> Req(1, TEXT), logInTime |-> Req(2, I64), connectionId |-> Req(3, TEXT),
     type |-> Req(4, Enum(TSConnectionType))]
TSConnectionInfoResp == [connectionInfoList |-> Req(1, List(Struct(TSConnectionInfo)))]
=============================================================================
