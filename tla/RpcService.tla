----------------------------- MODULE RpcService ------------------------------
(***************************************************************************)
(* The methods of the IClientRPCService: for each the fields of its        *)
(* generated ...Args struct and the type of the success field (id 0) of    *)
(* its ...Result struct.  The 69 client methods and the 69 process         *)
(* functions of client.rs differ in nothing else.  Field id -1: the        *)
(* reader's match arm is `neg1`, an identifier pattern, which takes the    *)
(* field whatever its id is.                                               *)
(***************************************************************************)
EXTENDS ThriftStructs

Method(args, ret) == [args |-> args, ret |-> ret]
\* A method whose only argument is a request struct.
WithReq(fields, ret) == Method([req |-> Req(1, Struct(fields))], ret)
NoArgs == [x \in {} |-> x]
Status == Struct(TSStatus)
ExecuteResp == Struct(TSExecuteStatementResp)

executeQueryStatementV2 == WithReq(TSExecuteStatementReq, ExecuteResp)
executeUpdateStatementV2 == WithReq(TSExecuteStatementReq, ExecuteResp)
executeStatementV2 == WithReq(TSExecuteStatementReq, ExecuteResp)
executeRawDataQueryV2 == WithReq(TSRawDataQueryReq, ExecuteResp)
executeLastDataQueryV2 == WithReq(TSLastDataQueryReq, ExecuteResp)
executeFastLastDataQueryForOnePrefixPath == WithReq(TSFastLastDataQueryForOnePrefixPathReq, ExecuteResp)
executeFastLastDataQueryForOneDeviceV2 == WithReq(TSFastLastDataQueryForOneDeviceReq, ExecuteResp)
executeAggregationQueryV2 == WithReq(TSAggregationQueryReq, ExecuteResp)
fetchResultsV2 == WithReq(TSFetchResultsReq, Struct(TSFetchResultsResp))
openSession == WithReq(TSOpenSessionReq, Struct(TSOpenSessionResp))
closeSession == WithReq(TSCloseSessionReq, Status)
executeStatement == WithReq(TSExecuteStatementReq, ExecuteResp)
executeBatchStatement == WithReq(TSExecuteBatchStatementReq, Status)
executeQueryStatement == WithReq(TSExecuteStatementReq, ExecuteResp)
executeUpdateStatement == WithReq(TSExecuteStatementReq, ExecuteResp)
fetchResults == WithReq(TSFetchResultsReq, Struct(TSFetchResultsResp))
fetchMetadata == WithReq(TSFetchMetadataReq, Struct(TSFetchMetadataResp))
cancelOperation == WithReq(TSCancelOperationReq, Status)
closeOperation == WithReq(TSCloseOperationReq, Status)
prepareStatement == WithReq(TSPrepareReq, Struct(TSPrepareResp))
executePreparedStatement == WithReq(TSExecutePreparedReq, ExecuteResp)
deallocatePreparedStatement == WithReq(TSDeallocatePreparedReq, Status)
getTimeZone == Method([sessionId |-> Req(1, I64)], Struct(TSGetTimeZoneResp))
setTimeZone == WithReq(TSSetTimeZoneReq, Status)
getProperties == Method(NoArgs, Struct(ServerProperties))
setStorageGroup == Method([sessionId |-> Req(1, I64), storageGroup |-> Req(2, TEXT)], Status)
createTimeseries == WithReq(TSCreateTimeseriesReq, Status)
createAlignedTimeseries == WithReq(TSCreateAlignedTimeseriesReq, Status)
createMultiTimeseries == WithReq(TSCreateMultiTimeseriesReq, Status)
deleteTimeseries == Method([sessionId |-> Req(1, I64), path |-> Req(2, List(TEXT))], Status)
deleteStorageGroups == Method([sessionId |-> Req(1, I64), storageGroup |-> Req(2, List(TEXT))], Status)
insertRecord == WithReq(TSInsertRecordReq, Status)
insertStringRecord == WithReq(TSInsertStringRecordReq, Status)
insertTablet == WithReq(TSInsertTabletReq, Status)
insertTablets == WithReq(TSInsertTabletsReq, Status)
insertRecords == WithReq(TSInsertRecordsReq, Status)
insertRecordsOfOneDevice == WithReq(TSInsertRecordsOfOneDeviceReq, Status)
insertStringRecordsOfOneDevice == WithReq(TSInsertStringRecordsOfOneDeviceReq, Status)
insertStringRecords == WithReq(TSInsertStringRecordsReq, Status)
testInsertTablet == WithReq(TSInsertTabletReq, Status)
testInsertTablets == WithReq(TSInsertTabletsReq, Status)
testInsertRecord == WithReq(TSInsertRecordReq, Status)
testInsertStringRecord == WithReq(TSInsertStringRecordReq, Status)
testInsertRecords == WithReq(TSInsertRecordsReq, Status)
testInsertRecordsOfOneDevice == WithReq(TSInsertRecordsOfOneDeviceReq, Status)
testInsertStringRecords == WithReq(TSInsertStringRecordsReq, Status)
deleteData == WithReq(TSDeleteDataReq, Status)
executeRawDataQuery == WithReq(TSRawDataQueryReq, ExecuteResp)
executeLastDataQuery == WithReq(TSLastDataQueryReq, ExecuteResp)
executeAggregationQuery == WithReq(TSAggregationQueryReq, ExecuteResp)
requestStatementId == Method([sessionId |-> Req(1, I64)], I64)
createSchemaTemplate == WithReq(TSCreateSchemaTemplateReq, Status)
appendSchemaTemplate == WithReq(TSAppendSchemaTemplateReq, Status)
pruneSchemaTemplate == WithReq(TSPruneSchemaTemplateReq, Status)
querySchemaTemplate == WithReq(TSQueryTemplateReq, Struct(TSQueryTemplateResp))
showConfigurationTemplate == Method(NoArgs, Struct(TShowConfigurationTemplateResp))
showConfiguration == Method([nodeId |-> Req(1, I32)], Struct(TShowConfigurationResp))
setSchemaTemplate == WithReq(TSSetSchemaTemplateReq, Status)
unsetSchemaTemplate == WithReq(TSUnsetSchemaTemplateReq, Status)
dropSchemaTemplate == WithReq(TSDropSchemaTemplateReq, Status)
createTimeseriesUsingSchemaTemplate == WithReq(TCreateTimeseriesUsingSchemaTemplateReq, Status)
handshake == Method([info |-> Req(-1, Struct(TSyncIdentityInfo))], Status)
sendPipeData == Method([buff |-> Req(1, BINARY)], Status)
sendFile ==
    Method([metaInfo |-> Req(1, Struct(TSyncTransportMetaInfo)), buff |-> Req(2, BINARY)], Status)
pipeTransfer == Method([req |-> Req(-1, Struct(TPipeTransferReq))], Struct(TPipeTransferResp))
pipeSubscribe == Method([req |-> Req(-1, Struct(TPipeSubscribeReq))], Struct(TPipeSubscribeResp))
getBackupConfiguration == Method(NoArgs, Struct(TSBackupConfigurationResp))
fetchAllConnectionsInfo == Method(NoArgs, Struct(TSConnectionInfoResp))
testConnectionEmptyRPC == Method(NoArgs, Status)

\* By the name write_message_begin sends and the service dispatches on.
Methods ==
    [executeQueryStatementV2 |-> executeQueryStatementV2,
     executeUpdateStatementV2 |-> executeUpdateStatementV2, executeStatementV2 |-> executeStatementV2,
     executeRawDataQueryV2 |-> executeRawDataQueryV2, executeLastDataQueryV2 |-> executeLastDataQueryV2,
     executeFastLastDataQueryForOnePrefixPath |-> executeFastLastDataQueryForOnePrefixPath,
     executeFastLastDataQueryForOneDeviceV2 |-> executeFastLastDataQueryForOneDeviceV2,
     executeAggregationQueryV2 |-> executeAggregationQueryV2, fetchResultsV2 |-> fetchResultsV2,
     openSession |-> openSession, closeSession |-> closeSession, executeStatement |-> executeStatement,
     executeBatchStatement |-> executeBatchStatement, executeQueryStatement |-> executeQueryStatement,
     executeUpdateStatement |-> executeUpdateStatement, fetchResults |-> fetchResults,
     fetchMetadata |-> fetchMetadata, cancelOperation |-> cancelOperation, closeOperation |-> closeOperation,
     prepareStatement |-> prepareStatement, executePreparedStatement |-> executePreparedStatement,
     deallocatePreparedStatement |-> deallocatePreparedStatement, getTimeZone |-> getTimeZone,
     setTimeZone |-> setTimeZone, getProperties |-> getProperties, setStorageGroup |-> setStorageGroup,
     createTimeseries |-> createTimeseries, createAlignedTimeseries |-> createAlignedTimeseries,
     createMultiTimeseries |-> createMultiTimeseries, deleteTimeseries |-> deleteTimeseries,
     deleteStorageGroups |-> deleteStorageGroups, insertRecord |-> insertRecord,
     insertStringRecord |-> insertStringRecord, insertTablet |-> insertTablet, insertTablets |-> insertTablets,
     insertRecords |-> insertRecords, insertRecordsOfOneDevice |-> insertRecordsOfOneDevice,
     insertStringRecordsOfOneDevice |-> insertStringRecordsOfOneDevice,
     insertStringRecords |-> insertStringRecords, testInsertTablet |-> testInsertTablet,
     testInsertTablets |-> testInsertTablets, testInsertRecord |-> testInsertRecord,
     testInsertStringRecord |-> testInsertStringRecord, testInsertRecords |-> testInsertRecords,
     testInsertRecordsOfOneDevice |-> testInsertRecordsOfOneDevice,
     testInsertStringRecords |-> testInsertStringRecords, deleteData |-> deleteData,
     executeRawDataQuery |-> executeRawDataQuery, executeLastDataQuery |-> executeLastDataQuery,
     executeAggregationQuery |-> executeAggregationQuery, requestStatementId |-> requestStatementId,
     createSchemaTemplate |-> createSchemaTemplate, appendSchemaTemplate |-> appendSchemaTemplate,
     pruneSchemaTemplate |-> pruneSchemaTemplate, querySchemaTemplate |-> querySchemaTemplate,
     showConfigurationTemplate |-> showConfigurationTemplate, showConfiguration |-> showConfiguration,
     setSchemaTemplate |-> setSchemaTemplate, unsetSchemaTemplate |-> unsetSchemaTemplate,
     dropSchemaTemplate |-> dropSchemaTemplate,
     createTimeseriesUsingSchemaTemplate |-> createTimeseriesUsingSchemaTemplate, handshake |-> handshake,
     sendPipeData |-> sendPipeData, sendFile |-> sendFile, pipeTransfer |-> pipeTransfer,
     pipeSubscribe |-> pipeSubscribe, getBackupConfiguration |-> getBackupConfiguration,
     fetchAllConnectionsInfo |-> fetchAllConnectionsInfo, testConnectionEmptyRPC |-> testConnectionEmptyRPC]
==============================================================================
